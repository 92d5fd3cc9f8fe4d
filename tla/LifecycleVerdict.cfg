SPECIFICATION FairSpec
CONSTANTS
  w1 = w1  w2 = w2  c1 = c1  creator = creator  t1 = t1  t2 = t2  ra = ra  rb = rb
  Workers = {w1, w2}
  Cancellers = {}
  Creators = {creator}
  Dispatcher = Dispatcher
  NoRun = NoRun
  Targets = {t1, t2}
  Runs = {ra, rb}
  TargetOf <- RunPerTarget
  AdapterOutcomes = {"succeeded", "failed"}
  MaxTries = 2
  MaxJob = 4
  MaxFaults = 1
  RewriteRaces = FALSE
INVARIANT LeaseExclusive
INVARIANT OutcomeAgrees
INVARIANT FindingsBeforeRun
PROPERTY ResultsAreFinal
PROPERTY StorePromised
PROPERTY EventuallyTerminal
CHECK_DEADLOCK FALSE

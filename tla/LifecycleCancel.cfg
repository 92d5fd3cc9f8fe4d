SPECIFICATION FairSpec
CONSTANTS
  w1 = w1  w2 = w2  c1 = c1  creator = creator  t1 = t1  t2 = t2  ra = ra  rb = rb
  Workers = {w1}
  Cancellers = {c1}
  Creators = {}
  Dispatcher = Dispatcher
  NoRun = NoRun
  Targets = {t1}
  Runs = {ra}
  TargetOf <- OneTarget
  AdapterOutcomes = {"succeeded"}
  MaxTries = 2
  MaxJob = 3
  MaxFaults = 1
  RewriteRaces = FALSE
INVARIANT TypeOK
INVARIANT CancelledRunsClosed
PROPERTY ContractHolds
PROPERTY CancelAcknowledged
CHECK_DEADLOCK FALSE

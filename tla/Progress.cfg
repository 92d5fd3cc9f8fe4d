SPECIFICATION FairSpec
CONSTANTS
  s1 = s1  s2 = s2  r1 = r1  r2 = r2
  MaxEvents = 3
  Streams = {s1, s2}
  MaxStreams = 1
  MaxReconnects = 2
  Requests = {r1, r2}
  Cancels = TRUE
INVARIANT NothingSkipped
INVARIANT ClosesAfterFinal
INVARIANT SlotsMatch
PROPERTY ViewStaysFinal
PROPERTY EndShown
CHECK_DEADLOCK FALSE

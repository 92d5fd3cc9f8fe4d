SPECIFICATION FairSpec
CONSTANTS
  p1 = p1  p2 = p2
  Probes = {p1, p2}
  Startup = Startup
  Free = Free
INVARIANT NothingLeaked
INVARIANT LoopsBeforeClose
INVARIANT WritesProtected
PROPERTY Mends
PROPERTY StopEnds
CHECK_DEADLOCK FALSE

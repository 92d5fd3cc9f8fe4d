SPECIFICATION Spec
CONSTANTS
  c1 = c1  c2 = c2
  Clients = {c1, c2}
  Weights = {1, 3}
  MaxRequests = 3
  Window = 2
  MaxTime = 4
SYMMETRY ClientSymmetry
INVARIANT LimitKept
PROPERTY RefusedUnderLoad
CHECK_DEADLOCK FALSE

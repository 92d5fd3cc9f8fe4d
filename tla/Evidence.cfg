SPECIFICATION Spec
CONSTANTS
  same = same  other = other  q1 = q1  q2 = q2
  Attempts = {1, 2}
  LeaseJobs = {2}
  Endings <- Finish
  Rewriters = {}
  Findings = {same, other}
  Source = 2
  NodeOf <- NodePlace
  EdgeOf <- EdgePlace
  ProvenanceOf <- ProvenancePlace
  PageLimit = 1
  Requests = {q1, q2}
SYMMETRY RequestSymmetry
INVARIANT Anchored
INVARIANT NothingOfDeleted
INVARIANT FreshViewComplete
INVARIANT NothingPassedOver
PROPERTY FreshViewStays
CHECK_DEADLOCK FALSE

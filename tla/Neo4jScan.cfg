SPECIFICATION Spec
CONSTANTS
  c1 = c1  c2 = c2  c3 = c3  sweeper = sweeper
  Clients = {c1, sweeper}
  Sweeper = sweeper
  Rewriters = {c1}
  Attempts = {1, 2}
  LeaseJobs = {1, 2}
  Endings <- SomeEndings
INVARIANT PayloadAgrees
INVARIANT QueuedJobAgrees
PROPERTY FinalPayloadStays
PROPERTY StoreHolds
CHECK_DEADLOCK FALSE

SPECIFICATION Spec
CONSTANTS
  MaxAttempts = 3
  Retries = 2
  MaxCancels = 2
INVARIANT TreeTerminated
CHECK_DEADLOCK FALSE

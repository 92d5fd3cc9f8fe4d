SPECIFICATION FairSpec
CONSTANTS
  MaxAttempts = 3
  Retries = 2
  MaxCancels = 2
INVARIANT ToolTypeOK
INVARIANT ToolDoomed
INVARIANT CancelHonoured
PROPERTY ExecuteEnds
CHECK_DEADLOCK FALSE

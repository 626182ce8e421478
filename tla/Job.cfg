SPECIFICATION FairSpec
CONSTANTS
  j1 = j1
  Jobs = {j1}
  Limits = {0, 1}
  defaultBackoffLimit = 2
  RetryDeadline = 1
  MaxTime = 2
  MaxRetries = 3
  Faults = {"rpc", "api", "crash", "edit", "delete", "target"}
INVARIANT RetriesWithinLimit
PROPERTY ImplementsLifecycle
PROPERTY SucceedsOnlyWhenDone
PROPERTY Terminates
CHECK_DEADLOCK FALSE

SPECIFICATION FairSpec
CONSTANTS
  Due <- MCDue
  Horizon = 3
  MaxMissed = 1
  CronJobs <- Forbidding
  Faults = {"api", "crash", "invalid", "edit", "remove", "delete"}
  MaxFaults = 1
INVARIANT NoOverlap
INVARIANT OncePerTime
PROPERTY LatestTimeRunsForbid
CHECK_DEADLOCK FALSE

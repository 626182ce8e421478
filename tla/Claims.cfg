SPECIFICATION FairSpec
CONSTANTS
  Own = own
  Generated = {g1, g2, g3}
  Schedules <- MCSchedules
  Invalid = "invalid"
  Initial <- MCInitial
  Edits = {"claim", "class", "namespace", "enable", "classes", "child", "delete"}
  MaxEdits = 1
  Faults = {"api", "crash", "switch", "lag", "second", "driver"}
  MaxFaults = 2
INVARIANT OneChild
PROPERTY UnmanagedNotUpdated
PROPERTY FollowsClaim
PROPERTY FollowsClass
CHECK_DEADLOCK FALSE

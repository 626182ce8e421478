SPECIFICATION Spec
CONSTANTS
  Claims <- MCClaims
  Initial <- OneDeletion
  Faults = {}
INVARIANT NoOrphans
CHECK_DEADLOCK FALSE

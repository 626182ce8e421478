SPECIFICATION FairSpec
CONSTANTS
  v1 = v1
  v2 = v2
  None = None
  VRs <- OneVR
  MaxGen = 2
  Faults = {"rpc", "api", "crash"}

  
PROPERTIES
  DeletionCompletes
  StatusConverges
CHECK_DEADLOCK FALSE

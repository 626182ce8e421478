SPECIFICATION Spec
CONSTANTS
  v1 = v1
  v2 = v2
  None = None
  VRs <- TwoVRs
  MaxGen = 1
  Faults = {"api"}
INVARIANTS
  NoOrphanReplication
  
  
PROPERTY
  ImplementsLifecycle
CHECK_DEADLOCK FALSE

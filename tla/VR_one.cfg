SPECIFICATION Spec
CONSTANTS
  v1 = v1
  v2 = v2
  None = None
  VRs <- OneVR
  MaxGen = 3
  Faults = {"rpc", "class", "api", "crash", "claim", "lag"}
INVARIANTS
  RestsOnlyWhenDone
  RestingSecondaryIsInSync
  DemotedIsSecondary
PROPERTY
  PromotesOnlyEnabled
CHECK_DEADLOCK FALSE

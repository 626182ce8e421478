SPECIFICATION FairSpec
CONSTANTS
  Claims <- MCClaims
  Initial <- MCInitial
  Faults = {"error", "crash"}
INVARIANT GroupOutlivesReplication
INVARIANT MembersAreHeld
INVARIANT NoLeakedGroup
 
PROPERTY GroupFollows
CHECK_DEADLOCK FALSE

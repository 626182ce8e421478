SPECIFICATION FairSpec
CONSTANTS
  Classes <- MCClasses
  Nodes <- MCNodes
  FenceClass = "c1"
  Initial <- MCInitial
  MaxEdits = 2
  Faults = {"api", "rpc", "crash", "leader"}
  MaxFaults = 1
INVARIANT RestsWhenFenced
INVARIANT NoDanglingClass
PROPERTY ClassesGetListed
PROPERTY DeletionEnds
CHECK_DEADLOCK FALSE

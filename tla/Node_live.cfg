SPECIFICATION FairSpec
CONSTANTS
  None = None
  n1 = n1
  p1 = p1
  p2 = p2
  r1 = r1
  Nodes <- OneNode
  Pods <- TwoPods
  NodeOf <- Successors
  Readers = {}
  Conns <- ThreeConns
  MaxRetries = 1
  Faults = {"delete", "api"}
PROPERTY Registered
PROPERTY DeletionCompletes
 
CHECK_DEADLOCK FALSE

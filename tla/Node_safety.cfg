SPECIFICATION Spec
CONSTANTS
  None = None
  n1 = n1
  p1 = p1
  p2 = p2
  r1 = r1
  Nodes <- OneNode
  Pods <- OnePod
  NodeOf <- Successors
  Readers <- OneReader
  Conns <- FourConns
  MaxRetries = 2
  Faults = {"dial", "fence", "api", "crash", "delete"}
INVARIANT PooledIsOpen
 
PROPERTY NeverForgotten
CHECK_DEADLOCK FALSE

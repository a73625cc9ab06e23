SPECIFICATION Spec
CONSTANTS
  NODE_NUM = 3
  INFINITY = 999
  neighbors <- TriangleNeighbors
  costs_to_nodes_init <- TriangleVectors
  costs_to_neighbor_init <- TriangleCosts
  LinkEnds <- CodeLink
  LinkCosts <- CodeChanges
  Garbage = {TRUE, FALSE}
  Room <- UpTo4
PROPERTIES
  SendsOnlyChanges
CHECK_DEADLOCK FALSE

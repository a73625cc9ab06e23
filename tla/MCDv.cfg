SPECIFICATION FairSpec
CONSTANTS
  NODE_NUM = 3
  INFINITY = 999
  neighbors <- TriangleNeighbors
  costs_to_nodes_init <- TriangleVectors
  costs_to_neighbor_init <- TriangleCosts
  LinkEnds <- CodeLink
  LinkCosts <- CodeChanges
  Garbage = {FALSE}
  Room <- UpTo20
INVARIANTS
  NewestArrivesLast
  QuietMeansShortest
  NotBelowCheapestYet
PROPERTIES Converges
CHECK_DEADLOCK FALSE

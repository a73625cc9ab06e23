SPECIFICATION FairSpec
CONSTANTS
  NODE_NUM = 4
  INFINITY = 999
  neighbors <- CodeNeighbors
  costs_to_nodes_init <- CodeVectors
  costs_to_neighbor_init <- CodeCosts
  Garbage = {FALSE}
  Delays <- SomeDelays
INVARIANTS QuietMeansShortest
PROPERTIES ImplementsDv
CHECK_DEADLOCK FALSE

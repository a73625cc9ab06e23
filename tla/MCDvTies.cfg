SPECIFICATION Spec
CONSTANTS
  NODE_NUM = 4
  INFINITY = 999
  neighbors <- CodeNeighbors
  costs_to_nodes_init <- CodeVectors
  costs_to_neighbor_init <- CodeCosts
  Garbage = {FALSE}
  Delays <- WithTies
INVARIANTS NewestArrivesLast
CHECK_DEADLOCK FALSE

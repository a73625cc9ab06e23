----------------------------- MODULE DvEntities -----------------------------
(***************************************************************************)
(* One router of the distance-vector simulation: rtinit, rtupdate and      *)
(* linkhandler of advanced/node.c, which are also those of basic/node.c    *)
(* with dt_updated initialised and without links that change.  node0.c to  *)
(* node3.c only name a router's number, neighbours and costs; here these   *)
(* are constants.                                                          *)
(*                                                                         *)
(* advanced/node.c:77 declares dt_updated without a value: when no cost    *)
(* changes, recalculate returns whatever was there.  Garbage is the set of *)
(* values that may be: {FALSE} for basic/node.c, BOOLEAN for advanced.     *)
(***************************************************************************)
EXTENDS Integers, Sequences

CONSTANTS
  NODE_NUM,
  INFINITY,
  neighbors,             \* the neighbours of each router
  costs_to_nodes_init,   \* the first distance vector of each router
  Garbage,
  send_dt_to_neighbors(_, _, _)   \* the states the medium may be in after it

VARIABLES
  dt,                  \* dt[r].costs: the distance table of router r
  costs_to_neighbor,   \* the costs of the links of each router, as it knows
  net                  \* the packets on their way

Router == 0..(NODE_NUM - 1)

DistanceVector == [Router -> Nat]

Least(S) == CHOOSE m \in S : \A n \in S : m <= n

\* The distance table of node after rtinit: only its own vector is known.
InitialTable(node) ==
  [i \in Router |-> IF i = node THEN costs_to_nodes_init[node]
                                ELSE [j \in Router |-> INFINITY]]

rtinit(node) ==
  /\ dt' = [dt EXCEPT ![node] = InitialTable(node)]
  /\ net' \in send_dt_to_neighbors(net, node, costs_to_nodes_init[node])
  /\ UNCHANGED costs_to_neighbor

BetterOnly(node, table, costs) ==
  [i \in Router |-> Least({table[node][i]} \cup
                         {costs[j] + table[j][i] : j \in neighbors[node]})]

ForgetsLink(node, table, costs) ==
  [i \in Router |-> IF i = node THEN table[node][node]
                    ELSE Least({table[j][i] : j \in neighbors[node]})]

\* The vector recalculate leaves in the table of node: for every other
\* router the cheapest way over a neighbour, cheaper than before or not.
Recalculated(node, table, costs) ==
  [i \in Router |-> IF i = node THEN table[node][node]
                    ELSE Least({costs[j] + table[j][i] : j \in neighbors[node]})]

OnlyGoodNews(node, table, costs, n) ==
  LET vector == Recalculated(node, table, costs)
  IN  /\ dt' = [dt EXCEPT ![node] = [table EXCEPT ![node] = vector]]
      /\ net' \in IF \E i \in Router : vector[i] < table[node][i]
                  THEN send_dt_to_neighbors(n, node, vector)
                  ELSE {n}

\* What rtupdate and linkhandler do once table and costs are up to date.
recalculate(node, table, costs, n) ==
  LET vector == Recalculated(node, table, costs)
  IN  /\ dt' = [dt EXCEPT ![node] = [table EXCEPT ![node] = vector]]
      /\ \E dt_updated \in IF vector # table[node] THEN {TRUE} ELSE Garbage :
           net' \in IF dt_updated THEN send_dt_to_neighbors(n, node, vector)
                                  ELSE {n}

rtupdate(node, rcvdpkt, n) ==
  /\ recalculate(node,
                 [dt[node] EXCEPT ![rcvdpkt.sourceid] = rcvdpkt.mincost],
                 costs_to_neighbor[node], n)
  /\ UNCHANGED costs_to_neighbor

StaleCost(node, linkid, newcost, n) ==
  /\ costs_to_neighbor' = [costs_to_neighbor EXCEPT ![node][linkid] = newcost]
  /\ recalculate(node, dt[node], costs_to_neighbor[node], n)

linkhandler(node, linkid, newcost, n) ==
  /\ costs_to_neighbor' = [costs_to_neighbor EXCEPT ![node][linkid] = newcost]
  /\ recalculate(node, dt[node], costs_to_neighbor'[node], n)
=============================================================================

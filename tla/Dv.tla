--------------------------------- MODULE Dv ---------------------------------
(***************************************************************************)
(* The distance-vector program: the routers of node.c driven by main.c     *)
(* over the medium of dv.c.  The medium is the one its comment describes   *)
(* (dv.c:143): packets to a router arrive in the order they were sent,     *)
(* whoever sent them; DvSim.tla has the medium as it is coded.             *)
(***************************************************************************)
EXTENDS Integers, Sequences

CONSTANTS
  NODE_NUM, INFINITY, neighbors, costs_to_nodes_init, Garbage,
  costs_to_neighbor_init,   \* the costs of the links when the program starts
  LinkEnds,                 \* the two routers of the link that changes: <<0, 1>>
  LinkCosts,                \* its new costs one after the other: <<20, 1>>
  Room                      \* how many packets may be on their way to a router:
                            \* none is taken whose answer would not find room

VARIABLES
  dt, costs_to_neighbor, net,
  started,   \* how many of rtinit0, rtinit1, ... init() has called
  handled    \* how many calls of a link handler main() has made

vars == <<dt, costs_to_neighbor, net, started, handled>>

\* Every router of neighbors[node] is another one, and connected to it, so
\* tolayer2 never ignores the packet.
send_dt_to_neighbors(n, node, vector) ==
  {[d \in DOMAIN n |->
      IF d \in neighbors[node]
      THEN Append(n[d], [sourceid |-> node, mincost |-> vector])
      ELSE n[d]]}

INSTANCE DvEntities

RtPkt == [sourceid : Router, mincost : DistanceVector]

ASSUME DvAssumption ==
  /\ NODE_NUM \in Nat
  /\ INFINITY \in Nat \ {0}
  /\ neighbors \in [Router -> SUBSET Router]
  /\ \A r \in Router : neighbors[r] # {} /\ r \notin neighbors[r]
  /\ \A r, s \in Router : s \in neighbors[r] => r \in neighbors[s]
  /\ costs_to_nodes_init \in [Router -> DistanceVector]
  /\ \A r \in Router : costs_to_nodes_init[r][r] = 0
  /\ Garbage \in {{FALSE}, BOOLEAN}
  /\ DOMAIN costs_to_neighbor_init = Router
  /\ \A r \in Router : costs_to_neighbor_init[r] \in [neighbors[r] -> Nat]
  /\ LinkEnds \in Router \X Router
  /\ LinkEnds[2] \in neighbors[LinkEnds[1]]
  /\ LinkCosts \in Seq(Nat)
  /\ Room \subseteq Nat

Init == /\ dt = [r \in Router |-> [i \in Router |-> [j \in Router |-> 0]]]
        /\ costs_to_neighbor = costs_to_neighbor_init
        /\ net = [r \in Router |-> << >>]
        /\ started = 0
        /\ handled = 0

\* init() calls rtinit0, rtinit1, ... before the first event is taken.
RtInit == /\ started < NODE_NUM
          /\ rtinit(started)
          /\ started' = started + 1
          /\ UNCHANGED handled

\* The main loop takes an event: the routers are initialised, and the two
\* link handlers of a LINK_CHANGE are called one right after the other.
Idle == started = NODE_NUM /\ handled % 2 = 0

Quiet == Idle /\ \A r \in Router : net[r] = << >>

EventKept(r) ==
  /\ Idle
  /\ net[r] # << >>
  /\ rtupdate(r, Head(net[r]), net)
  /\ \A s \in Router : Len(net'[s]) \in Room
  /\ UNCHANGED <<started, handled>>

FromLayer2(r) ==
  /\ Idle
  /\ net[r] # << >>
  /\ rtupdate(r, Head(net[r]), [net EXCEPT ![r] = Tail(@)])
  /\ \A s \in Router : Len(net'[s]) \in Room
  /\ UNCHANGED <<started, handled>>

\* LINK_CHANGE events are for 10000 and 20000; no packet takes more than two
\* units after the one before it.  The routers have long stopped by then if
\* they ever stop, which they need not when dt_updated is not initialised.
LinkChange ==
  /\ \/ handled % 2 = 1
     \/ Quiet
     \/ Idle /\ TRUE \in Garbage
  /\ handled < 2 * Len(LinkCosts)
  /\ linkhandler(LinkEnds[1 + (handled % 2)], LinkEnds[2 - (handled % 2)],
                 LinkCosts[1 + (handled \div 2)], net)
  /\ handled' = handled + 1
  /\ UNCHANGED started

Next == \/ RtInit
        \/ \E r \in Router : FromLayer2(r)
        \/ LinkChange

Spec == Init /\ [][Next]_vars

\* The main loop takes every event on the list.
FairSpec == Spec /\ WF_vars(Next)
-----------------------------------------------------------------------------
Vector(r) == dt[r][r]

TypeOK ==
  /\ dt \in [Router -> [Router -> DistanceVector]]
  /\ DOMAIN costs_to_neighbor = Router
  /\ \A r \in Router : costs_to_neighbor[r] \in [neighbors[r] -> Nat]
  /\ net \in [Router -> Seq(RtPkt)]
  /\ \A r \in Router : \A k \in DOMAIN net[r] :
       net[r][k].sourceid \in neighbors[r]
  /\ started \in 0..NODE_NUM
  /\ handled \in 0..(2 * Len(LinkCosts))
  /\ handled > 0 => started = NODE_NUM

\* What a router will know of a neighbour once the packets on their way are
\* in is the neighbour's vector as it is now: no change goes unannounced,
\* and no outdated vector comes after a newer one.
NewestArrivesLast ==
  \A r \in Router : \A s \in neighbors[r] : s < started =>
    LET q == net[r]
    IN  /\ (\A k \in DOMAIN q : q[k].sourceid # s) => dt[r][s] = Vector(s)
        /\ \A k \in DOMAIN q :
             /\ q[k].sourceid = s
             /\ \A m \in DOMAIN q : m > k => q[m].sourceid # s
             => q[k].mincost = Vector(s)

\* A router that has heard of anyone has the best vector its table allows,
\* for the costs its links have now.
LocallyBest ==
  \A r \in Router : r < started =>
    \/ dt[r] = InitialTable(r)
    \/ Vector(r) = Recalculated(r, dt[r], costs_to_neighbor[r])

\* When no packet is left the vectors solve the Bellman-Ford equations: each
\* cost is that of the best first link and the neighbour's cost from there.
QuietMeansBellmanFord ==
  Quiet => \A r, i \in Router :
    Vector(r)[i] =
      IF i = r THEN 0
      ELSE Least({costs_to_neighbor[r][j] + Vector(j)[i] : j \in neighbors[r]})

\* The ways from r to i that pass no router twice, and their length.
Routes(r, i) ==
  {p \in UNION {[1..n -> Router] : n \in 1..NODE_NUM} :
     /\ p[1] = r /\ p[Len(p)] = i
     /\ \A k \in 1..(Len(p) - 1) : p[k + 1] \in neighbors[p[k]]
     /\ \A k, m \in DOMAIN p : p[k] = p[m] => k = m}

RouteLength(costs, p) ==
  LET sum[k \in 1..Len(p)] ==
        IF k = 1 THEN 0 ELSE sum[k - 1] + costs[p[k - 1]][p[k]]
  IN  sum[Len(p)]

Shortest(costs, r, i) == Least({RouteLength(costs, p) : p \in Routes(r, i)})

\* There is a way from every router to every other one.
Connected == \A r, i \in Router : Routes(r, i) # {}

\* No link is free, whatever it costs in the end.
LinksCost ==
  /\ \A r \in Router : \A j \in neighbors[r] : costs_to_neighbor_init[r][j] > 0
  /\ \A k \in DOMAIN LinkCosts : LinkCosts[k] > 0

\* When no packet is left every router knows the length of the shortest way
\* to every other one, whatever happened before: vectors that crossed, costs
\* beyond INFINITY, a link that became dear and cheap again.
QuietMeansShortest ==
  Quiet => \A r, i \in Router : Vector(r)[i] = Shortest(costs_to_neighbor, r, i)

\* INFINITY and the first vectors are not below what a way costs at the start.
StartsCautious ==
  \A r, i \in Router :
    /\ Shortest(costs_to_neighbor_init, r, i) <= INFINITY
    /\ Shortest(costs_to_neighbor_init, r, i) <= costs_to_nodes_init[r][i]

\* How many of the new costs of the link a router has been told.
Changes == (handled + 1) \div 2

\* The cost of each link when it was at its cheapest so far.
CheapestYet ==
  [r \in Router |-> [j \in neighbors[r] |->
     Least({costs_to_neighbor_init[r][j]} \cup
           IF {r, j} = {LinkEnds[1], LinkEnds[2]}
           THEN {LinkCosts[k] : k \in 1..Changes} ELSE {})]]

\* No cost, in a table or in a packet, is below that of the way with each
\* link at the cheapest it has been so far: vectors that cross, and tables
\* from before a change, add up to no way that never was.  It may be below
\* the way of now once a link became dearer: when 0-1 goes to 20, router 1
\* for a while holds 3 to router 0, with 4 the shortest way there is.
NotBelowCheapestYet ==
  LET ways == [s \in Router |-> [i \in Router |-> Shortest(CheapestYet, s, i)]]
  IN  /\ \A r, s, i \in Router : r < started => dt[r][s][i] >= ways[s][i]
      /\ \A r, i \in Router : \A k \in DOMAIN net[r] :
           net[r][k].mincost[i] >= ways[net[r][k].sourceid][i]

\* A router sends its vector only if the step changed it ("if it was updated,
\* send the distance vector to the neighbours", node.c:149).
SendsOnlyChanges ==
  [][ \A r, d \in Router :
        /\ started = NODE_NUM
        /\ Len(net'[d]) > Len(net[d])
        /\ net'[d][Len(net'[d])].sourceid = r
        => Vector(r)' # Vector(r) ]_vars

\* The routers stop exchanging vectors and the program ends, "no packets in
\* medium".
Converges == <>[](Quiet /\ handled = 2 * Len(LinkCosts))
=============================================================================

-------------------------------- MODULE DvSim --------------------------------
(***************************************************************************)
(* The distance-vector program with its clock: the routers of node.c over  *)
(* the event list of dv.c, whose main loop takes the earliest event and no *)
(* other.  A medium n is the list and the time.  With Delays that have no  *)
(* 0 it is the medium its comment promises and the program implements Dv;  *)
(* with 0 two packets may be due at the same time.                         *)
(***************************************************************************)
EXTENDS Integers, Sequences, FiniteSetsExt, SequencesExt

CONSTANTS NODE_NUM, INFINITY, neighbors, costs_to_nodes_init,
          costs_to_neighbor_init, Garbage,
          Delays(_)    \* the values of 2. * jimsrand() that evtime can show, for
                       \* the packets of a router to each of its neighbours

VARIABLES
  dt, costs_to_neighbor,
  net,       \* clocktime and evlist
  started,   \* how many steps of init() are done
  handled    \* how many calls of a link handler main() has made

vars == <<dt, costs_to_neighbor, net, started, handled>>

LINK_CHANGE == 1
FROM_LAYER2 == 2

\* In front of the first event that is not earlier.
insertevent(n, p) ==
  LET list == n.evlist
  IN  [n EXCEPT !.evlist =
         InsertAt(list, Min({k \in 1..(Len(list) + 1) :
                               k > Len(list) \/ p.evtime <= list[k].evtime}), p)]

InTransit(ev, d) == ev.evtype = FROM_LAYER2 /\ ev.eventity = d

\* Whatever else is in the medium.
FromNow(n, d) == n.clocktime

\* When the last packet on its way to d arrives; now if there is none.
lastime(n, d) ==
  LET there == {k \in DOMAIN n.evlist : InTransit(n.evlist[k], d)}
  IN  IF there = {} THEN n.clocktime ELSE n.evlist[Max(there)].evtime

tolayer2(n, packet, d, delay) ==
  insertevent(n, [evtime |-> lastime(n, d) + delay, evtype |-> FROM_LAYER2,
                  eventity |-> d, rtpktptr |-> packet])

\* One packet to each neighbour, in the order of the array.
send_dt_to_neighbors(n, node, vector) ==
  {LET after[k \in 0..NODE_NUM] ==
         IF k = 0 THEN n
         ELSE IF k - 1 \in neighbors[node]
         THEN tolayer2(after[k - 1], [sourceid |-> node, mincost |-> vector],
                       k - 1, delay[k - 1])
         ELSE after[k - 1]
   IN  after[NODE_NUM] : delay \in Delays(node)}

INSTANCE DvEntities

ASSUME DvSimAssumption ==
  /\ NODE_NUM \in Nat
  /\ INFINITY \in Nat \ {0}
  /\ neighbors \in [Router -> SUBSET Router]
  /\ \A r \in Router : neighbors[r] # {} /\ r \notin neighbors[r]
  /\ \A r, s \in Router : s \in neighbors[r] => r \in neighbors[s]
  /\ 0 \in Router /\ 1 \in neighbors[0]
  /\ costs_to_nodes_init \in [Router -> DistanceVector]
  /\ \A r \in Router : costs_to_nodes_init[r][r] = 0
  /\ DOMAIN costs_to_neighbor_init = Router
  /\ \A r \in Router : costs_to_neighbor_init[r] \in [neighbors[r] -> Nat]
  /\ Garbage \in {{FALSE}, BOOLEAN}
  /\ \A r \in Router : Delays(r) \subseteq [neighbors[r] -> Nat]

Init == /\ dt = [r \in Router |-> [i \in Router |-> [j \in Router |-> 0]]]
        /\ costs_to_neighbor = costs_to_neighbor_init
        /\ net = [clocktime |-> 0, evlist |-> << >>]
        /\ started = 0
        /\ handled = 0

RtInit == /\ started < NODE_NUM
          /\ rtinit(started)
          /\ started' = started + 1
          /\ UNCHANGED handled

\* The second one's eventity has no value; nobody reads it.
Change(evtime) == [evtime |-> evtime, evtype |-> LINK_CHANGE, eventity |-> -1]

ScheduleChanges ==
  /\ started = NODE_NUM
  /\ net' = insertevent(insertevent(net, Change(10000)), Change(20000))
  /\ started' = started + 1
  /\ UNCHANGED <<dt, costs_to_neighbor, handled>>

\* The main loop has taken the head of the list, and its time is now.
Takes(evtype) ==
  /\ started > NODE_NUM
  /\ handled % 2 = 0
  /\ net.evlist # << >>
  /\ Head(net.evlist).evtype = evtype

Taken(n) == [clocktime |-> Head(n.evlist).evtime, evlist |-> Tail(n.evlist)]

FromLayer2 ==
  /\ Takes(FROM_LAYER2)
  /\ rtupdate(Head(net.evlist).eventity, Head(net.evlist).rtpktptr, Taken(net))
  /\ UNCHANGED <<started, handled>>

newcost(n) == IF n.clocktime < 10001 THEN 20 ELSE 1

\* linkhandler0 and, right after it, linkhandler1.
LinkChange ==
  /\ \/ Takes(LINK_CHANGE) /\ linkhandler(0, 1, newcost(Taken(net)), Taken(net))
     \/ handled % 2 = 1 /\ linkhandler(1, 0, newcost(net), net)
  /\ handled' = handled + 1
  /\ UNCHANGED started

Next == RtInit \/ ScheduleChanges \/ FromLayer2 \/ LinkChange

Spec == Init /\ [][Next]_vars

\* main() loops until the list is empty.
FairSpec == Spec /\ WF_vars(Next)
-----------------------------------------------------------------------------
\* The packets on their way to d, in the order of the list.
Arriving(list, d) ==
  LET upto[k \in 0..Len(list)] ==
        IF k = 0 THEN << >>
        ELSE IF InTransit(list[k], d) THEN Append(upto[k - 1], list[k].rtpktptr)
        ELSE upto[k - 1]
  IN  upto[Len(list)]

InMedium == [d \in Router |-> Arriving(net.evlist, d)]

Initialised == IF started > NODE_NUM THEN NODE_NUM ELSE started

AnyTime == INSTANCE Dv WITH net <- InMedium, started <- Initialised,
                            LinkEnds <- <<0, 1>>, LinkCosts <- <<20, 1>>,
                            Room <- Nat

\* A packet is never due when the one before it to the same router is.
NoDelayIsZero ==
  \A r \in Router : \A delay \in Delays(r) : \A d \in neighbors[r] : delay[d] > 0

\* What happens at the times the code computes is among what Dv.tla allows at
\* any time, no packet overtakes another one, and the routers have long
\* stopped when a link changes.
ImplementsDv == AnyTime!Spec

\* Every answer main() prints is right: whenever no packet is left the routers
\* of node0.c to node3.c know the shortest ways, for the costs of that time.
QuietMeansShortest == AnyTime!QuietMeansShortest

\* "medium can not reorder" (dv.c:144): of the packets of one router on
\* their way to another, the one that arrives last is the one sent last.
NewestArrivesLast == AnyTime!NewestArrivesLast
=============================================================================

----------------------------- MODULE Dv_proofs -----------------------------
(***************************************************************************)
(* Proofs about Dv.tla, for any network: what a router knows of another    *)
(* one once the packets on their way are in is that router's vector, each  *)
(* router has the best vector its table allows, and so, when no packet is  *)
(* left, the vectors solve the Bellman-Ford equations; their solution is   *)
(* the lengths of the shortest ways, and no cost is ever below a way.      *)
(* Inductions are over the least counterexample.                           *)
(***************************************************************************)
EXTENDS Dv, SequenceTheorems, FiniteSetTheorems, WellFoundedInduction, TLAPS

\* Least is what qsort leaves in candidates[0].
LEMMA LeastIsLeast ==
  ASSUME NEW S, S \subseteq Nat, S # {}
  PROVE  /\ Least(S) \in S
         /\ \A n \in S : Least(S) <= n
<1>1. PICK x \in S : \A y \in S : ~ (<<y, x>> \in OpToRel(<, Nat))
  <2> HIDE DEF OpToRel
  <2> QED BY NatLessThanWellFounded, WFMin
<1>2. \A y \in S : ~ (y < x)
  BY <1>1 DEF OpToRel
<1>3. \A y \in S : x <= y
  BY <1>2
<1> QED BY <1>3 DEF Least

LEMMA RecalculatedType ==
  ASSUME NEW node \in Router,
         NEW table \in [Router -> DistanceVector],
         NEW costs \in [neighbors[node] -> Nat]
  PROVE  Recalculated(node, table, costs) \in DistanceVector
<1>1. /\ neighbors[node] \subseteq Router
      /\ neighbors[node] # {}
  BY DvAssumption
<1>2. ASSUME NEW i \in Router
      PROVE  Least({costs[j] + table[j][i] : j \in neighbors[node]}) \in Nat
  <2> DEFINE candidates == {costs[j] + table[j][i] : j \in neighbors[node]}
  <2>1. candidates \subseteq Nat
    BY <1>1 DEF DistanceVector
  <2>2. candidates # {}
    BY <1>1
  <2> QED BY <2>1, <2>2, LeastIsLeast
<1>3. table[node][node] \in Nat
  BY DEF DistanceVector
<1> QED BY <1>2, <1>3 DEF Recalculated, DistanceVector

-----------------------------------------------------------------------------
\* NewestArrivesLast for one router and one source: q is the queue of the
\* router, known the row it has of the source, v the vector of the source.
Newest(q, known, source, v) ==
  /\ (\A k \in DOMAIN q : q[k].sourceid # source) => known = v
  /\ \A k \in DOMAIN q :
       /\ q[k].sourceid = source
       /\ \A m \in DOMAIN q : m > k => q[m].sourceid # source
       => q[k].mincost = v

LEMMA NewestSent ==
  ASSUME NEW q \in Seq(RtPkt), NEW p \in RtPkt, NEW known
  PROVE  Newest(Append(q, p), known, p.sourceid, p.mincost)
<1> DEFINE a == Append(q, p)
<1>1. /\ DOMAIN a = 1..(Len(q) + 1)
      /\ Len(q) \in Nat
      /\ a[Len(q) + 1] = p
  OBVIOUS
<1> HIDE DEF a
<1> QED BY <1>1 DEF Newest, a

LEMMA NewestOther ==
  ASSUME NEW q \in Seq(RtPkt), NEW p \in RtPkt, NEW known, NEW source, NEW v,
         p.sourceid # source, Newest(q, known, source, v)
  PROVE  Newest(Append(q, p), known, source, v)
<1> DEFINE a == Append(q, p)
<1>1. /\ DOMAIN a = 1..(Len(q) + 1)
      /\ DOMAIN q = 1..Len(q)
      /\ Len(q) \in Nat
      /\ a[Len(q) + 1] = p
      /\ \A k \in 1..Len(q) : a[k] = q[k]
  OBVIOUS
<1> HIDE DEF a
<1>2. ASSUME \A k \in DOMAIN a : a[k].sourceid # source
      PROVE  known = v
  <2>1. \A k \in DOMAIN q : q[k].sourceid # source
    BY <1>1, <1>2
  <2> QED BY <2>1 DEF Newest
<1>3. ASSUME NEW k \in DOMAIN a, a[k].sourceid = source,
             \A m \in DOMAIN a : m > k => a[m].sourceid # source
      PROVE  a[k].mincost = v
  <2>1. k \in DOMAIN q /\ q[k] = a[k]
    BY <1>1, <1>3
  <2>2. \A m \in DOMAIN q : m > k => q[m].sourceid # source
    BY <1>1, <1>3
  <2> QED BY <2>1, <2>2, <1>3 DEF Newest
<1>4. Newest(a, known, source, v)
  BY <1>2, <1>3 DEF Newest
<1> QED BY <1>4 DEF a

LEMMA NewestTaken ==
  ASSUME NEW q \in Seq(RtPkt), q # << >>, NEW known, NEW source, NEW v,
         Newest(q, known, source, v)
  PROVE  Newest(Tail(q),
                IF Head(q).sourceid = source THEN Head(q).mincost ELSE known,
                source, v)
<1> DEFINE t == Tail(q)
           k1 == IF Head(q).sourceid = source THEN Head(q).mincost ELSE known
<1>1. /\ DOMAIN t = 1..(Len(q) - 1)
      /\ DOMAIN q = 1..Len(q)
      /\ Len(q) \in Nat \ {0}
      /\ Head(q) = q[1]
      /\ \A k \in 1..(Len(q) - 1) : t[k] = q[k + 1]
  OBVIOUS
<1> HIDE DEF t
<1>2. ASSUME \A k \in DOMAIN t : t[k].sourceid # source
      PROVE  k1 = v
  <2>1. ASSUME NEW m \in DOMAIN q, m > 1 PROVE q[m].sourceid # source
    <3>1. m - 1 \in DOMAIN t /\ t[m - 1] = q[m]
      BY <1>1, <2>1
    <3> QED BY <3>1, <1>2
  <2>2. CASE q[1].sourceid = source
    BY <2>1, <2>2, <1>1 DEF Newest
  <2>3. CASE q[1].sourceid # source
    <3>1. \A m \in DOMAIN q : q[m].sourceid # source
      BY <2>1, <2>3, <1>1
    <3> QED BY <3>1, <2>3, <1>1 DEF Newest
  <2> QED BY <2>2, <2>3
<1>3. ASSUME NEW k \in DOMAIN t, t[k].sourceid = source,
             \A m \in DOMAIN t : m > k => t[m].sourceid # source
      PROVE  t[k].mincost = v
  <2>1. k + 1 \in DOMAIN q /\ q[k + 1] = t[k]
    BY <1>1
  <2>2. ASSUME NEW m \in DOMAIN q, m > k + 1 PROVE q[m].sourceid # source
    <3>1. m - 1 \in DOMAIN t /\ t[m - 1] = q[m] /\ m - 1 > k
      BY <1>1, <2>2
    <3> QED BY <3>1, <1>3
  <2> QED BY <2>1, <2>2, <1>3 DEF Newest
<1>4. Newest(t, k1, source, v)
  BY <1>2, <1>3 DEF Newest
<1> QED BY <1>4 DEF t

-----------------------------------------------------------------------------
\* NewestArrivesLast in terms of Newest.
NewestKnown ==
  \A r \in Router : \A s \in neighbors[r] :
    s < started => Newest(net[r], dt[r][s], s, Vector(s))

LEMMA NewestIsKnown == NewestArrivesLast <=> NewestKnown
  BY DEF NewestArrivesLast, NewestKnown, Newest

\* Until all routers are initialised no packet is taken: the vector of every
\* initialised one is still on its way to each of its neighbours.
FirstVectorsPending ==
  started < NODE_NUM =>
    \A r \in Router : \A s \in neighbors[r] :
      s < started => \E k \in DOMAIN net[r] : net[r][k].sourceid = s

\* A router is at distance 0 from itself.
OwnZero == \A r \in Router : r < started => Vector(r)[r] = 0

\* The inductive invariant.
IInv == /\ TypeOK
        /\ NewestKnown
        /\ FirstVectorsPending
        /\ OwnZero
        /\ LocallyBest

LEMMA Topology ==
  /\ \A r \in Router : /\ neighbors[r] \subseteq Router
                       /\ neighbors[r] # {}
                       /\ r \notin neighbors[r]
  /\ \A r, s \in Router : s \in neighbors[r] => r \in neighbors[s]
  BY DvAssumption

LEMMA Sizes ==
  /\ NODE_NUM \in Nat
  /\ LinkCosts \in Seq(Nat)
  /\ Len(LinkCosts) \in Nat
<1>1. NODE_NUM \in Nat /\ LinkCosts \in Seq(Nat)
  BY DvAssumption
<1> QED BY <1>1

LEMMA AllStarted == started = NODE_NUM => \A r \in Router : r < started
  BY DvAssumption DEF Router

\* What a router's vector depends on: its own zero and its neighbours' rows.
LEMMA RecalculatedDepends ==
  ASSUME NEW node \in Router, NEW t1, NEW t2, NEW costs,
         t1[node][node] = t2[node][node],
         \A j \in neighbors[node] : t1[j] = t2[j]
  PROVE  Recalculated(node, t1, costs) = Recalculated(node, t2, costs)
<1>1. ASSUME NEW i \in Router
      PROVE  {costs[j] + t1[j][i] : j \in neighbors[node]} =
             {costs[j] + t2[j][i] : j \in neighbors[node]}
  OBVIOUS
<1> QED BY <1>1 DEF Recalculated

\* What is true of the media n and m before and after a router sent its
\* vector or kept quiet.
SendsOrNot(n, m, node, vector, sends) ==
  /\ m \in [Router -> Seq(RtPkt)]
  /\ \A d \in Router :
       m[d] = IF sends /\ d \in neighbors[node]
              THEN Append(n[d], [sourceid |-> node, mincost |-> vector])
              ELSE n[d]

\* The media send_dt_to_neighbors may leave: one, with the vector behind the
\* packets on their way to each neighbour.
LEMMA SendDt ==
  ASSUME NEW n \in [Router -> Seq(RtPkt)], NEW node \in Router,
         NEW vector \in DistanceVector,
         NEW m \in send_dt_to_neighbors(n, node, vector)
  PROVE  SendsOrNot(n, m, node, vector, TRUE)
<1> DEFINE p == [sourceid |-> node, mincost |-> vector]
<1>1. p \in RtPkt
  BY DEF RtPkt
<1>2. m = [d \in Router |-> IF d \in neighbors[node] THEN Append(n[d], p)
                                                      ELSE n[d]]
  BY DEF send_dt_to_neighbors
<1> HIDE DEF p
<1>3. \A d \in Router : n[d] \in Seq(RtPkt) /\ Append(n[d], p) \in Seq(RtPkt)
  BY <1>1
<1>4. m \in [Router -> Seq(RtPkt)]
  BY <1>2, <1>3
<1>5. \A d \in Router :
        m[d] = IF d \in neighbors[node] THEN Append(n[d], p) ELSE n[d]
  BY <1>2
<1> QED BY <1>4, <1>5 DEF p, SendsOrNot

LEMMA InitIInv == Init => IInv
<1> SUFFICES ASSUME Init PROVE IInv
  OBVIOUS
<1>1. [j \in Router |-> 0] \in DistanceVector
  BY DEF DistanceVector
<1>2. dt \in [Router -> [Router -> DistanceVector]]
  BY <1>1 DEF Init
<1>3. /\ LinkCosts \in Seq(Nat) /\ NODE_NUM \in Nat
      /\ Len(LinkCosts) \in Nat
  BY DvAssumption
<1>4. /\ DOMAIN costs_to_neighbor = Router
      /\ \A r \in Router : costs_to_neighbor[r] \in [neighbors[r] -> Nat]
  BY DvAssumption DEF Init
<1>5. /\ net \in [Router -> Seq(RtPkt)]
      /\ \A r \in Router : DOMAIN net[r] = {}
  BY DEF Init
<1>6. TypeOK
  <2>1. started \in 0..NODE_NUM /\ handled \in 0..(2 * Len(LinkCosts))
    BY <1>3 DEF Init
  <2>2. handled > 0 => started = NODE_NUM
    BY DEF Init
  <2>3. \A r \in Router : \A k \in DOMAIN net[r] :
          net[r][k].sourceid \in neighbors[r]
    BY <1>5
  <2> HIDE DEF Init
  <2> QED BY <1>2, <1>4, <1>5, <2>1, <2>2, <2>3 DEF TypeOK
<1>7. \A r \in Router : ~ (r < started)
  BY DEF Init, Router
<1>8. \A r \in Router : \A s \in neighbors[r] : ~ (s < started)
  BY <1>7, Topology
<1> QED BY <1>6, <1>7, <1>8
        DEF IInv, NewestKnown, FirstVectorsPending, OwnZero, LocallyBest

-----------------------------------------------------------------------------
\* What recalculate does to the tables and to the medium.
Recalculates(node, table, n, vector, sends) ==
  /\ vector \in DistanceVector
  /\ dt' \in [Router -> [Router -> DistanceVector]]
  /\ dt'[node][node] = vector
  /\ \A s \in Router \ {node} : dt'[node][s] = table[s]
  /\ \A x \in Router \ {node} : dt'[x] = dt[x]
  /\ vector # table[node] => sends = TRUE
  /\ vector = table[node] => sends \in Garbage
  /\ SendsOrNot(n, net', node, vector, sends)

LEMMA RecalculateEffect ==
  ASSUME TypeOK,
         NEW node \in Router,
         NEW table \in [Router -> DistanceVector],
         NEW costs \in [neighbors[node] -> Nat],
         NEW n \in [Router -> Seq(RtPkt)],
         recalculate(node, table, costs, n)
  PROVE  \E sends \in BOOLEAN :
           Recalculates(node, table, n, Recalculated(node, table, costs), sends)
<1> DEFINE vector == Recalculated(node, table, costs)
<1>1. vector \in DistanceVector
  BY RecalculatedType
<1>2. Garbage \subseteq BOOLEAN
  <2>1. Garbage = {FALSE} \/ Garbage = BOOLEAN
    BY DvAssumption
  <2> QED BY <2>1
<1>3. PICK sends \in IF vector # table[node] THEN {TRUE} ELSE Garbage :
        net' \in IF sends THEN send_dt_to_neighbors(n, node, vector) ELSE {n}
  BY DEF recalculate
<1>4. sends \in BOOLEAN
  BY <1>2, <1>3
<1>5. dt' = [dt EXCEPT ![node] = [table EXCEPT ![node] = vector]]
  BY DEF recalculate
<1> HIDE DEF vector
<1>8. /\ dt' \in [Router -> [Router -> DistanceVector]]
      /\ dt'[node][node] = vector
      /\ \A s \in Router \ {node} : dt'[node][s] = table[s]
      /\ \A x \in Router \ {node} : dt'[x] = dt[x]
  BY <1>1, <1>5 DEF TypeOK
<1>6. SendsOrNot(n, net', node, vector, sends)
  <2>1. CASE sends
    <3>1. net' \in send_dt_to_neighbors(n, node, vector)
      BY <1>3, <2>1
    <3>2. sends = TRUE
      BY <2>1, <1>4, Zenon
    <3>3. SendsOrNot(n, net', node, vector, TRUE)
      BY <3>1, <1>1, SendDt, Zenon
    <3> QED BY <3>2, <3>3, Zenon
  <2>2. CASE ~ sends
    <3>1. net' = n
      BY <1>3, <2>2, Zenon
    <3> QED BY <3>1, <2>2, Zenon DEF SendsOrNot
  <2> QED BY <1>4, <2>1, <2>2
<1>7. /\ vector # table[node] => sends = TRUE
      /\ vector = table[node] => sends \in Garbage
  BY <1>3
<1>9. Recalculates(node, table, n, vector, sends)
  BY <1>1, <1>6, <1>7, <1>8, Zenon DEF Recalculates
<1> QED BY <1>4, <1>9, Zenon DEF vector

\* A router's table and queue n[node] agree on what its neighbours sent, and
\* the other queues are as they were.
Agree(node, table, n) ==
  /\ table[node] = Vector(node)
  /\ \A s \in neighbors[node] : Newest(n[node], table[s], s, Vector(s))
  /\ \A x \in Router \ {node} : n[x] = net[x]

\* rtupdate and linkhandler keep NewestKnown: the receiver's table and queue
\* agree before its vector is recalculated, and the new vector goes to the
\* end of its neighbours' queues unless it is the old one.
LEMMA NewestKept ==
  ASSUME TypeOK, NewestKnown, started = NODE_NUM, started' = started,
         NEW node \in Router,
         NEW table \in [Router -> DistanceVector],
         NEW n \in [Router -> Seq(RtPkt)],
         NEW vector, NEW sends \in BOOLEAN,
         Recalculates(node, table, n, vector, sends),
         Agree(node, table, n)
  PROVE  NewestKnown'
<1>0. /\ table[node] = Vector(node)
      /\ \A s \in neighbors[node] : Newest(n[node], table[s], s, Vector(s))
      /\ \A x \in Router \ {node} : n[x] = net[x]
  BY DEF Agree
<1> DEFINE p == [sourceid |-> node, mincost |-> vector]
<1>2. /\ vector \in DistanceVector
      /\ vector # table[node] => sends
      /\ SendsOrNot(n, net', node, vector, sends)
  BY DEF Recalculates
<1>3. /\ dt'[node][node] = vector
      /\ \A s \in Router \ {node} : dt'[node][s] = table[s]
      /\ \A x \in Router \ {node} : dt'[x] = dt[x]
  BY DEF Recalculates
<1>1. p \in RtPkt /\ p.sourceid = node /\ p.mincost = vector
  BY <1>2 DEF RtPkt
<1>4. \A d \in Router :
        net'[d] = IF sends /\ d \in neighbors[node] THEN Append(n[d], p) ELSE n[d]
  BY <1>2 DEF SendsOrNot
<1>5. \A s \in Router : s < started
  BY DvAssumption DEF Router
<1> HIDE DEF p
<1> SUFFICES ASSUME NEW r \in Router, NEW s \in neighbors[r]
             PROVE  Newest(net'[r], dt'[r][s], s, dt'[s][s])
  BY DEF NewestKnown, Vector
<1>6. s \in Router /\ s # r /\ n[r] \in Seq(RtPkt) /\ (s = node => r \in neighbors[s])
  BY Topology
<1>7. CASE r = node
  <2>1. net'[r] = n[r]
    BY <1>4, <1>7, Topology
  <2>2. dt'[r][s] = table[s] /\ dt'[s][s] = Vector(s)
    BY <1>0, <1>3, <1>6, <1>7 DEF Vector
  <2> QED BY <1>0, <2>1, <2>2, <1>7
<1>8. CASE r # node /\ s # node
  <2>1. dt'[r][s] = dt[r][s] /\ dt'[s][s] = Vector(s) /\ n[r] = net[r]
    BY <1>0, <1>3, <1>6, <1>8 DEF Vector
  <2>2. Newest(n[r], dt[r][s], s, Vector(s))
    BY <2>1, <1>5, <1>6 DEF NewestKnown
  <2>3. Newest(Append(n[r], p), dt[r][s], s, Vector(s))
    BY <2>2, <1>1, <1>6, <1>8, NewestOther
  <2> QED BY <2>1, <2>2, <2>3, <1>4
<1>9. CASE s = node
  <2>1. dt'[r][s] = dt[r][s] /\ dt'[s][s] = vector /\ n[r] = net[r]
    BY <1>0, <1>3, <1>6, <1>9
  <2>2. CASE sends
    <3>1. net'[r] = Append(n[r], p)
      BY <1>4, <1>6, <1>9, <2>2
    <3>2. Newest(Append(n[r], p), dt[r][s], p.sourceid, p.mincost)
      BY <1>1, <1>6, NewestSent
    <3> QED BY <3>1, <3>2, <2>1, <1>1, <1>9
  <2>3. CASE ~ sends
    <3>1. net'[r] = net[r] /\ vector = Vector(s)
      BY <1>0, <1>2, <1>4, <1>9, <2>1, <2>3
    <3>2. Newest(net[r], dt[r][s], s, Vector(s))
      BY <1>5, <1>6 DEF NewestKnown
    <3> QED BY <3>1, <3>2, <2>1
  <2> QED BY <2>2, <2>3
<1> QED BY <1>7, <1>8, <1>9

\* Packets come from neighbours only.
FromNeighbors(n) ==
  \A r \in Router : \A k \in DOMAIN n[r] : n[r][k].sourceid \in neighbors[r]

LEMMA SentToNeighbors ==
  ASSUME NEW node \in Router, NEW vector \in DistanceVector,
         NEW n \in [Router -> Seq(RtPkt)], FromNeighbors(n),
         NEW sends \in BOOLEAN, NEW m, SendsOrNot(n, m, node, vector, sends)
  PROVE  FromNeighbors(m)
<1> DEFINE p == [sourceid |-> node, mincost |-> vector]
<1>1. p \in RtPkt /\ p.sourceid = node
  BY DEF RtPkt
<1>2. \A d \in Router :
        m[d] = IF sends /\ d \in neighbors[node] THEN Append(n[d], p) ELSE n[d]
  BY DEF SendsOrNot
<1> HIDE DEF p
<1> SUFFICES ASSUME NEW r \in Router, NEW k \in DOMAIN m[r]
             PROVE  m[r][k].sourceid \in neighbors[r]
  BY DEF FromNeighbors
<1>3. CASE m[r] = n[r]
  BY <1>3 DEF FromNeighbors
<1>4. CASE m[r] = Append(n[r], p) /\ r \in neighbors[node]
  <2>1. node \in neighbors[r] /\ n[r] \in Seq(RtPkt)
    BY <1>4, Topology
  <2>2. k \in 1..(Len(n[r]) + 1)
    BY <1>1, <1>4, <2>1
  <2>3. CASE k = Len(n[r]) + 1
    BY <1>1, <1>4, <2>1, <2>3
  <2>4. CASE k \in DOMAIN n[r]
    <3>1. m[r][k] = n[r][k]
      BY <1>1, <1>4, <2>1, <2>4
    <3> QED BY <3>1, <2>4 DEF FromNeighbors
  <2> QED BY <2>1, <2>2, <2>3, <2>4
<1> QED BY <1>2, <1>3, <1>4

\* Whatever makes a router recalculate its vector keeps the invariant when
\* its table and its queue agree on what its neighbours sent.
LEMMA RecalculateStep ==
  ASSUME IInv, started = NODE_NUM, started' = started,
         handled' \in 0..(2 * Len(LinkCosts)),
         NEW node \in Router,
         NEW table \in [Router -> DistanceVector],
         NEW costs \in [neighbors[node] -> Nat],
         NEW n \in [Router -> Seq(RtPkt)],
         DOMAIN costs_to_neighbor' = Router,
         costs_to_neighbor'[node] = costs,
         \A x \in Router \ {node} : costs_to_neighbor'[x] = costs_to_neighbor[x],
         Agree(node, table, n),
         FromNeighbors(n),
         recalculate(node, table, costs, n)
  PROVE  IInv'
<1> DEFINE vector == Recalculated(node, table, costs)
<1>1. PICK sends \in BOOLEAN : Recalculates(node, table, n, vector, sends)
  BY RecalculateEffect DEF IInv
<1>2. /\ vector \in DistanceVector
      /\ dt' \in [Router -> [Router -> DistanceVector]]
      /\ SendsOrNot(n, net', node, vector, sends)
  BY <1>1 DEF Recalculates
<1>3. /\ dt \in [Router -> [Router -> DistanceVector]]
      /\ \A r \in Router : r < started
  BY AllStarted DEF IInv, TypeOK
<1>4. /\ dt'[node][node] = vector
      /\ \A s \in Router \ {node} : dt'[node][s] = table[s]
      /\ \A x \in Router \ {node} : dt'[x] = dt[x]
  BY <1>1 DEF Recalculates
<1>5. vector[node] = 0
  <2>1. vector[node] = table[node][node]
    BY DEF Recalculated
  <2> QED BY <2>1, <1>3 DEF IInv, OwnZero, Agree
<1>6. Recalculated(node, dt'[node], costs) = vector
  <2>1. dt'[node][node][node] = table[node][node]
    BY <1>4 DEF Recalculated
  <2>2. \A j \in neighbors[node] : dt'[node][j] = table[j]
    BY <1>4, Topology
  <2> QED BY <2>1, <2>2, RecalculatedDepends
<1> HIDE DEF vector
<1>7. TypeOK'
  <2>1. dt' \in [Router -> [Router -> DistanceVector]]
    BY <1>2
  <2>2. \A r \in Router : costs_to_neighbor'[r] \in [neighbors[r] -> Nat]
    BY DEF IInv, TypeOK
  <2>3. net' \in [Router -> Seq(RtPkt)]
    BY <1>2 DEF SendsOrNot
  <2>4. FromNeighbors(net')
    BY <1>2, SentToNeighbors
  <2>5. /\ started' \in 0..NODE_NUM
        /\ handled' > 0 => started' = NODE_NUM
    BY DEF IInv, TypeOK
  <2> QED BY <2>1, <2>2, <2>3, <2>4, <2>5 DEF TypeOK, FromNeighbors
<1>8. NewestKnown'
  <2>1. TypeOK /\ NewestKnown
    BY DEF IInv
  <2> QED BY <1>1, <2>1, NewestKept, Zenon
<1>9. FirstVectorsPending'
  <2>1. ~ (started' < NODE_NUM)
    BY DvAssumption
  <2> QED BY <2>1 DEF FirstVectorsPending
<1>10. OwnZero'
  BY <1>3, <1>4, <1>5 DEF OwnZero, Vector, IInv
<1>11. LocallyBest'
  <2>1. \A r \in Router \ {node} :
          \/ dt'[r] = InitialTable(r)
          \/ dt'[r][r] = Recalculated(r, dt'[r], costs_to_neighbor'[r])
    BY <1>3, <1>4 DEF IInv, LocallyBest, Vector
  <2>2. dt'[node][node] = Recalculated(node, dt'[node], costs_to_neighbor'[node])
    BY <1>4, <1>6
  <2> QED BY <2>1, <2>2 DEF LocallyBest, Vector
<1> QED BY <1>7, <1>8, <1>9, <1>10, <1>11 DEF IInv

LEMMA FromLayer2Step ==
  ASSUME IInv, NEW r \in Router, FromLayer2(r)
  PROVE  IInv'
<1> DEFINE p == Head(net[r])
           n == [net EXCEPT ![r] = Tail(@)]
           table == [dt[r] EXCEPT ![p.sourceid] = p.mincost]
<1>1. /\ started = NODE_NUM
      /\ UNCHANGED <<started, handled, costs_to_neighbor>>
      /\ recalculate(r, table, costs_to_neighbor[r], n)
      /\ net[r] # << >>
  BY DEF FromLayer2, Idle, rtupdate
<1>2. /\ dt \in [Router -> [Router -> DistanceVector]]
      /\ net \in [Router -> Seq(RtPkt)]
      /\ FromNeighbors(net)
      /\ DOMAIN costs_to_neighbor = Router
      /\ costs_to_neighbor[r] \in [neighbors[r] -> Nat]
      /\ handled \in 0..(2 * Len(LinkCosts))
      /\ NewestKnown
      /\ \A s \in Router : s < started
  BY <1>1, AllStarted DEF IInv, TypeOK, FromNeighbors
<1>3. /\ p \in RtPkt
      /\ p = net[r][1]
      /\ 1 \in DOMAIN net[r]
      /\ Tail(net[r]) \in Seq(RtPkt)
      /\ \A k \in DOMAIN Tail(net[r]) :
           k + 1 \in DOMAIN net[r] /\ Tail(net[r])[k] = net[r][k + 1]
  BY <1>1, <1>2
<1>4. p.sourceid \in neighbors[r] /\ p.mincost \in DistanceVector
  BY <1>2, <1>3 DEF FromNeighbors, RtPkt
<1>5. n \in [Router -> Seq(RtPkt)] /\ n[r] = Tail(net[r])
  BY <1>2, <1>3
<1>6. \A x \in Router \ {r} : n[x] = net[x]
  BY <1>2
<1>7. FromNeighbors(n)
  BY <1>2, <1>3, <1>5, <1>6 DEF FromNeighbors
<1>8. /\ table \in [Router -> DistanceVector]
      /\ table[r] = Vector(r)
  BY <1>2, <1>4, Topology DEF Vector
<1>9. \A s \in neighbors[r] :
        table[s] = IF p.sourceid = s THEN p.mincost ELSE dt[r][s]
  BY <1>2, <1>4, Topology
<1> HIDE DEF n, table, p
<1>10. ASSUME NEW s \in neighbors[r]
       PROVE  Newest(n[r], table[s], s, Vector(s))
  <2>1. Newest(net[r], dt[r][s], s, Vector(s))
    BY <1>2, Topology DEF NewestKnown
  <2>2. Newest(Tail(net[r]), IF p.sourceid = s THEN p.mincost ELSE dt[r][s],
               s, Vector(s))
    BY <2>1, <1>1, <1>2, NewestTaken DEF p
  <2> QED BY <2>2, <1>5, <1>9
<1>11. /\ handled' \in 0..(2 * Len(LinkCosts))
       /\ started' = started
       /\ DOMAIN costs_to_neighbor' = Router
       /\ costs_to_neighbor'[r] = costs_to_neighbor[r]
       /\ \A x \in Router \ {r} : costs_to_neighbor'[x] = costs_to_neighbor[x]
  BY <1>1, <1>2
<1>12. Agree(r, table, n)
  BY <1>6, <1>8, <1>10 DEF Agree
<1> QED BY <1>1, <1>2, <1>5, <1>7, <1>8, <1>11, <1>12, RecalculateStep

LEMMA LinkChangeStep ==
  ASSUME IInv, LinkChange
  PROVE  IInv'
<1> DEFINE h == handled % 2
           node == LinkEnds[1 + h]
           linkid == LinkEnds[2 - h]
           newcost == LinkCosts[1 + (handled \div 2)]
           costs == [costs_to_neighbor[node] EXCEPT ![linkid] = newcost]
<1>1. /\ dt \in [Router -> [Router -> DistanceVector]]
      /\ net \in [Router -> Seq(RtPkt)]
      /\ FromNeighbors(net)
      /\ DOMAIN costs_to_neighbor = Router
      /\ \A r \in Router : costs_to_neighbor[r] \in [neighbors[r] -> Nat]
      /\ handled \in 0..(2 * Len(LinkCosts))
      /\ handled > 0 => started = NODE_NUM
      /\ NewestKnown
      /\ NODE_NUM \in Nat
      /\ LinkCosts \in Seq(Nat) /\ Len(LinkCosts) \in Nat
      /\ handled \in Nat
  BY Sizes DEF IInv, TypeOK, FromNeighbors
<1>2. /\ handled < 2 * Len(LinkCosts)
      /\ handled' = handled + 1
      /\ started' = started
      /\ linkhandler(node, linkid, newcost, net)
  BY DEF LinkChange
<1>3. h \in {0, 1} /\ 1 + (handled \div 2) \in 1..Len(LinkCosts)
  <2>1. \A k, l \in Nat : k < 2 * l => /\ k % 2 \in {0, 1}
                                       /\ 1 + (k \div 2) \in 1..l
    OBVIOUS
  <2> QED BY <1>1, <1>2, <2>1
<1>4. started = NODE_NUM
  <2>1. handled % 2 = 1 => handled > 0
    <3>1. handled = 0 => handled % 2 = 0
      OBVIOUS
    <3> QED BY <1>1, <3>1
  <2> QED BY <1>1, <2>1 DEF LinkChange, Quiet, Idle
<1>5. node \in Router /\ linkid \in neighbors[node]
  <2>1. /\ LinkEnds[1] \in Router /\ LinkEnds[2] \in Router
        /\ LinkEnds[2] \in neighbors[LinkEnds[1]]
    BY DvAssumption
  <2>2. LinkEnds[1] \in neighbors[LinkEnds[2]]
    BY <2>1, Topology
  <2>3. h = 0 => node = LinkEnds[1] /\ linkid = LinkEnds[2]
    OBVIOUS
  <2>4. h = 1 => node = LinkEnds[2] /\ linkid = LinkEnds[1]
    OBVIOUS
  <2> QED BY <1>3, <2>1, <2>2, <2>3, <2>4
<1>6. newcost \in Nat
  BY <1>1, <1>3
<1>7. handled' \in 0..(2 * Len(LinkCosts))
  BY <1>1, <1>2
<1> HIDE DEF h, node, linkid, newcost
<1>8. costs \in [neighbors[node] -> Nat]
  BY <1>1, <1>5, <1>6
<1>9. /\ costs_to_neighbor' = [costs_to_neighbor EXCEPT ![node][linkid] = newcost]
      /\ recalculate(node, dt[node], costs_to_neighbor'[node], net)
  BY <1>2 DEF linkhandler
<1>10. /\ DOMAIN costs_to_neighbor' = Router
       /\ costs_to_neighbor'[node] = costs
       /\ \A x \in Router \ {node} :
            costs_to_neighbor'[x] = costs_to_neighbor[x]
  BY <1>1, <1>5, <1>9
<1>11. recalculate(node, dt[node], costs, net)
  BY <1>9, <1>10
<1> HIDE DEF costs
<1>12. dt[node] \in [Router -> DistanceVector] /\ dt[node][node] = Vector(node)
  BY <1>1, <1>5 DEF Vector
<1>13. \A s \in neighbors[node] : Newest(net[node], dt[node][s], s, Vector(s))
  BY <1>1, <1>4, <1>5, AllStarted, Topology DEF NewestKnown
<1>14. Agree(node, dt[node], net)
  BY <1>12, <1>13 DEF Agree
<1> QED BY <1>1, <1>2, <1>4, <1>5, <1>7, <1>8, <1>10, <1>11, <1>12, <1>14,
           RecalculateStep

LEMMA RtInitStep ==
  ASSUME IInv, RtInit
  PROVE  IInv'
<1> DEFINE node == started
           vector == costs_to_nodes_init[node]
           p == [sourceid |-> node, mincost |-> vector]
<1>1. /\ dt \in [Router -> [Router -> DistanceVector]]
      /\ net \in [Router -> Seq(RtPkt)]
      /\ FromNeighbors(net)
      /\ NewestKnown
      /\ handled = 0
      /\ handled \in 0..(2 * Len(LinkCosts))
      /\ started \in 0..(NODE_NUM - 1)
      /\ NODE_NUM \in Nat
      /\ Len(LinkCosts) \in Nat
  BY Sizes DEF IInv, TypeOK, FromNeighbors, RtInit
<1>2. node \in Router
  BY <1>1 DEF Router
<1>3. vector \in DistanceVector /\ vector[node] = 0
  BY <1>2, DvAssumption
<1>4. /\ dt' = [dt EXCEPT ![node] = InitialTable(node)]
      /\ net' \in send_dt_to_neighbors(net, node, vector)
      /\ started' = started + 1
      /\ UNCHANGED <<costs_to_neighbor, handled>>
  BY DEF RtInit, rtinit
<1>5. InitialTable(node) \in [Router -> DistanceVector]
  BY <1>2, <1>3, DvAssumption DEF InitialTable, DistanceVector
<1>6. /\ dt' \in [Router -> [Router -> DistanceVector]]
      /\ dt'[node] = InitialTable(node)
      /\ dt'[node][node] = vector
      /\ \A x \in Router \ {node} : dt'[x] = dt[x]
  <2>1. InitialTable(node)[node] = vector
    BY <1>2 DEF InitialTable
  <2> HIDE DEF vector, node
  <2> QED BY <1>1, <1>2, <1>4, <1>5, <2>1
<1> HIDE DEF vector
<1>7. SendsOrNot(net, net', node, vector, TRUE)
  BY <1>1, <1>2, <1>3, <1>4, SendDt, Zenon
<1>8. /\ p \in RtPkt
      /\ p.sourceid = node
      /\ p.mincost = vector
  BY <1>2, <1>3 DEF RtPkt
<1>9. /\ net' \in [Router -> Seq(RtPkt)]
      /\ \A d \in Router :
           net'[d] = IF d \in neighbors[node] THEN Append(net[d], p) ELSE net[d]
  BY <1>7 DEF SendsOrNot
<1> HIDE DEF p
<1>10. TypeOK'
  <2>1. FromNeighbors(net')
    BY <1>1, <1>2, <1>3, <1>7, SentToNeighbors
  <2>2. /\ started' \in 0..NODE_NUM
        /\ handled' \in 0..(2 * Len(LinkCosts))
        /\ handled' > 0 => started' = NODE_NUM
    BY <1>1, <1>4
  <2>3. /\ DOMAIN costs_to_neighbor' = Router
        /\ \A r \in Router : costs_to_neighbor'[r] \in [neighbors[r] -> Nat]
    BY <1>4 DEF IInv, TypeOK
  <2> QED BY <1>6, <1>9, <2>1, <2>2, <2>3 DEF TypeOK, FromNeighbors
<1>11. \A s \in Router : s < started' => s < started \/ s = node
  BY <1>1, <1>4 DEF Router
<1>12. NewestKnown'
  <2> SUFFICES ASSUME NEW r \in Router, NEW s \in neighbors[r], s < started'
               PROVE  Newest(net'[r], dt'[r][s], s, dt'[s][s])
    BY DEF NewestKnown, Vector
  <2>1. /\ s \in Router /\ s # r /\ r \in neighbors[s]
        /\ net[r] \in Seq(RtPkt)
        /\ r \notin neighbors[r]
    BY <1>1, Topology
  <2>2. CASE s = node
    <3>1. net'[r] = Append(net[r], p)
      BY <1>9, <2>1, <2>2
    <3>2. Newest(Append(net[r], p), dt'[r][s], p.sourceid, p.mincost)
      BY <1>8, <2>1, NewestSent
    <3> QED BY <3>1, <3>2, <1>6, <1>8, <2>2
  <2>3. CASE s # node /\ r = node
    <3>1. net'[r] = net[r] /\ dt'[s][s] = Vector(s) /\ s < started
      BY <1>6, <1>9, <1>11, <2>1, <2>3 DEF Vector
    <3>2. Newest(net[r], dt[r][s], s, Vector(s))
      BY <3>1, <1>1 DEF NewestKnown
    <3>3. \E k \in DOMAIN net[r] : net[r][k].sourceid = s
      BY <3>1, <1>1 DEF IInv, FirstVectorsPending
    <3> QED BY <3>1, <3>2, <3>3 DEF Newest
  <2>4. CASE s # node /\ r # node
    <3>1. dt'[r][s] = dt[r][s] /\ dt'[s][s] = Vector(s) /\ s < started
      BY <1>6, <1>11, <2>1, <2>4 DEF Vector
    <3>2. Newest(net[r], dt[r][s], s, Vector(s))
      BY <3>1, <1>1 DEF NewestKnown
    <3>3. Newest(Append(net[r], p), dt[r][s], s, Vector(s))
      BY <3>2, <1>8, <2>1, <2>4, NewestOther
    <3> QED BY <3>1, <3>2, <3>3, <1>9
  <2> QED BY <2>2, <2>3, <2>4
<1>13. FirstVectorsPending'
  <2> SUFFICES ASSUME NEW r \in Router, NEW s \in neighbors[r], s < started'
               PROVE  \E k \in DOMAIN net'[r] : net'[r][k].sourceid = s
    BY DEF FirstVectorsPending
  <2>1. s \in Router /\ r \in neighbors[s] /\ net[r] \in Seq(RtPkt)
    BY <1>1, Topology
  <2>2. CASE s = node
    <3>1. net'[r] = Append(net[r], p)
      BY <1>9, <2>1, <2>2
    <3>2. /\ Len(net[r]) + 1 \in DOMAIN net'[r]
          /\ net'[r][Len(net[r]) + 1] = p
      BY <3>1, <1>8, <2>1
    <3> QED BY <3>2, <1>8, <2>2
  <2>3. CASE s # node
    <3>1. PICK k \in DOMAIN net[r] : net[r][k].sourceid = s
      BY <1>1, <1>11, <2>1, <2>3 DEF IInv, FirstVectorsPending
    <3>2. k \in DOMAIN Append(net[r], p) /\ Append(net[r], p)[k] = net[r][k]
      BY <1>8, <2>1
    <3> QED BY <3>1, <3>2, <1>9
  <2> QED BY <2>2, <2>3
<1>14. OwnZero'
  <2> SUFFICES ASSUME NEW r \in Router, r < started' PROVE dt'[r][r][r] = 0
    BY DEF OwnZero, Vector
  <2>1. CASE r = node
    BY <1>3, <1>6, <2>1
  <2>2. CASE r # node
    BY <1>6, <1>11, <2>2 DEF IInv, OwnZero, Vector
  <2> QED BY <2>1, <2>2
<1>15. LocallyBest'
  <2> SUFFICES ASSUME NEW r \in Router, r < started'
               PROVE  \/ dt'[r] = InitialTable(r)
                      \/ dt'[r][r] = Recalculated(r, dt'[r], costs_to_neighbor'[r])
    BY DEF LocallyBest, Vector
  <2>1. CASE r = node
    BY <1>6, <2>1
  <2>2. CASE r # node
    <3>1. dt'[r] = dt[r] /\ costs_to_neighbor'[r] = costs_to_neighbor[r]
          /\ r < started
      BY <1>4, <1>6, <1>11, <2>2
    <3> QED BY <3>1 DEF IInv, LocallyBest, Vector
  <2> QED BY <2>1, <2>2
<1> QED BY <1>10, <1>12, <1>13, <1>14, <1>15 DEF IInv

LEMMA StutterStep ==
  ASSUME IInv, UNCHANGED vars
  PROVE  IInv'
<1>1. TypeOK'
  BY DEF vars, IInv, TypeOK
<1>2. NewestKnown' /\ FirstVectorsPending'
  BY DEF vars, IInv, NewestKnown, FirstVectorsPending, Vector
<1>3. OwnZero' /\ LocallyBest'
  BY DEF vars, IInv, OwnZero, LocallyBest, Vector
<1> QED BY <1>1, <1>2, <1>3 DEF IInv

THEOREM Invariance == Spec => []IInv
<1>1. IInv /\ [Next]_vars => IInv'
  BY RtInitStep, FromLayer2Step, LinkChangeStep, StutterStep DEF Next
<1> QED BY <1>1, InitIInv, PTL DEF Spec

-----------------------------------------------------------------------------
\* Tables, costs and packets of the distance-vector program have the shape
\* they should have, and packets are on their way between neighbours only:
\* tolayer2 (dv.c:105-120) never ignores one.
THEOREM TypeCorrect == Spec => []TypeOK
  BY Invariance, PTL DEF IInv

\* Whatever the network, the interleaving and the changes of the link, the
\* packet of a router that arrives last at a neighbour carries its vector of
\* now (rtupdate and linkhandler, node.c:137-165).
THEOREM NewestArrives == Spec => []NewestArrivesLast
<1>1. IInv => NewestArrivesLast
  BY NewestIsKnown DEF IInv
<1> QED BY <1>1, Invariance, PTL

\* A router that has heard of anyone has the best vector its table allows
\* (recalculate, node.c:75-117).
THEOREM AlwaysLocallyBest == Spec => []LocallyBest
  BY Invariance, PTL DEF IInv

LEMMA QuietLemma == IInv => QuietMeansBellmanFord
<1> SUFFICES ASSUME IInv, Quiet, NEW r \in Router, NEW i \in Router
             PROVE  Vector(r)[i] =
                      IF i = r THEN 0
                      ELSE Least({costs_to_neighbor[r][j] + Vector(j)[i] :
                                    j \in neighbors[r]})
  BY DEF QuietMeansBellmanFord
<1>1. /\ started = NODE_NUM
      /\ \A s \in Router : net[s] = << >>
  BY DEF Quiet, Idle
<1>2. \A s \in Router : s < started
  BY <1>1, AllStarted
<1>3. ASSUME NEW s \in neighbors[r]
      PROVE  s \in Router /\ dt[r][s] = Vector(s)
  <2>1. s \in Router
    BY Topology
  <2>2. Newest(net[r], dt[r][s], s, Vector(s))
    BY <1>2, <2>1 DEF IInv, NewestKnown
  <2>3. DOMAIN net[r] = {}
    BY <1>1
  <2> QED BY <2>1, <2>2, <2>3 DEF Newest
<1>4. dt[r] # InitialTable(r)
  <2>1. PICK s \in neighbors[r] : TRUE
    BY Topology
  <2>2. dt[r][s][s] = 0 /\ s # r /\ s \in Router
    BY <1>2, <1>3, <2>1, Topology DEF IInv, OwnZero
  <2>3. InitialTable(r)[s][s] = INFINITY
    BY <2>2 DEF InitialTable
  <2>4. INFINITY # 0
    BY DvAssumption
  <2> QED BY <2>2, <2>3, <2>4
<1>5. Vector(r) = Recalculated(r, dt[r], costs_to_neighbor[r])
  BY <1>2, <1>4 DEF IInv, LocallyBest
<1>6. CASE i = r
  BY <1>2, <1>6 DEF IInv, OwnZero
<1>7. CASE i # r
  <2>1. Vector(r)[i] = Least({costs_to_neighbor[r][j] + dt[r][j][i] :
                                j \in neighbors[r]})
    BY <1>5, <1>7 DEF Recalculated
  <2>2. {costs_to_neighbor[r][j] + dt[r][j][i] : j \in neighbors[r]} =
        {costs_to_neighbor[r][j] + Vector(j)[i] : j \in neighbors[r]}
    BY <1>3
  <2> QED BY <2>1, <2>2, <1>7
<1> QED BY <1>6, <1>7

\* When no packet is left, the vectors of any network solve the Bellman-Ford
\* equations for the costs of now, also after the link 0-1 became dearer and
\* the old costs had to be counted up.
THEOREM QuietIsBellmanFord == Spec => []QuietMeansBellmanFord
  BY QuietLemma, Invariance, PTL

-----------------------------------------------------------------------------
\* The lengths of the beginnings of a way whose k-th router is d[k] away from
\* the one before it.
Sums(n, d, s) ==
  s = [k \in 1..n |-> IF k = 1 THEN 0 ELSE s[k - 1] + d[k]]

LEMMA SumsExist ==
  ASSUME NEW n \in Nat, NEW d
  PROVE  \E s : Sums(n, d, s)
<1> DEFINE Without == {m \in Nat : ~ \E s : Sums(m, d, s)}
<1> SUFFICES ASSUME Without # {} PROVE FALSE
  OBVIOUS
<1> DEFINE m == Least(Without)
<1>1. m \in Without /\ \A l \in Without : m <= l
  BY LeastIsLeast
<1> HIDE DEF m
<1>2. CASE m = 0
  <2> DEFINE s == [k \in 1..0 |-> 0]
  <2>1. s = [k \in 1..0 |-> IF k = 1 THEN 0 ELSE s[k - 1] + d[k]]
    OBVIOUS
  <2>2. Sums(m, d, s)
    BY <1>2, <2>1 DEF Sums
  <2> QED BY <1>1, <2>2
<1>3. CASE m # 0
  <2>1. m - 1 \in Nat /\ m - 1 \notin Without
    BY <1>1, <1>3
  <2>2. PICK s : Sums(m - 1, d, s)
    BY <2>1
  <2> DEFINE t == [k \in 1..m |-> IF k < m THEN s[k]
                                  ELSE IF m = 1 THEN 0 ELSE s[m - 1] + d[m]]
  <2>3. ASSUME NEW k \in 1..m
        PROVE  t[k] = IF k = 1 THEN 0 ELSE t[k - 1] + d[k]
    <3>1. CASE k < m
      <4>1. k \in 1..(m - 1) /\ (k # 1 => k - 1 \in 1..m /\ k - 1 < m)
        BY <1>1, <3>1
      <4>2. s[k] = IF k = 1 THEN 0 ELSE s[k - 1] + d[k]
        BY <2>2, <4>1 DEF Sums
      <4> QED BY <4>1, <4>2, <3>1
    <3>2. CASE k = m
      BY <1>1, <1>3, <3>2
    <3> QED BY <1>1, <3>1, <3>2
  <2>4. t = [k \in 1..m |-> IF k = 1 THEN 0 ELSE t[k - 1] + d[k]]
    <3>1. \A k \in 1..m : t[k] = IF k = 1 THEN 0 ELSE t[k - 1] + d[k]
      BY <2>3
    <3>2. DOMAIN t = 1..m /\ t = [k \in 1..m |-> t[k]]
      OBVIOUS
    <3> HIDE DEF t
    <3> QED BY <3>1, <3>2
  <2> HIDE DEF t
  <2>5. Sums(m, d, t)
    BY <2>4 DEF Sums
  <2> QED BY <1>1, <2>5
<1> QED BY <1>2, <1>3

\* Every link has a cost.
Costs(costs) ==
  \A r \in Router : \A j \in neighbors[r] : costs[r][j] \in Nat

LEMMA RouteFacts ==
  ASSUME NEW r, NEW i, NEW p \in Routes(r, i)
  PROVE  /\ Len(p) \in 1..NODE_NUM
         /\ Len(p) \in Nat
         /\ p \in [1..Len(p) -> Router]
         /\ DOMAIN p = 1..Len(p)
         /\ p[1] = r /\ p[Len(p)] = i
         /\ \A k \in 1..(Len(p) - 1) : p[k + 1] \in neighbors[p[k]]
         /\ \A k, m \in 1..Len(p) : p[k] = p[m] => k = m
<1>1. PICK n \in 1..NODE_NUM : p \in [1..n -> Router]
  BY DEF Routes
<1>2. n \in Nat
  BY DvAssumption
<1>3. p \in Seq(Router) /\ Len(p) = n
  BY <1>1, <1>2
<1> QED BY <1>1, <1>2, <1>3 DEF Routes

LEMMA RouteIntro ==
  ASSUME NEW n \in Nat \ {0}, NEW p \in [1..n -> Router],
         \A k \in 1..(n - 1) : p[k + 1] \in neighbors[p[k]],
         \A k, m \in 1..n : p[k] = p[m] => k = m
  PROVE  p \in Routes(p[1], p[n]) /\ Len(p) = n
<1>1. n \in 1..NODE_NUM
  <2> SUFFICES ASSUME n > NODE_NUM PROVE FALSE
    BY DvAssumption
  <2>1. /\ IsFiniteSet(1..n) /\ Cardinality(1..n) = n
        /\ IsFiniteSet(Router) /\ Cardinality(Router) = NODE_NUM
    <3>1. IsFiniteSet(1..n) /\ Cardinality(1..n) = n
      BY FS_Interval
    <3>2. NODE_NUM \in Nat
      BY DvAssumption
    <3>3. /\ IsFiniteSet(0..(NODE_NUM - 1))
          /\ Cardinality(0..(NODE_NUM - 1)) =
               IF 0 > NODE_NUM - 1 THEN 0 ELSE (NODE_NUM - 1) - 0 + 1
      BY <3>2, FS_Interval
    <3> QED BY <3>1, <3>2, <3>3 DEF Router
  <2>2. \E x, y \in 1..n : x # y /\ p[x] = p[y]
    BY <2>1, FS_PigeonHole
  <2> QED BY <2>2
<1>2. p \in Seq(Router) /\ Len(p) = n
  OBVIOUS
<1> QED BY <1>1, <1>2 DEF Routes

\* The length of a way is that of its last router, s[k] the length of the
\* way to its k-th.
Lengths(costs, p, s) ==
  /\ s \in [1..Len(p) -> Nat]
  /\ s[1] = 0
  /\ \A k \in 1..(Len(p) - 1) : s[k + 1] = s[k] + costs[p[k]][p[k + 1]]
  /\ RouteLength(costs, p) = s[Len(p)]

LEMMA LengthsExist ==
  ASSUME NEW costs, Costs(costs), NEW r, NEW i, NEW p \in Routes(r, i)
  PROVE  \E s : Lengths(costs, p, s)
<1> DEFINE n == Len(p)
<1>1. /\ n \in Nat \ {0}
      /\ p \in [1..n -> Router]
      /\ \A k \in 1..(n - 1) : p[k + 1] \in neighbors[p[k]]
  BY RouteFacts
<1> DEFINE d == [k \in 1..n |-> costs[p[k - 1]][p[k]]]
           Def(s) == s = [k \in 1..Len(p) |->
                           IF k = 1 THEN 0 ELSE s[k - 1] + costs[p[k - 1]][p[k]]]
           sum == CHOOSE s : Def(s)
<1>2. \E s : Def(s)
  <2>1. PICK s : Sums(n, d, s)
    BY <1>1, SumsExist
  <2>2. Def(s)
    BY <2>1 DEF Sums
  <2> QED BY <2>2
<1>3. Def(sum)
  <2> HIDE DEF Def
  <2> QED BY <1>2
<1>4. RouteLength(costs, p) = sum[n]
  BY DEF RouteLength
<1> HIDE DEF sum
<1>5. /\ sum = [k \in 1..n |-> sum[k]]
      /\ \A k \in 1..n :
           sum[k] = IF k = 1 THEN 0 ELSE sum[k - 1] + costs[p[k - 1]][p[k]]
  BY <1>3
<1> HIDE DEF n
<1>6. \A k \in 1..(n - 1) : sum[k + 1] = sum[k] + costs[p[k]][p[k + 1]]
  <2> TAKE k \in 1..(n - 1)
  <2>1. k + 1 \in 1..n /\ k + 1 # 1 /\ (k + 1) - 1 = k
    BY <1>1
  <2> QED BY <2>1, <1>5
<1>7. sum[1] = 0
  <2>1. 1 \in 1..n
    BY <1>1
  <2> QED BY <2>1, <1>5
<1>8. \A k \in 1..n : sum[k] \in Nat
  <2> DEFINE Bad == {k \in 1..n : sum[k] \notin Nat}
  <2> SUFFICES ASSUME Bad # {} PROVE FALSE
    OBVIOUS
  <2> DEFINE m == Least(Bad)
  <2>1. Bad \subseteq Nat
    BY <1>1
  <2>2. m \in Bad /\ \A l \in Bad : m <= l
    BY <2>1, LeastIsLeast
  <2> HIDE DEF m
  <2>3. m # 1 /\ m \in 1..n
    BY <2>2, <1>7
  <2>4. m - 1 \in 1..(n - 1) /\ (m - 1) + 1 = m /\ m - 1 \in 1..n
    BY <2>3, <1>1
  <2>5. sum[m - 1] \in Nat
    BY <2>2, <2>3, <2>4
  <2>6. costs[p[m - 1]][p[m]] \in Nat
    <3>1. p[m - 1] \in Router /\ p[m] \in neighbors[p[m - 1]]
      BY <2>4, <1>1
    <3> QED BY <3>1 DEF Costs
  <2>7. sum[m] = sum[m - 1] + costs[p[m - 1]][p[m]]
    BY <2>4, <1>6
  <2> QED BY <2>2, <2>5, <2>6, <2>7
<1>9. sum \in [1..n -> Nat]
  BY <1>5, <1>8
<1>10. Lengths(costs, p, sum)
  BY <1>4, <1>6, <1>7, <1>9 DEF Lengths, n
<1> QED BY <1>10

\* The rest of a way from its (a+1)-th router on is as long as the way less
\* what is before that router.
LEMMA LengthOfRest ==
  ASSUME NEW costs, Costs(costs), NEW r, NEW i, NEW p \in Routes(r, i),
         NEW x, NEW y, NEW q \in Routes(x, y),
         NEW a \in Nat, Len(p) = Len(q) + a,
         \A k \in 1..Len(q) : q[k] = p[k + a],
         NEW s, Lengths(costs, p, s),
         NEW t, Lengths(costs, q, t)
  PROVE  RouteLength(costs, p) = s[a + 1] + RouteLength(costs, q)
<1> DEFINE n == Len(q)
<1>1. /\ n \in Nat \ {0}
      /\ \A k \in 1..n : q[k] \in Router
      /\ \A k \in 1..(n - 1) : q[k + 1] \in neighbors[q[k]]
  BY RouteFacts
<1>2. /\ t \in [1..n -> Nat] /\ t[1] = 0
      /\ \A k \in 1..(n - 1) : t[k + 1] = t[k] + costs[q[k]][q[k + 1]]
      /\ RouteLength(costs, q) = t[n]
  BY DEF Lengths
<1>3. /\ s \in [1..(n + a) -> Nat]
      /\ \A k \in 1..(n + a - 1) : s[k + 1] = s[k] + costs[p[k]][p[k + 1]]
      /\ RouteLength(costs, p) = s[n + a]
  BY DEF Lengths
<1>4. \A k \in 1..n : q[k] = p[k + a]
  OBVIOUS
<1> HIDE DEF n
<1>5. \A k \in 1..n : s[k + a] = s[a + 1] + t[k]
  <2> DEFINE Bad == {k \in 1..n : s[k + a] # s[a + 1] + t[k]}
  <2> SUFFICES ASSUME Bad # {} PROVE FALSE
    OBVIOUS
  <2> DEFINE m == Least(Bad)
  <2>1. Bad \subseteq Nat
    BY <1>1
  <2>2. m \in Bad /\ \A l \in Bad : m <= l
    BY <2>1, LeastIsLeast
  <2> HIDE DEF m
  <2>3. s[a + 1] \in Nat
    BY <1>1, <1>3
  <2>4. m # 1 /\ m \in 1..n
    BY <2>2, <2>3, <1>2
  <2> DEFINE l == m - 1
  <2>5. /\ l \in 1..(n - 1) /\ l + 1 = m /\ l \in 1..n
        /\ l + a \in 1..(n + a - 1) /\ (l + a) + 1 = m + a
        /\ l + a \in 1..(n + a)
    BY <2>4, <1>1
  <2> HIDE DEF l
  <2>6. s[l + a] = s[a + 1] + t[l]
    BY <2>2, <2>5
  <2>7. t[m] = t[l] + costs[q[l]][q[m]]
    BY <2>5, <1>2
  <2>8. s[m + a] = s[l + a] + costs[p[l + a]][p[m + a]]
    BY <2>5, <1>3
  <2>9. q[l] = p[l + a] /\ q[m] = p[m + a]
    BY <2>4, <2>5, <1>4
  <2> DEFINE c == costs[q[l]][q[m]]
  <2>10. c \in Nat
    <3>1. q[l] \in Router /\ q[m] \in neighbors[q[l]]
      BY <2>5, <1>1
    <3> QED BY <3>1 DEF Costs
  <2> HIDE DEF c
  <2>11. t[l] \in Nat /\ t[m] = t[l] + c
    BY <2>5, <2>7, <1>2 DEF c
  <2>12. s[m + a] = (s[a + 1] + t[l]) + c
    BY <2>6, <2>8, <2>9 DEF c
  <2> QED BY <2>2, <2>3, <2>10, <2>11, <2>12
<1> QED BY <1>1, <1>2, <1>3, <1>5

Rest(p, a) == [k \in 1..(Len(p) - a) |-> p[k + a]]

\* From any of its routers on, a way is a way, and no longer.
LEMMA RestIsRoute ==
  ASSUME NEW costs, Costs(costs), NEW r, NEW i, NEW p \in Routes(r, i),
         NEW a \in Nat, a < Len(p)
  PROVE  /\ Rest(p, a) \in Routes(p[a + 1], i)
         /\ RouteLength(costs, Rest(p, a)) \in Nat
         /\ RouteLength(costs, p) \in Nat
         /\ RouteLength(costs, Rest(p, a)) <= RouteLength(costs, p)
         /\ Len(Rest(p, a)) = Len(p) - a
<1> DEFINE q == Rest(p, a)
           n == Len(p) - a
<1>1. /\ Len(p) \in Nat
      /\ p \in [1..Len(p) -> Router]
      /\ p[Len(p)] = i
      /\ \A k \in 1..(Len(p) - 1) : p[k + 1] \in neighbors[p[k]]
      /\ \A k, m \in 1..Len(p) : p[k] = p[m] => k = m
  BY RouteFacts
<1>2. n \in Nat \ {0} /\ Len(p) = n + a
  <2>1. \A l, b \in Nat : b < l => l - b \in Nat \ {0} /\ l = (l - b) + b
    OBVIOUS
  <2> QED BY <2>1, <1>1
<1>3. \A k \in 1..n : k + a \in 1..Len(p) /\ q[k] = p[k + a]
  BY <1>1 DEF Rest
<1>4. q \in [1..n -> Router]
  BY <1>1, <1>3 DEF Rest
<1> HIDE DEF q, n
<1>5. \A k \in 1..(n - 1) : q[k + 1] \in neighbors[q[k]]
  <2> TAKE k \in 1..(n - 1)
  <2>1. /\ k \in 1..n /\ k + 1 \in 1..n
        /\ k + a \in 1..(Len(p) - 1) /\ (k + a) + 1 = (k + 1) + a
    BY <1>1, <1>2
  <2> QED BY <2>1, <1>1, <1>3
<1>6. \A k, m \in 1..n : q[k] = q[m] => k = m
  BY <1>1, <1>2, <1>3
<1>7. q \in Routes(q[1], q[n]) /\ Len(q) = n
  BY <1>2, <1>4, <1>5, <1>6, RouteIntro
<1>8. q[1] = p[a + 1] /\ q[n] = i
  <2>1. 1 \in 1..n /\ n \in 1..n /\ 1 + a = a + 1
    BY <1>2
  <2> QED BY <2>1, <1>1, <1>2, <1>3
<1>9. q \in Routes(p[a + 1], i)
  BY <1>7, <1>8
<1>10. PICK s : Lengths(costs, p, s)
  BY LengthsExist
<1>11. PICK t : Lengths(costs, q, t)
  BY <1>9, LengthsExist
<1>12. RouteLength(costs, p) = s[a + 1] + RouteLength(costs, q)
  BY <1>2, <1>3, <1>7, <1>9, <1>10, <1>11, LengthOfRest
<1>13. s[a + 1] \in Nat
  <2>1. a + 1 \in 1..Len(p)
    BY <1>1
  <2> QED BY <2>1, <1>10 DEF Lengths
<1>14. RouteLength(costs, q) \in Nat
  BY <1>2, <1>7, <1>11 DEF Lengths
<1>15. /\ RouteLength(costs, p) \in Nat
       /\ RouteLength(costs, q) <= RouteLength(costs, p)
  BY <1>12, <1>13, <1>14
<1> QED BY <1>7, <1>9, <1>14, <1>15 DEF q, n

LEMMA LengthType ==
  ASSUME NEW costs, Costs(costs), NEW r, NEW i, NEW p \in Routes(r, i)
  PROVE  RouteLength(costs, p) \in Nat
<1>1. 0 \in Nat /\ 0 < Len(p)
  BY RouteFacts
<1> QED BY <1>1, RestIsRoute

\* A way to another router is a link and a way from its other end.
LEMMA FirstLink ==
  ASSUME NEW costs, Costs(costs), NEW r, NEW i, NEW p \in Routes(r, i), r # i
  PROVE  /\ p[2] \in neighbors[r]
         /\ Rest(p, 1) \in Routes(p[2], i)
         /\ Len(Rest(p, 1)) = Len(p) - 1
         /\ RouteLength(costs, Rest(p, 1)) \in Nat
         /\ RouteLength(costs, p) =
              costs[r][p[2]] + RouteLength(costs, Rest(p, 1))
<1>1. /\ Len(p) \in Nat \ {0, 1} /\ p[1] = r
      /\ p \in [1..Len(p) -> Router]
      /\ \A k \in 1..(Len(p) - 1) : p[k + 1] \in neighbors[p[k]]
  BY RouteFacts
<1>2. p[2] \in neighbors[r] /\ r \in Router
  <2>1. 1 \in 1..(Len(p) - 1) /\ 1 + 1 = 2 /\ 1 \in 1..Len(p)
    BY <1>1
  <2> QED BY <2>1, <1>1
<1> DEFINE q == Rest(p, 1)
<1>3. /\ q \in Routes(p[2], i)
      /\ RouteLength(costs, q) \in Nat
      /\ Len(q) = Len(p) - 1
  <2>1. 1 \in Nat /\ 1 < Len(p) /\ 1 + 1 = 2
    BY <1>1
  <2> QED BY <2>1, RestIsRoute
<1>4. \A k \in 1..Len(q) : q[k] = p[k + 1]
  BY <1>3 DEF Rest
<1> HIDE DEF q
<1>5. PICK s : Lengths(costs, p, s)
  BY LengthsExist
<1>6. PICK t : Lengths(costs, q, t)
  BY <1>3, LengthsExist
<1>7. RouteLength(costs, p) = s[2] + RouteLength(costs, q)
  <2>1. Len(p) = Len(q) + 1 /\ 1 + 1 = 2 /\ 1 \in Nat
    BY <1>1, <1>3
  <2>2. RouteLength(costs, p) = s[1 + 1] + RouteLength(costs, q)
    BY <2>1, <1>3, <1>4, <1>5, <1>6, LengthOfRest
  <2> QED BY <2>1, <2>2
<1>8. s[2] = costs[r][p[2]]
  <2>1. 1 \in 1..(Len(p) - 1) /\ 1 + 1 = 2
    BY <1>1
  <2>2. s[2] = s[1] + costs[p[1]][p[2]] /\ s[1] = 0
    BY <2>1, <1>5 DEF Lengths
  <2>3. costs[r][p[2]] \in Nat
    BY <1>2 DEF Costs
  <2> QED BY <2>2, <2>3, <1>1
<1> QED BY <1>2, <1>3, <1>7, <1>8 DEF q

\* Before a way that does not pass r a link from r may be put.
LEMMA LinkBefore ==
  ASSUME NEW costs, Costs(costs), NEW r \in Router, NEW i, NEW j \in neighbors[r],
         NEW q \in Routes(j, i), \A k \in 1..Len(q) : q[k] # r
  PROVE  \E p \in Routes(r, i) :
           RouteLength(costs, p) = costs[r][j] + RouteLength(costs, q)
<1> DEFINE n == Len(q) + 1
           p == [k \in 1..n |-> IF k = 1 THEN r ELSE q[k - 1]]
<1>1. /\ Len(q) \in Nat \ {0}
      /\ q \in [1..Len(q) -> Router]
      /\ q[1] = j /\ q[Len(q)] = i
      /\ \A k \in 1..(Len(q) - 1) : q[k + 1] \in neighbors[q[k]]
      /\ \A k, m \in 1..Len(q) : q[k] = q[m] => k = m
  BY RouteFacts
<1>2. /\ n \in Nat \ {0, 1}
      /\ n - 1 = Len(q)
      /\ \A k \in 2..n : k - 1 \in 1..Len(q)
      /\ \A k \in 1..n : k = 1 \/ k \in 2..n
  BY <1>1
<1>3. p \in [1..n -> Router]
  BY <1>1, <1>2
<1>4. p[1] = r /\ \A k \in 2..n : k \in 1..n /\ p[k] = q[k - 1]
  BY <1>2
<1> HIDE DEF n, p
<1>5. \A k \in 1..(n - 1) : p[k + 1] \in neighbors[p[k]]
  <2> TAKE k \in 1..(n - 1)
  <2>1. k + 1 \in 2..n /\ (k + 1) - 1 = k /\ p[k + 1] = q[k]
    BY <1>2, <1>4
  <2>2. CASE k = 1
    BY <1>1, <1>4, <2>1, <2>2
  <2>3. CASE k # 1
    <3>1. k \in 2..n /\ k - 1 \in 1..(Len(q) - 1) /\ (k - 1) + 1 = k
      BY <1>1, <1>2, <2>3
    <3> QED BY <1>1, <1>4, <2>1, <3>1
  <2> QED BY <2>2, <2>3
<1>6. ASSUME NEW k \in 1..n, NEW m \in 1..n, p[k] = p[m] PROVE k = m
  <2>1. CASE k = 1 /\ m \in 2..n
    BY <1>2, <1>4, <1>6, <2>1
  <2>2. CASE m = 1 /\ k \in 2..n
    BY <1>2, <1>4, <1>6, <2>2
  <2>3. CASE k \in 2..n /\ m \in 2..n
    <3>1. k - 1 = m - 1
      BY <1>1, <1>2, <1>4, <1>6, <2>3
    <3> QED BY <3>1, <2>3, <1>2
  <2> QED BY <2>1, <2>2, <2>3, <1>2
<1>7. p \in Routes(p[1], p[n]) /\ Len(p) = n
  BY <1>2, <1>3, <1>5, <1>6, RouteIntro
<1>8. p[1] = r /\ p[n] = i /\ p[2] = j
  <2>1. n \in 2..n /\ 2 \in 2..n /\ 2 - 1 = 1
    BY <1>2
  <2> QED BY <2>1, <1>1, <1>2, <1>4
<1>9. p \in Routes(r, i)
  BY <1>7, <1>8
<1>10. r # i
  <2>1. Len(q) \in 1..Len(q)
    BY <1>1
  <2> QED BY <2>1, <1>1
<1>11. Rest(p, 1) = q
  <2>1. Len(p) - 1 = Len(q)
    BY <1>2, <1>7
  <2>2. \A k \in 1..Len(q) : p[k + 1] = q[k]
    <3> TAKE k \in 1..Len(q)
    <3>1. k + 1 \in 2..n /\ (k + 1) - 1 = k
      BY <1>1, <1>2
    <3> QED BY <3>1, <1>4
  <2>3. Rest(p, 1) = [k \in 1..Len(q) |-> p[k + 1]]
    BY <2>1 DEF Rest
  <2>4. Rest(p, 1) = [k \in 1..Len(q) |-> q[k]]
    BY <2>2, <2>3
  <2> QED BY <2>4, <1>1
<1> QED BY <1>8, <1>9, <1>10, <1>11, FirstLink

LEMMA ShortestIsLeast ==
  ASSUME NEW costs, Costs(costs), Connected, NEW r \in Router, NEW i \in Router
  PROVE  /\ Shortest(costs, r, i) \in Nat
         /\ \E p \in Routes(r, i) : Shortest(costs, r, i) = RouteLength(costs, p)
         /\ \A p \in Routes(r, i) : Shortest(costs, r, i) <= RouteLength(costs, p)
<1> DEFINE S == {RouteLength(costs, p) : p \in Routes(r, i)}
<1>1. S \subseteq Nat
  BY LengthType
<1>2. S # {}
  BY DEF Connected
<1>3. Least(S) \in S /\ \A n \in S : Least(S) <= n
  BY <1>1, <1>2, LeastIsLeast
<1>4. Shortest(costs, r, i) = Least(S)
  BY DEF Shortest
<1> HIDE DEF Shortest
<1> QED BY <1>1, <1>3, <1>4

LEMMA ShortestToSelf ==
  ASSUME NEW costs, Costs(costs), Connected, NEW r \in Router
  PROVE  Shortest(costs, r, r) = 0
<1> DEFINE p == [k \in 1..1 |-> r]
<1>1. p \in Routes(r, r) /\ Len(p) = 1
  <2>1. p \in [1..1 -> Router] /\ p[1] = r
    OBVIOUS
  <2> HIDE DEF p
  <2>2. /\ 1 \in Nat \ {0}
        /\ \A k \in 1..(1 - 1) : p[k + 1] \in neighbors[p[k]]
        /\ \A k, m \in 1..1 : p[k] = p[m] => k = m
    OBVIOUS
  <2>3. p \in Routes(p[1], p[1]) /\ Len(p) = 1
    BY <2>1, <2>2, RouteIntro
  <2> QED BY <2>1, <2>3
<1> HIDE DEF p
<1>2. PICK s : Lengths(costs, p, s)
  BY <1>1, LengthsExist
<1>3. RouteLength(costs, p) = 0
  BY <1>1, <1>2 DEF Lengths
<1>4. Shortest(costs, r, r) <= 0 /\ Shortest(costs, r, r) \in Nat
  BY <1>1, <1>3, ShortestIsLeast
<1> QED BY <1>4

\* No way to i is shorter than a link and the shortest way from its other
\* end: if that passes r itself, it is longer than what it has from r on.
LEMMA Triangle ==
  ASSUME NEW costs, Costs(costs), Connected,
         NEW r \in Router, NEW i \in Router, NEW j \in neighbors[r]
  PROVE  Shortest(costs, r, i) <= costs[r][j] + Shortest(costs, j, i)
<1>1. j \in Router /\ costs[r][j] \in Nat
  BY DvAssumption DEF Costs
<1>2. PICK q \in Routes(j, i) : Shortest(costs, j, i) = RouteLength(costs, q)
  BY <1>1, ShortestIsLeast
<1>3. RouteLength(costs, q) \in Nat /\ Len(q) \in Nat /\ Shortest(costs, r, i) \in Nat
  BY LengthType, RouteFacts, ShortestIsLeast
<1>4. CASE \A k \in 1..Len(q) : q[k] # r
  <2>1. PICK p \in Routes(r, i) :
          RouteLength(costs, p) = costs[r][j] + RouteLength(costs, q)
    BY <1>4, LinkBefore
  <2>2. Shortest(costs, r, i) <= RouteLength(costs, p)
    BY ShortestIsLeast
  <2> QED BY <2>1, <2>2, <1>2
<1>5. CASE \E k \in 1..Len(q) : q[k] = r
  <2>1. PICK k \in 1..Len(q) : q[k] = r
    BY <1>5
  <2> DEFINE a == k - 1
  <2>2. a \in Nat /\ a < Len(q) /\ a + 1 = k
    BY <1>3
  <2> HIDE DEF a
  <2>3. /\ Rest(q, a) \in Routes(r, i)
        /\ RouteLength(costs, Rest(q, a)) \in Nat
        /\ RouteLength(costs, Rest(q, a)) <= RouteLength(costs, q)
    BY <2>1, <2>2, RestIsRoute
  <2>4. Shortest(costs, r, i) <= RouteLength(costs, Rest(q, a))
    BY <2>3, ShortestIsLeast
  <2> QED BY <2>3, <2>4, <1>1, <1>2, <1>3
<1> QED BY <1>4, <1>5

-----------------------------------------------------------------------------
\* Where no link costs more, no way is longer.
Cheaper(low, costs) ==
  \A r \in Router : \A j \in neighbors[r] : low[r][j] <= costs[r][j]

LEMMA LengthMonotone ==
  ASSUME NEW low, Costs(low), NEW costs, Costs(costs), Cheaper(low, costs),
         NEW r, NEW i, NEW p \in Routes(r, i)
  PROVE  RouteLength(low, p) <= RouteLength(costs, p)
<1> DEFINE n == Len(p)
<1>1. /\ n \in Nat \ {0}
      /\ \A k \in 1..n : p[k] \in Router
      /\ \A k \in 1..(n - 1) : p[k + 1] \in neighbors[p[k]]
  BY RouteFacts
<1>2. PICK s : Lengths(low, p, s)
  BY LengthsExist
<1>3. PICK t : Lengths(costs, p, t)
  BY LengthsExist
<1>4. /\ s \in [1..n -> Nat] /\ s[1] = 0 /\ RouteLength(low, p) = s[n]
      /\ \A k \in 1..(n - 1) : s[k + 1] = s[k] + low[p[k]][p[k + 1]]
  BY <1>2 DEF Lengths
<1>5. /\ t \in [1..n -> Nat] /\ t[1] = 0 /\ RouteLength(costs, p) = t[n]
      /\ \A k \in 1..(n - 1) : t[k + 1] = t[k] + costs[p[k]][p[k + 1]]
  BY <1>3 DEF Lengths
<1> HIDE DEF n
<1>6. \A k \in 1..n : s[k] <= t[k]
  <2> DEFINE Bad == {k \in 1..n : ~ (s[k] <= t[k])}
  <2> SUFFICES ASSUME Bad # {} PROVE FALSE
    OBVIOUS
  <2> DEFINE m == Least(Bad)
  <2>1. Bad \subseteq Nat
    BY <1>1
  <2>2. m \in Bad /\ \A l \in Bad : m <= l
    BY <2>1, LeastIsLeast
  <2> HIDE DEF m
  <2>3. m # 1 /\ m \in 1..n
    BY <2>2, <1>4, <1>5
  <2> DEFINE l == m - 1
             a == low[p[l]][p[m]]
             b == costs[p[l]][p[m]]
  <2>4. l \in 1..(n - 1) /\ l + 1 = m /\ l \in 1..n /\ l < m
    BY <2>3, <1>1
  <2> HIDE DEF l
  <2>5. a \in Nat /\ b \in Nat /\ a <= b
    <3>1. p[l] \in Router /\ p[m] \in neighbors[p[l]]
      BY <2>4, <1>1
    <3> QED BY <3>1 DEF Costs, Cheaper
  <2>6. s[m] = s[l] + a /\ t[m] = t[l] + b
    BY <2>4, <1>4, <1>5
  <2> HIDE DEF a, b
  <2>7. s[l] <= t[l] /\ s[l] \in Nat /\ t[l] \in Nat
    <3>1. l \notin Bad
      BY <2>2, <2>4
    <3> QED BY <3>1, <2>4, <1>4, <1>5
  <2>8. s[m] <= t[m]
    BY <2>5, <2>6, <2>7
  <2> QED BY <2>2, <2>8
<1> QED BY <1>1, <1>4, <1>5, <1>6

LEMMA ShortestMonotone ==
  ASSUME NEW low, Costs(low), NEW costs, Costs(costs), Cheaper(low, costs), Connected,
         NEW r \in Router, NEW i \in Router
  PROVE  Shortest(low, r, i) <= Shortest(costs, r, i)
<1>1. PICK p \in Routes(r, i) : Shortest(costs, r, i) = RouteLength(costs, p)
  BY ShortestIsLeast
<1>2. Shortest(low, r, i) \in Nat /\ Shortest(low, r, i) <= RouteLength(low, p)
  BY ShortestIsLeast
<1>3. RouteLength(low, p) <= RouteLength(costs, p)
  BY LengthMonotone
<1>4. RouteLength(low, p) \in Nat /\ RouteLength(costs, p) \in Nat
  BY LengthType
<1> QED BY <1>1, <1>2, <1>3, <1>4

-----------------------------------------------------------------------------
\* The costs of the links, as they are and at their cheapest so far.
CostsKnown == Costs(costs_to_neighbor) /\ Cheaper(CheapestYet, costs_to_neighbor)

\* What the cheapest cost of a link is the least of, after so many changes.
CostsYet(changes, r, j) ==
  {costs_to_neighbor_init[r][j]} \cup
    IF {r, j} = {LinkEnds[1], LinkEnds[2]}
    THEN {LinkCosts[k] : k \in 1..changes} ELSE {}

LEMMA CheapestIsLeast ==
  ASSUME NEW changes \in 0..Len(LinkCosts), NEW r \in Router, NEW j \in neighbors[r]
  PROVE  /\ Least(CostsYet(changes, r, j)) \in Nat
         /\ Least(CostsYet(changes, r, j)) \in CostsYet(changes, r, j)
         /\ \A c \in CostsYet(changes, r, j) : Least(CostsYet(changes, r, j)) <= c
<1>1. costs_to_neighbor_init[r][j] \in Nat /\ LinkCosts \in Seq(Nat)
  BY DvAssumption
<1>2. \A k \in 1..changes : LinkCosts[k] \in Nat
  BY <1>1
<1>3. CostsYet(changes, r, j) \subseteq Nat /\ CostsYet(changes, r, j) # {}
  BY <1>1, <1>2 DEF CostsYet
<1> QED BY <1>3, LeastIsLeast

CheapestAfter(changes) ==
  [r \in Router |-> [j \in neighbors[r] |-> Least(CostsYet(changes, r, j))]]

LEMMA CheapestYetIs == CheapestYet = CheapestAfter(Changes)
  BY DEF CheapestYet, CheapestAfter, CostsYet

LEMMA CheapestAfterFacts ==
  ASSUME NEW changes \in 0..Len(LinkCosts)
  PROVE  /\ Costs(CheapestAfter(changes))
         /\ Cheaper(CheapestAfter(changes), costs_to_neighbor_init)
<1> SUFFICES ASSUME NEW r \in Router, NEW j \in neighbors[r]
             PROVE  /\ CheapestAfter(changes)[r][j] \in Nat
                    /\ CheapestAfter(changes)[r][j] <= costs_to_neighbor_init[r][j]
  BY DEF Costs, Cheaper
<1>1. CheapestAfter(changes)[r][j] = Least(CostsYet(changes, r, j))
  BY DEF CheapestAfter
<1>2. costs_to_neighbor_init[r][j] \in CostsYet(changes, r, j)
  BY DEF CostsYet
<1> QED BY <1>1, <1>2, CheapestIsLeast

\* Once a cost is the cheapest it stays at least as cheap.
LEMMA CheapestFalls ==
  ASSUME NEW c \in 0..Len(LinkCosts), NEW d \in 0..Len(LinkCosts), c <= d
  PROVE  Cheaper(CheapestAfter(d), CheapestAfter(c))
<1> SUFFICES ASSUME NEW r \in Router, NEW j \in neighbors[r]
             PROVE  Least(CostsYet(d, r, j)) <= Least(CostsYet(c, r, j))
  BY DEF Cheaper, CheapestAfter
<1>1. CostsYet(c, r, j) \subseteq CostsYet(d, r, j)
  <2>1. 1..c \subseteq 1..d
    BY Sizes
  <2> QED BY <2>1 DEF CostsYet
<1> QED BY <1>1, CheapestIsLeast

LEMMA ChangesType ==
  ASSUME NEW h \in 0..(2 * Len(LinkCosts))
  PROVE  (h + 1) \div 2 \in 0..Len(LinkCosts)
<1>1. \A l \in Nat : \A m \in 0..(2 * l) : (m + 1) \div 2 \in 0..l
  OBVIOUS
<1> QED BY <1>1, Sizes

LEMMA CostsKnownInit == Init => CostsKnown
<1> SUFFICES ASSUME Init PROVE CostsKnown
  OBVIOUS
<1>1. costs_to_neighbor = costs_to_neighbor_init /\ handled = 0
  BY DEF Init
<1>2. Changes \in 0..Len(LinkCosts)
  BY <1>1, Sizes, ChangesType DEF Changes
<1>3. Costs(costs_to_neighbor_init)
  BY DvAssumption DEF Costs
<1> QED BY <1>1, <1>2, <1>3, CheapestYetIs, CheapestAfterFacts DEF CostsKnown

\* What LinkChange does to the costs.
OneCostChanges(node, linkid, newcost) ==
  /\ {node, linkid} = {LinkEnds[1], LinkEnds[2]}
  /\ \A r \in Router : \A j \in neighbors[r] :
       costs_to_neighbor'[r][j] = IF r = node /\ j = linkid THEN newcost
                                  ELSE costs_to_neighbor[r][j]

LEMMA LinkChangeCosts ==
  ASSUME IInv, LinkChange
  PROVE  \E node, linkid \in Router, k \in DOMAIN LinkCosts :
           OneCostChanges(node, linkid, LinkCosts[k]) /\ k \in 1..Changes'
<1> DEFINE h == handled % 2
           node == LinkEnds[1 + h]
           linkid == LinkEnds[2 - h]
           k == 1 + (handled \div 2)
<1>1. /\ DOMAIN costs_to_neighbor = Router
      /\ \A r \in Router : costs_to_neighbor[r] \in [neighbors[r] -> Nat]
      /\ handled \in Nat
      /\ LinkCosts \in Seq(Nat) /\ Len(LinkCosts) \in Nat
  BY Sizes DEF IInv, TypeOK
<1>2. /\ handled < 2 * Len(LinkCosts)
      /\ linkhandler(node, linkid, LinkCosts[k], net)
  BY DEF LinkChange
<1>3. h \in {0, 1} /\ k \in 1..Len(LinkCosts)
  <2>1. \A m, l \in Nat : m < 2 * l => /\ m % 2 \in {0, 1}
                                       /\ 1 + (m \div 2) \in 1..l
    OBVIOUS
  <2> QED BY <1>1, <1>2, <2>1
<1>4. /\ node \in Router /\ linkid \in Router /\ linkid \in neighbors[node]
      /\ {node, linkid} = {LinkEnds[1], LinkEnds[2]}
  <2>1. /\ LinkEnds[1] \in Router /\ LinkEnds[2] \in Router
        /\ LinkEnds[2] \in neighbors[LinkEnds[1]]
    BY DvAssumption
  <2>2. LinkEnds[1] \in neighbors[LinkEnds[2]]
    BY <2>1, Topology
  <2>3. h = 0 => node = LinkEnds[1] /\ linkid = LinkEnds[2]
    OBVIOUS
  <2>4. h = 1 => node = LinkEnds[2] /\ linkid = LinkEnds[1]
    OBVIOUS
  <2> HIDE DEF h, node, linkid
  <2> QED BY <1>3, <2>1, <2>2, <2>3, <2>4
<1>5. k \in DOMAIN LinkCosts
  BY <1>1, <1>3
<1>6. costs_to_neighbor' =
        [costs_to_neighbor EXCEPT ![node][linkid] = LinkCosts[k]]
  BY <1>2 DEF linkhandler
<1> HIDE DEF h, node, linkid, k
<1>7. OneCostChanges(node, linkid, LinkCosts[k])
  BY <1>1, <1>4, <1>6 DEF OneCostChanges
<1>8. k \in 1..Changes'
  <2>1. handled' = handled + 1
    BY DEF LinkChange
  <2>2. \A m \in Nat : 1 + (m \div 2) \in 1..(((m + 1) + 1) \div 2)
    OBVIOUS
  <2>3. 1 + (handled \div 2) \in 1..(((handled + 1) + 1) \div 2)
    BY <2>2, <1>1
  <2> QED BY <2>1, <2>3 DEF Changes, k
<1> QED BY <1>4, <1>5, <1>7, <1>8

LEMMA OtherStepsCosts ==
  RtInit \/ (\E r \in Router : FromLayer2(r)) \/ UNCHANGED vars
    => UNCHANGED <<costs_to_neighbor, handled>>
  BY DEF RtInit, rtinit, FromLayer2, rtupdate, vars

\* The cheapest costs before and after a step.
LEMMA CheapestStep ==
  ASSUME IInv, IInv', [Next]_vars
  PROVE  /\ CheapestYet = CheapestAfter(Changes)
         /\ CheapestYet' = CheapestAfter(Changes')
         /\ Changes \in 0..Len(LinkCosts) /\ Changes' \in 0..Len(LinkCosts)
         /\ Costs(CheapestYet) /\ Costs(CheapestYet')
         /\ Cheaper(CheapestYet', CheapestYet)
<1>1. handled' = handled \/ handled' = handled + 1
  BY OtherStepsCosts DEF Next, LinkChange
<1>2. /\ handled \in 0..(2 * Len(LinkCosts)) /\ handled' \in 0..(2 * Len(LinkCosts))
      /\ handled \in Nat
  BY Sizes DEF IInv, TypeOK
<1>3. Changes \in 0..Len(LinkCosts) /\ Changes' \in 0..Len(LinkCosts)
  BY <1>2, ChangesType DEF Changes
<1>4. Changes <= Changes'
  BY <1>1, <1>2 DEF Changes
<1>5. CheapestYet = CheapestAfter(Changes)
  BY CheapestYetIs
<1>6. CheapestYet' = CheapestAfter(Changes')
  BY DEF CheapestYet, CheapestAfter, CostsYet
<1> QED BY <1>3, <1>4, <1>5, <1>6, CheapestAfterFacts, CheapestFalls

LEMMA CostsKnownStep ==
  ASSUME IInv, IInv', CostsKnown, [Next]_vars
  PROVE  CostsKnown'
<1> SUFFICES ASSUME NEW r \in Router, NEW j \in neighbors[r]
             PROVE  /\ costs_to_neighbor'[r][j] \in Nat
                    /\ CheapestYet'[r][j] <= costs_to_neighbor'[r][j]
  BY DEF CostsKnown, Costs, Cheaper
<1>1. ASSUME costs_to_neighbor'[r][j] = costs_to_neighbor[r][j]
      PROVE  /\ costs_to_neighbor'[r][j] \in Nat
             /\ CheapestYet'[r][j] <= costs_to_neighbor'[r][j]
  <2>1. /\ CheapestYet'[r][j] <= CheapestYet[r][j]
        /\ CheapestYet[r][j] \in Nat /\ CheapestYet'[r][j] \in Nat
    BY CheapestStep DEF Costs, Cheaper
  <2>2. CheapestYet[r][j] <= costs_to_neighbor[r][j] /\ costs_to_neighbor[r][j] \in Nat
    BY DEF CostsKnown, Costs, Cheaper
  <2> QED BY <1>1, <2>1, <2>2
<1>2. CASE LinkChange
  <2>1. PICK node \in Router, linkid \in Router, k \in DOMAIN LinkCosts :
          OneCostChanges(node, linkid, LinkCosts[k]) /\ k \in 1..Changes'
    BY <1>2, LinkChangeCosts
  <2>2. CASE r = node /\ j = linkid
    <3>1. costs_to_neighbor'[r][j] = LinkCosts[k] /\ LinkCosts[k] \in Nat
      BY <2>1, <2>2, Sizes DEF OneCostChanges
    <3>2. LinkCosts[k] \in CostsYet(Changes', r, j)
      BY <2>1, <2>2 DEF OneCostChanges, CostsYet
    <3>3. Least(CostsYet(Changes', r, j)) <= LinkCosts[k]
      BY <3>2, CheapestStep, CheapestIsLeast
    <3>4. CheapestYet'[r][j] = Least(CostsYet(Changes', r, j))
      BY CheapestStep DEF CheapestAfter
    <3> QED BY <3>1, <3>3, <3>4
  <2> QED BY <2>1, <2>2, <1>1 DEF OneCostChanges
<1> QED BY <1>1, <1>2, OtherStepsCosts DEF Next

-----------------------------------------------------------------------------
\* A vector of router s is nowhere below the ways with the costs low.
NotBelow(low, s, vector) ==
  \A i \in Router : Shortest(low, s, i) <= vector[i]

PacketsNotBelow(low, n) ==
  \A r \in Router : \A k \in DOMAIN n[r] :
    NotBelow(low, n[r][k].sourceid, n[r][k].mincost)

\* The tables t of the first routers.
TablesNotBelow(low, t, first) ==
  \A r \in Router : r < first => \A s \in Router : NotBelow(low, s, t[r][s])

LEMMA NotBelowIsCautious ==
  ASSUME TypeOK
  PROVE  NotBelowCheapestYet <=>
           TablesNotBelow(CheapestYet, dt, started) /\ PacketsNotBelow(CheapestYet, net)
<1> DEFINE ways == [s \in Router |-> [i \in Router |-> Shortest(CheapestYet, s, i)]]
<1>1. \A s, i \in Router : ways[s][i] = Shortest(CheapestYet, s, i)
  OBVIOUS
<1>2. NotBelowCheapestYet <=>
        /\ \A r, s, i \in Router : r < started => dt[r][s][i] >= ways[s][i]
        /\ \A r, i \in Router : \A k \in DOMAIN net[r] :
             net[r][k].mincost[i] >= ways[net[r][k].sourceid][i]
  BY DEF NotBelowCheapestYet
<1> HIDE DEF ways
<1>3. ASSUME NEW r \in Router, NEW k \in DOMAIN net[r]
      PROVE  net[r][k].sourceid \in Router
  BY <1>3, DvAssumption DEF TypeOK
<1>4. (\A r, s, i \in Router : r < started => dt[r][s][i] >= ways[s][i])
        <=> TablesNotBelow(CheapestYet, dt, started)
  BY <1>1 DEF TablesNotBelow, NotBelow
<1>5. (\A r, i \in Router : \A k \in DOMAIN net[r] :
         net[r][k].mincost[i] >= ways[net[r][k].sourceid][i])
        <=> PacketsNotBelow(CheapestYet, net)
  BY <1>1, <1>3 DEF PacketsNotBelow, NotBelow
<1> QED BY <1>2, <1>4, <1>5

\* What is not below some ways is not below cheaper ones.
LEMMA NotBelowCheaper ==
  ASSUME Connected, NEW low, Costs(low), NEW costs, Costs(costs), Cheaper(low, costs),
         NEW s \in Router, NEW vector \in DistanceVector, NotBelow(costs, s, vector)
  PROVE  NotBelow(low, s, vector)
<1> SUFFICES ASSUME NEW i \in Router PROVE Shortest(low, s, i) <= vector[i]
  BY DEF NotBelow
<1>1. /\ Shortest(low, s, i) \in Nat /\ Shortest(costs, s, i) \in Nat
      /\ Shortest(low, s, i) <= Shortest(costs, s, i)
  BY ShortestIsLeast, ShortestMonotone
<1>2. Shortest(costs, s, i) <= vector[i] /\ vector[i] \in Nat
  BY DEF NotBelow, DistanceVector
<1> QED BY <1>1, <1>2

LEMMA SendsNotBelow ==
  ASSUME NEW low, NEW node \in Router, NEW vector \in DistanceVector,
         NotBelow(low, node, vector),
         NEW n \in [Router -> Seq(RtPkt)], PacketsNotBelow(low, n),
         NEW m, NEW sends \in BOOLEAN, SendsOrNot(n, m, node, vector, sends)
  PROVE  PacketsNotBelow(low, m)
<1> DEFINE p == [sourceid |-> node, mincost |-> vector]
<1>1. p \in RtPkt /\ p.sourceid = node /\ p.mincost = vector
  BY DEF RtPkt
<1>2. \A d \in Router :
        m[d] = IF sends /\ d \in neighbors[node] THEN Append(n[d], p) ELSE n[d]
  BY DEF SendsOrNot
<1> HIDE DEF p
<1> SUFFICES ASSUME NEW r \in Router, NEW k \in DOMAIN m[r]
             PROVE  NotBelow(low, m[r][k].sourceid, m[r][k].mincost)
  BY DEF PacketsNotBelow
<1>3. CASE m[r] = n[r]
  BY <1>3 DEF PacketsNotBelow
<1>4. CASE m[r] = Append(n[r], p)
  <2>1. n[r] \in Seq(RtPkt) /\ k \in 1..(Len(n[r]) + 1)
    BY <1>1, <1>4
  <2>2. CASE k = Len(n[r]) + 1
    BY <1>1, <1>4, <2>1, <2>2
  <2>3. CASE k \in DOMAIN n[r]
    <3>1. m[r][k] = n[r][k]
      BY <1>1, <1>4, <2>1, <2>3
    <3> QED BY <3>1, <2>3 DEF PacketsNotBelow
  <2> QED BY <2>1, <2>2, <2>3
<1> QED BY <1>2, <1>3, <1>4

\* The cheapest way over a neighbour is not below the cheapest way.
LEMMA RecalculatedNotBelow ==
  ASSUME Connected, NEW low, Costs(low), NEW node \in Router,
         NEW table \in [Router -> DistanceVector],
         \A s \in Router : NotBelow(low, s, table[s]),
         NEW costs \in [neighbors[node] -> Nat],
         \A j \in neighbors[node] : low[node][j] <= costs[j]
  PROVE  NotBelow(low, node, Recalculated(node, table, costs))
<1> SUFFICES ASSUME NEW i \in Router
             PROVE  Shortest(low, node, i)
                      <= Recalculated(node, table, costs)[i]
  BY DEF NotBelow
<1>1. CASE i = node
  BY <1>1 DEF NotBelow, Recalculated
<1>2. CASE i # node
  <2> DEFINE S == {costs[j] + table[j][i] : j \in neighbors[node]}
  <2>1. S \subseteq Nat /\ S # {}
    <3>1. neighbors[node] \subseteq Router /\ neighbors[node] # {}
      BY Topology
    <3> QED BY <3>1 DEF DistanceVector
  <2>2. Least(S) \in S
    BY <2>1, LeastIsLeast
  <2>3. Recalculated(node, table, costs)[i] = Least(S)
    BY <1>2 DEF Recalculated
  <2>4. PICK j \in neighbors[node] : Least(S) = costs[j] + table[j][i]
    BY <2>2
  <2> HIDE DEF S
  <2>5. j \in Router
    BY Topology
  <2>6. Shortest(low, j, i) <= table[j][i] /\ table[j][i] \in Nat
    BY <2>5 DEF NotBelow, DistanceVector
  <2>7. Shortest(low, node, i)
          <= low[node][j] + Shortest(low, j, i)
    BY Triangle
  <2>8. /\ low[node][j] \in Nat
        /\ Shortest(low, node, i) \in Nat
        /\ Shortest(low, j, i) \in Nat
    BY <2>5, ShortestIsLeast DEF Costs
  <2>9. costs[j] \in Nat /\ low[node][j] <= costs[j]
    OBVIOUS
  <2> QED BY <2>3, <2>4, <2>6, <2>7, <2>8, <2>9
<1> QED BY <1>1, <1>2

LEMMA RecalculateNotBelow ==
  ASSUME Connected, NEW low, Costs(low), TypeOK,
         TablesNotBelow(low, dt, started), started = NODE_NUM,
         NEW node \in Router,
         NEW table \in [Router -> DistanceVector],
         \A s \in Router : NotBelow(low, s, table[s]),
         NEW costs \in [neighbors[node] -> Nat],
         \A j \in neighbors[node] : low[node][j] <= costs[j],
         NEW n \in [Router -> Seq(RtPkt)], PacketsNotBelow(low, n),
         recalculate(node, table, costs, n)
  PROVE  TablesNotBelow(low, dt', started) /\ PacketsNotBelow(low, net')
<1> DEFINE vector == Recalculated(node, table, costs)
<1>1. PICK sends \in BOOLEAN : Recalculates(node, table, n, vector, sends)
  BY RecalculateEffect
<1>2. NotBelow(low, node, vector)
  BY RecalculatedNotBelow
<1> HIDE DEF vector
<1>3. PacketsNotBelow(low, net')
  BY <1>1, <1>2, SendsNotBelow DEF Recalculates
<1>4. TablesNotBelow(low, dt', started)
  <2> SUFFICES ASSUME NEW r \in Router, NEW s \in Router
               PROVE  NotBelow(low, s, dt'[r][s])
    BY DEF TablesNotBelow, NotBelow
  <2>1. CASE r = node /\ s = node
    BY <1>1, <1>2, <2>1 DEF Recalculates
  <2>2. CASE r = node /\ s # node
    BY <1>1, <2>2 DEF Recalculates
  <2>3. CASE r # node
    BY <1>1, <2>3, AllStarted DEF Recalculates, TablesNotBelow
  <2> QED BY <2>1, <2>2, <2>3
<1> QED BY <1>3, <1>4

\* The inductive invariant: nothing is below the cheapest ways.
AboveWays == /\ IInv
             /\ CostsKnown
             /\ TablesNotBelow(CheapestYet, dt, started)
             /\ PacketsNotBelow(CheapestYet, net)

LEMMA AboveWaysInit == Init => AboveWays
<1> SUFFICES ASSUME Init
             PROVE  /\ TablesNotBelow(CheapestYet, dt, started)
                    /\ PacketsNotBelow(CheapestYet, net)
  BY InitIInv, CostsKnownInit DEF AboveWays
<1>1. \A r \in Router : ~ (r < started)
  BY DEF Init, Router
<1>2. \A r \in Router : DOMAIN net[r] = {}
  BY DEF Init
<1> QED BY <1>1, <1>2 DEF TablesNotBelow, PacketsNotBelow

LEMMA AboveWaysRtInit ==
  ASSUME Connected, StartsCautious, AboveWays, Costs(CheapestYet), RtInit
  PROVE  /\ TablesNotBelow(CheapestYet, dt', started')
         /\ PacketsNotBelow(CheapestYet, net')
<1> DEFINE node == started
           vector == costs_to_nodes_init[node]
<1>1. /\ dt \in [Router -> [Router -> DistanceVector]]
      /\ net \in [Router -> Seq(RtPkt)]
      /\ node \in Router
      /\ started' = started + 1
      /\ dt' = [dt EXCEPT ![node] = InitialTable(node)]
      /\ net' \in send_dt_to_neighbors(net, node, vector)
  BY Sizes DEF AboveWays, IInv, TypeOK, RtInit, rtinit, Router
<1>2. vector \in DistanceVector
  BY <1>1, DvAssumption
<1>3. ASSUME NEW s \in Router
      PROVE  NotBelow(CheapestYet, s, InitialTable(node)[s])
  <2>1. NotBelow(costs_to_neighbor_init, s, InitialTable(node)[s])
    BY DEF StartsCautious, InitialTable, NotBelow
  <2>2. InitialTable(node)[s] \in DistanceVector
    BY <1>1, DvAssumption DEF InitialTable, DistanceVector
  <2>3. /\ Costs(costs_to_neighbor_init)
        /\ Cheaper(CheapestYet, costs_to_neighbor_init)
    <3>1. Changes \in 0..Len(LinkCosts)
      BY ChangesType DEF AboveWays, IInv, TypeOK, Changes
    <3> QED BY <3>1, CheapestYetIs, CheapestAfterFacts, DvAssumption DEF Costs
  <2> QED BY <2>1, <2>2, <2>3, NotBelowCheaper
<1>4. NotBelow(CheapestYet, node, vector)
  <2>1. InitialTable(node)[node] = vector
    BY <1>1 DEF InitialTable
  <2> QED BY <2>1, <1>1, <1>3
<1> HIDE DEF vector
<1>5. SendsOrNot(net, net', node, vector, TRUE)
  BY <1>1, <1>2, SendDt, Zenon
<1>6. PacketsNotBelow(CheapestYet, net')
  BY <1>1, <1>2, <1>4, <1>5, SendsNotBelow DEF AboveWays
<1>7. TablesNotBelow(CheapestYet, dt', started')
  <2> SUFFICES ASSUME NEW r \in Router, r < started', NEW s \in Router
               PROVE  NotBelow(CheapestYet, s, dt'[r][s])
    BY DEF TablesNotBelow, NotBelow
  <2>1. CASE r = node
    BY <1>1, <1>3, <2>1
  <2>2. CASE r # node
    <3>1. r < started /\ dt'[r] = dt[r]
      BY <1>1, <2>2 DEF Router
    <3> QED BY <3>1 DEF AboveWays, TablesNotBelow
  <2> QED BY <2>1, <2>2
<1> QED BY <1>6, <1>7

LEMMA AboveWaysFromLayer2 ==
  ASSUME Connected, AboveWays, Costs(CheapestYet), NEW r \in Router, FromLayer2(r)
  PROVE  /\ TablesNotBelow(CheapestYet, dt', started')
         /\ PacketsNotBelow(CheapestYet, net')
<1> DEFINE p == Head(net[r])
           n == [net EXCEPT ![r] = Tail(@)]
           table == [dt[r] EXCEPT ![p.sourceid] = p.mincost]
           costs == costs_to_neighbor[r]
<1>1. /\ started = NODE_NUM
      /\ started' = started
      /\ recalculate(r, table, costs, n)
      /\ net[r] # << >>
  BY DEF FromLayer2, Idle, rtupdate
<1>2. /\ dt \in [Router -> [Router -> DistanceVector]]
      /\ net \in [Router -> Seq(RtPkt)]
      /\ costs \in [neighbors[r] -> Nat]
      /\ \A s \in Router : s < started
  BY <1>1, AllStarted DEF AboveWays, IInv, TypeOK
<1>3. /\ p \in RtPkt
      /\ p = net[r][1]
      /\ 1 \in DOMAIN net[r]
      /\ Tail(net[r]) \in Seq(RtPkt)
      /\ \A k \in DOMAIN Tail(net[r]) :
           k + 1 \in DOMAIN net[r] /\ Tail(net[r])[k] = net[r][k + 1]
  BY <1>1, <1>2
<1>4. /\ p.sourceid \in Router
      /\ p.mincost \in DistanceVector
      /\ NotBelow(CheapestYet, p.sourceid, p.mincost)
  BY <1>3 DEF AboveWays, PacketsNotBelow, RtPkt
<1>5. n \in [Router -> Seq(RtPkt)] /\ PacketsNotBelow(CheapestYet, n)
  <2>1. n \in [Router -> Seq(RtPkt)]
    BY <1>2, <1>3
  <2> SUFFICES ASSUME NEW x \in Router, NEW k \in DOMAIN n[x]
               PROVE  NotBelow(CheapestYet, n[x][k].sourceid, n[x][k].mincost)
    BY <2>1 DEF PacketsNotBelow
  <2>2. CASE x = r
    <3>1. k + 1 \in DOMAIN net[r] /\ n[x][k] = net[r][k + 1]
      BY <1>2, <1>3, <2>2
    <3> QED BY <3>1 DEF AboveWays, PacketsNotBelow
  <2>3. CASE x # r
    BY <1>2, <2>3 DEF AboveWays, PacketsNotBelow
  <2> QED BY <2>2, <2>3
<1>6. table \in [Router -> DistanceVector]
  BY <1>2, <1>4
<1>7. \A s \in Router : NotBelow(CheapestYet, s, table[s])
  <2> TAKE s \in Router
  <2>1. table[s] = IF s = p.sourceid THEN p.mincost ELSE dt[r][s]
    BY <1>2, <1>4
  <2>2. NotBelow(CheapestYet, s, dt[r][s])
    BY <1>2 DEF AboveWays, TablesNotBelow
  <2> HIDE DEF table, p
  <2> QED BY <2>1, <2>2, <1>4
<1>8. \A j \in neighbors[r] : CheapestYet[r][j] <= costs[j]
  BY DEF AboveWays, CostsKnown, Cheaper
<1> HIDE DEF n, table, p, costs
<1> QED BY <1>1, <1>2, <1>5, <1>6, <1>7, <1>8, RecalculateNotBelow
        DEF AboveWays, IInv

LEMMA AboveWaysLinkChange ==
  ASSUME Connected, AboveWays, LinkChange
  PROVE  /\ TablesNotBelow(CheapestYet', dt', started')
         /\ PacketsNotBelow(CheapestYet', net')
<1> DEFINE h == handled % 2
           node == LinkEnds[1 + h]
           linkid == LinkEnds[2 - h]
           newcost == LinkCosts[1 + (handled \div 2)]
           costs == costs_to_neighbor'[node]
<1>1. linkhandler(node, linkid, newcost, net) /\ started' = started
  BY DEF LinkChange
<1>2. IInv' /\ CostsKnown'
  <2>1. IInv'
    BY LinkChangeStep DEF AboveWays
  <2> QED BY <2>1, CostsKnownStep DEF AboveWays, Next
<1> DEFINE low == CheapestYet'
<1>3. h \in {0, 1} /\ handled \in Nat
  <2>1. handled \in Nat
    BY Sizes DEF AboveWays, IInv, TypeOK
  <2> QED BY <2>1
<1>4. node \in Router
  <2>1. LinkEnds[1] \in Router /\ LinkEnds[2] \in Router
    BY DvAssumption
  <2> QED BY <1>3, <2>1
<1>5. started = NODE_NUM
  <2>1. handled % 2 = 1 => handled > 0
    <3>1. handled = 0 => handled % 2 = 0
      OBVIOUS
    <3> QED BY <1>3, <3>1
  <2> QED BY <2>1 DEF LinkChange, Quiet, Idle, AboveWays, IInv, TypeOK
<1> HIDE DEF h, node, linkid, newcost
<1>6. recalculate(node, dt[node], costs, net)
  BY <1>1 DEF linkhandler
<1>7. /\ costs \in [neighbors[node] -> Nat]
      /\ \A j \in neighbors[node] : low[node][j] <= costs[j]
  BY <1>2, <1>4 DEF IInv, TypeOK, CostsKnown, Cheaper
<1>8. /\ dt[node] \in [Router -> DistanceVector]
      /\ net \in [Router -> Seq(RtPkt)]
  BY <1>4 DEF AboveWays, IInv, TypeOK
\* What was not below the old cheapest costs is not below the new ones.
<1>9. Costs(low) /\ Costs(CheapestYet) /\ Cheaper(low, CheapestYet)
  BY <1>2, CheapestStep DEF AboveWays, Next
<1> HIDE DEF costs, low
<1>10. ASSUME NEW s \in Router, NEW vector \in DistanceVector,
              NotBelow(CheapestYet, s, vector)
       PROVE  NotBelow(low, s, vector)
  BY <1>9, <1>10, NotBelowCheaper
<1>11. TablesNotBelow(low, dt, started)
  <2> SUFFICES ASSUME NEW r \in Router, r < started, NEW s \in Router
               PROVE  NotBelow(low, s, dt[r][s])
    BY DEF TablesNotBelow
  <2>1. dt[r][s] \in DistanceVector
    BY DEF AboveWays, IInv, TypeOK
  <2> QED BY <2>1, <1>10 DEF AboveWays, TablesNotBelow
<1>12. PacketsNotBelow(low, net)
  <2> SUFFICES ASSUME NEW r \in Router, NEW k \in DOMAIN net[r]
               PROVE  NotBelow(low, net[r][k].sourceid, net[r][k].mincost)
    BY DEF PacketsNotBelow
  <2>1. net[r][k] \in RtPkt
    BY <1>8
  <2>2. net[r][k].sourceid \in Router /\ net[r][k].mincost \in DistanceVector
    BY <2>1 DEF RtPkt
  <2> QED BY <2>2, <1>10 DEF AboveWays, PacketsNotBelow
<1>13. \A s \in Router : NotBelow(low, s, dt[node][s])
  BY <1>4, <1>5, <1>11, AllStarted DEF TablesNotBelow
<1>14. TablesNotBelow(low, dt', started) /\ PacketsNotBelow(low, net')
  BY <1>4, <1>5, <1>6, <1>7, <1>8, <1>9, <1>11, <1>12, <1>13, RecalculateNotBelow
     DEF AboveWays, IInv
<1> QED BY <1>1, <1>14 DEF low

\* In any connected network that starts with vectors and an INFINITY not below
\* its ways, no cost in a table or in a packet is ever below the way with each
\* link at its cheapest so far, however the vectors cross (rtupdate, recalculate
\* and linkhandler, node.c:75-165).
THEOREM NeverBelow ==
  ASSUME Connected, StartsCautious
  PROVE  Spec => []NotBelowCheapestYet
<1>1. ASSUME AboveWays, [Next]_vars PROVE AboveWays'
  <2>1. IInv'
    BY <1>1, RtInitStep, FromLayer2Step, LinkChangeStep, StutterStep
       DEF AboveWays, Next
  <2>2. CostsKnown'
    BY <1>1, <2>1, CostsKnownStep DEF AboveWays
  <2>3. Costs(CheapestYet)
    BY <1>1, <2>1, CheapestStep DEF AboveWays
  <2>4. /\ TablesNotBelow(CheapestYet', dt', started')
        /\ PacketsNotBelow(CheapestYet', net')
    <3>1. CASE LinkChange
      BY <1>1, <3>1, AboveWaysLinkChange
    <3>2. CASE RtInit \/ (\E r \in Router : FromLayer2(r)) \/ UNCHANGED vars
      <4>1. handled' = handled
        BY <3>2, OtherStepsCosts
      <4>2. CheapestYet' = CheapestYet
        BY <4>1 DEF CheapestYet, Changes
      <4>3. /\ TablesNotBelow(CheapestYet, dt', started')
            /\ PacketsNotBelow(CheapestYet, net')
        <5>1. CASE UNCHANGED vars
          BY <1>1, <5>1 DEF AboveWays, vars
        <5> QED BY <1>1, <2>3, <3>2, <5>1, AboveWaysRtInit, AboveWaysFromLayer2
      <4> QED BY <4>2, <4>3
    <3> QED BY <1>1, <3>1, <3>2 DEF Next
  <2> QED BY <2>1, <2>2, <2>4 DEF AboveWays, TablesNotBelow, PacketsNotBelow, NotBelow
<1>2. AboveWays => NotBelowCheapestYet
  BY NotBelowIsCautious DEF AboveWays, IInv
<1> QED BY <1>1, <1>2, AboveWaysInit, PTL DEF Spec

-----------------------------------------------------------------------------
NoFreeLinks == \A r \in Router : \A j \in neighbors[r] : costs_to_neighbor[r][j] > 0

LEMMA NoFreeLinksStep ==
  ASSUME LinksCost, IInv, NoFreeLinks, [Next]_vars
  PROVE  NoFreeLinks'
<1>1. CASE LinkChange
  <2>1. PICK node \in Router, linkid \in Router, k \in DOMAIN LinkCosts :
          OneCostChanges(node, linkid, LinkCosts[k])
    BY <1>1, LinkChangeCosts
  <2>2. LinkCosts[k] > 0
    BY DEF LinksCost
  <2> QED BY <2>1, <2>2 DEF OneCostChanges, NoFreeLinks
<1>2. CASE UNCHANGED costs_to_neighbor
  BY <1>2 DEF NoFreeLinks
<1> QED BY <1>1, <1>2, OtherStepsCosts DEF Next

\* A solution of the Bellman-Ford equations is nowhere above a way: a way to
\* a router that is shorter than its cost would have a rest that is, too.
LEMMA SolutionNotAbove ==
  ASSUME NEW costs, Costs(costs),
         NEW v \in [Router -> DistanceVector],
         \A r \in Router : v[r][r] = 0,
         \A r, i \in Router : \A j \in neighbors[r] :
           r # i => v[r][i] <= costs[r][j] + v[j][i],
         NEW r \in Router, NEW i \in Router, NEW p \in Routes(r, i)
  PROVE  v[r][i] <= RouteLength(costs, p)
<1> DEFINE Long == {n \in Nat : \E x \in Router : \E q \in Routes(x, i) :
                      Len(q) = n /\ ~ (v[x][i] <= RouteLength(costs, q))}
<1> SUFFICES ASSUME ~ (v[r][i] <= RouteLength(costs, p)) PROVE FALSE
  OBVIOUS
<1>1. Len(p) \in Long
  BY RouteFacts
<1> DEFINE n == Least(Long)
<1>2. n \in Long /\ \A m \in Long : n <= m
  BY <1>1, LeastIsLeast
<1> HIDE DEF n
<1>3. PICK x \in Router :
         \E q \in Routes(x, i) : Len(q) = n /\ ~ (v[x][i] <= RouteLength(costs, q))
  BY <1>2
<1>4. PICK q \in Routes(x, i) :
        Len(q) = n /\ ~ (v[x][i] <= RouteLength(costs, q))
  BY <1>3
<1>5. RouteLength(costs, q) \in Nat
  BY LengthType
<1>6. x # i
  BY <1>4, <1>5
<1> DEFINE j == q[2]
           rest == Rest(q, 1)
<1>7. /\ j \in neighbors[x]
      /\ rest \in Routes(j, i)
      /\ Len(rest) = n - 1
      /\ RouteLength(costs, rest) \in Nat
      /\ RouteLength(costs, q) = costs[x][j] + RouteLength(costs, rest)
  BY <1>4, <1>6, FirstLink
<1> HIDE DEF j, rest
<1>8. j \in Router /\ costs[x][j] \in Nat
  BY <1>7, Topology DEF Costs
<1>9. Len(rest) \in Nat /\ n \in Nat
  BY <1>2, <1>7, RouteFacts
<1>10. v[j][i] <= RouteLength(costs, rest)
  <2>1. Len(rest) \notin Long
    BY <1>2, <1>7, <1>9
  <2> QED BY <2>1, <1>7, <1>8, <1>9
<1>11. v[x][i] <= costs[x][j] + v[j][i]
  BY <1>6, <1>7
<1>12. v[x][i] \in Nat /\ v[j][i] \in Nat
  BY <1>8 DEF DistanceVector
<1> QED BY <1>4, <1>7, <1>8, <1>10, <1>11, <1>12

\* Nor is it anywhere below the shortest way if no link is free: of the costs
\* that are, take the lowest; the neighbour it comes from has a lower one.
LEMMA SolutionNotBelow ==
  ASSUME NEW costs, Costs(costs), Connected,
         \A r \in Router : \A j \in neighbors[r] : costs[r][j] > 0,
         NEW v \in [Router -> DistanceVector],
         \A r \in Router : v[r][r] = 0,
         \A r, i \in Router : r # i =>
           \E j \in neighbors[r] : v[r][i] = costs[r][j] + v[j][i],
         NEW r \in Router, NEW i \in Router
  PROVE  Shortest(costs, r, i) <= v[r][i]
<1> DEFINE Low == {c \in Nat : \E x \in Router :
                     c = v[x][i] /\ ~ (Shortest(costs, x, i) <= v[x][i])}
<1> SUFFICES ASSUME ~ (Shortest(costs, r, i) <= v[r][i]) PROVE FALSE
  OBVIOUS
<1>1. v[r][i] \in Low
  BY DEF DistanceVector
<1> DEFINE c == Least(Low)
<1>2. c \in Low /\ \A d \in Low : c <= d
  BY <1>1, LeastIsLeast
<1> HIDE DEF c
<1>3. PICK x \in Router : c = v[x][i] /\ ~ (Shortest(costs, x, i) <= v[x][i])
  BY <1>2
<1>4. x # i
  BY <1>3, ShortestToSelf
<1>5. PICK j \in neighbors[x] : v[x][i] = costs[x][j] + v[j][i]
  BY <1>4
<1>6. j \in Router /\ costs[x][j] \in Nat \ {0}
  BY Topology DEF Costs
<1>7. v[x][i] \in Nat /\ v[j][i] \in Nat
  BY <1>6 DEF DistanceVector
<1>8. Shortest(costs, j, i) <= v[j][i]
  <2>1. v[j][i] < c
    BY <1>3, <1>5, <1>6, <1>7
  <2>2. v[j][i] \notin Low
    <3>1. c \in Nat
      BY <1>2
    <3> QED BY <2>1, <3>1, <1>2, <1>7
  <2> QED BY <2>2, <1>6, <1>7
<1>9. Shortest(costs, x, i) <= costs[x][j] + Shortest(costs, j, i)
  BY Triangle
<1>10. Shortest(costs, x, i) \in Nat /\ Shortest(costs, j, i) \in Nat
  BY <1>6, ShortestIsLeast
<1> QED BY <1>3, <1>5, <1>6, <1>7, <1>8, <1>9, <1>10

LEMMA QuietIsShortestLemma ==
  ASSUME Connected, IInv, NoFreeLinks
  PROVE  QuietMeansShortest
<1> SUFFICES ASSUME Quiet, NEW r \in Router, NEW i \in Router
             PROVE  Vector(r)[i] = Shortest(costs_to_neighbor, r, i)
  BY DEF QuietMeansShortest
<1> DEFINE v == [x \in Router |-> dt[x][x]]
           costs == costs_to_neighbor
<1>1. /\ dt \in [Router -> [Router -> DistanceVector]]
      /\ \A x \in Router : costs[x] \in [neighbors[x] -> Nat]
  BY DEF IInv, TypeOK
<1>2. Costs(costs)
  BY <1>1 DEF Costs
<1>3. v \in [Router -> DistanceVector] /\ \A x \in Router : v[x] = Vector(x)
  BY <1>1 DEF Vector
<1>4. \A x, y \in Router :
        v[x][y] = IF y = x THEN 0
                  ELSE Least({costs[x][j] + v[j][y] : j \in neighbors[x]})
  <2> TAKE x \in Router, y \in Router
  <2>1. Vector(x)[y] = IF y = x THEN 0
                       ELSE Least({costs[x][j] + Vector(j)[y] : j \in neighbors[x]})
    BY QuietLemma DEF QuietMeansBellmanFord
  <2>2. {costs[x][j] + Vector(j)[y] : j \in neighbors[x]} =
        {costs[x][j] + v[j][y] : j \in neighbors[x]}
    <3>1. \A j \in neighbors[x] : v[j] = Vector(j)
      BY <1>3, Topology
    <3> HIDE DEF v
    <3> QED BY <3>1
  <2> QED BY <2>1, <2>2, <1>3
<1> HIDE DEF v, costs
<1>5. \A x \in Router : v[x][x] = 0
  BY <1>4
<1>6. ASSUME NEW x \in Router, NEW y \in Router, x # y
      PROVE  /\ \A j \in neighbors[x] : v[x][y] <= costs[x][j] + v[j][y]
             /\ \E j \in neighbors[x] : v[x][y] = costs[x][j] + v[j][y]
  <2> DEFINE S == {costs[x][j] + v[j][y] : j \in neighbors[x]}
  <2>1. S \subseteq Nat /\ S # {}
    <3>1. neighbors[x] \subseteq Router /\ neighbors[x] # {}
      BY Topology
    <3> QED BY <3>1, <1>2, <1>3 DEF Costs, DistanceVector
  <2>2. Least(S) \in S /\ \A n \in S : Least(S) <= n
    BY <2>1, LeastIsLeast
  <2>3. v[x][y] = Least(S)
    BY <1>4, <1>6
  <2> QED BY <2>2, <2>3
<1>7. \A p \in Routes(r, i) : v[r][i] <= RouteLength(costs, p)
  <2>1. \A x, y \in Router : \A j \in neighbors[x] :
          x # y => v[x][y] <= costs[x][j] + v[j][y]
    BY <1>6
  <2> QED BY <2>1, <1>2, <1>3, <1>5, SolutionNotAbove
<1>8. Shortest(costs, r, i) <= v[r][i]
  <2>1. \A x, y \in Router : x # y =>
          \E j \in neighbors[x] : v[x][y] = costs[x][j] + v[j][y]
    BY <1>6
  <2>2. \A x \in Router : \A j \in neighbors[x] : costs[x][j] > 0
    BY DEF NoFreeLinks, costs
  <2> QED BY <2>1, <2>2, <1>2, <1>3, <1>5, SolutionNotBelow
<1>9. PICK p \in Routes(r, i) : Shortest(costs, r, i) = RouteLength(costs, p)
  BY <1>2, ShortestIsLeast
<1>10. Shortest(costs, r, i) \in Nat /\ v[r][i] \in Nat
  BY <1>2, <1>3, ShortestIsLeast DEF DistanceVector
<1>11. v[r][i] = Shortest(costs, r, i)
  BY <1>7, <1>8, <1>9, <1>10
<1> QED BY <1>3, <1>11 DEF costs

\* In any connected network without free links, whenever no packet is left
\* every router's vector is the lengths of the shortest ways, for the costs of
\* that time: the algorithm of node.c is right, whatever happened before.
THEOREM QuietIsShortest ==
  ASSUME Connected, LinksCost
  PROVE  Spec => []QuietMeansShortest
<1>1. Init => NoFreeLinks
  BY DEF Init, LinksCost, NoFreeLinks
<1>2. IInv /\ NoFreeLinks /\ [Next]_vars => NoFreeLinks'
  BY NoFreeLinksStep
<1>3. IInv /\ NoFreeLinks => QuietMeansShortest
  BY QuietIsShortestLemma
<1> QED BY <1>1, <1>2, <1>3, Invariance, PTL DEF Spec
=============================================================================

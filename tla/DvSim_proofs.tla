---------------------------- MODULE DvSim_proofs ----------------------------
(***************************************************************************)
(* Proofs about DvSim.tla, for any network and any delays above 0: the     *)
(* event list of dv.c, at the times the code computes, is the medium of    *)
(* Dv.tla, which keeps the order of packets, so what Dv_proofs.tla shows   *)
(* of the routers holds for the program with its clock.                    *)
(***************************************************************************)
EXTENDS DvSim, SequenceTheorems, WellFoundedInduction, TLAPS

\* Dv.tla where a link may change at any time, as with dt_updated unknown.
Order == INSTANCE Dv_proofs WITH net <- InMedium, started <- Initialised,
                                 LinkEnds <- <<0, 1>>, LinkCosts <- <<20, 1>>,
                                 Garbage <- BOOLEAN, Room <- Nat

RtPkt == [sourceid : Router, mincost : DistanceVector]

Event == [evtime : Nat, evtype : {FROM_LAYER2}, eventity : Router, rtpktptr : RtPkt]
         \cup {Change(t) : t \in Nat}

Sorted(n) == \A i, j \in 1..Len(n) : i < j => n[i].evtime <= n[j].evtime

Orderly(n) == /\ n \in [clocktime : Nat, evlist : Seq(Event)]
              /\ Sorted(n.evlist)

\* An event of the list n changes the link at time t.
ChangesAt(x, t) == x.evtype = LINK_CHANGE /\ x.evtime = t

\* There is one for each of the times T and no other.
Changes(n, T) ==
  /\ \A i \in 1..Len(n) : n[i].evtype = LINK_CHANGE => n[i].evtime \in T
  /\ \A t \in T : \E i \in 1..Len(n) : ChangesAt(n[i], t)
  /\ \A i, j \in 1..Len(n) : \A t \in T :
       ChangesAt(n[i], t) /\ ChangesAt(n[j], t) => i = j

\* The link changes to come after so many calls of a link handler.
Pending == IF started <= NODE_NUM THEN {}
           ELSE IF handled = 0 THEN {10000, 20000}
           ELSE IF handled <= 2 THEN {20000}
           ELSE {}

ClockInv == /\ Orderly(net)
            /\ started \in 0..(NODE_NUM + 1)
            /\ handled \in 0..4
            /\ started <= NODE_NUM => handled = 0
            /\ Changes(net.evlist, Pending)
            /\ handled = 1 => net.clocktime = 10000
            /\ handled = 3 => net.clocktime = 20000

IInv == ClockInv /\ Order!IInv

\* The packets on their way in the medium n.
Channels(n) == [d \in Router |-> Arriving(n.evlist, d)]

-----------------------------------------------------------------------------
\* Dv.tla and DvSim.tla speak of the same routers and vectors, and what
\* Dv_proofs.tla assumes of the constants holds here.
LEMMA SameData ==
  /\ Order!Router = Router
  /\ Order!DistanceVector = DistanceVector
  /\ Order!RtPkt = RtPkt
  /\ \A node, table, costs :
       Order!Recalculated(node, table, costs) = Recalculated(node, table, costs)
  /\ \A node : Order!InitialTable(node) = InitialTable(node)
<1>1. Order!Router = Router
  BY DEF Router, Order!Router
<1>2. Order!DistanceVector = DistanceVector
  BY <1>1 DEF DistanceVector, Order!DistanceVector
<1>3. Order!RtPkt = RtPkt
  BY <1>1, <1>2 DEF RtPkt, Order!RtPkt
<1>4. ASSUME NEW node, NEW table, NEW costs
      PROVE  Order!Recalculated(node, table, costs) = Recalculated(node, table, costs)
  BY <1>1 DEF Recalculated, Order!Recalculated, Least, Order!Least
<1>5. ASSUME NEW node PROVE Order!InitialTable(node) = InitialTable(node)
  BY <1>1 DEF InitialTable, Order!InitialTable
<1> QED BY <1>1, <1>2, <1>3, <1>4, <1>5

LEMMA AssumedOfDv ==
  /\ NODE_NUM \in Nat
  /\ INFINITY \in Nat \ {0}
  /\ neighbors \in [Order!Router -> SUBSET Order!Router]
  /\ \A r \in Order!Router : neighbors[r] # {} /\ r \notin neighbors[r]
  /\ \A r, s \in Order!Router : s \in neighbors[r] => r \in neighbors[s]
  /\ costs_to_nodes_init \in [Order!Router -> Order!DistanceVector]
  /\ \A r \in Order!Router : costs_to_nodes_init[r][r] = 0
  /\ BOOLEAN \in {{FALSE}, BOOLEAN}
  /\ DOMAIN costs_to_neighbor_init = Order!Router
  /\ \A r \in Order!Router : costs_to_neighbor_init[r] \in [neighbors[r] -> Nat]
  /\ <<0, 1>> \in Order!Router \X Order!Router
  /\ <<0, 1>>[2] \in neighbors[<<0, 1>>[1]]
  /\ <<20, 1>> \in Seq(Nat)
  /\ Nat \subseteq Nat
<1>1. <<0, 1>> \in Router \X Router /\ <<0, 1>>[2] \in neighbors[<<0, 1>>[1]]
  <2>1. 0 \in Router /\ 1 \in Router /\ 1 \in neighbors[0]
    BY DvSimAssumption
  <2> QED BY <2>1
<1>2. <<20, 1>> \in Seq(Nat)
  OBVIOUS
<1> QED BY <1>1, <1>2, SameData, DvSimAssumption

-----------------------------------------------------------------------------
\* The event list.

LEMMA MinIsLeast ==
  ASSUME NEW S, S \subseteq Nat, S # {}
  PROVE  Min(S) \in S /\ \A x \in S : Min(S) <= x
<1>1. PICK x \in S : \A y \in S : ~ (<<y, x>> \in OpToRel(<, Nat))
  <2> HIDE DEF OpToRel
  <2> QED BY NatLessThanWellFounded, WFMin
<1>2. \A y \in S : ~ (y < x)
  BY <1>1 DEF OpToRel
<1>3. \A y \in S : x <= y
  BY <1>2
<1> QED BY <1>3 DEF Min

LEMMA MaxIsGreatest ==
  ASSUME NEW len \in Nat, NEW S, S \subseteq 1..len, S # {}
  PROVE  Max(S) \in S /\ \A x \in S : x <= Max(S)
<1> DEFINE T == {d \in Nat : len - d \in S}
<1>1. T # {}
  <2>1. PICK x \in S : TRUE
    OBVIOUS
  <2>2. len - x \in Nat /\ len - (len - x) = x
    BY <2>1
  <2> QED BY <2>1, <2>2
<1>2. Min(T) \in T /\ \A d \in T : Min(T) <= d
  BY <1>1, MinIsLeast
<1> DEFINE m == len - Min(T)
<1>3. m \in S
  BY <1>2
<1>4. ASSUME NEW x \in S PROVE x <= m
  <2>1. len - x \in T
    <3>1. len - x \in Nat /\ len - (len - x) = x
      OBVIOUS
    <3> QED BY <3>1
  <2>2. Min(T) <= len - x
    BY <1>2, <2>1
  <2>3. Min(T) \in Nat
    BY <1>2
  <2> QED BY <2>2, <2>3
<1> HIDE DEF m
<1> QED BY <1>3, <1>4 DEF Max

\* m is n with p put in at k.
Inserted(n, k, p, m) ==
  /\ k \in 1..(Len(n) + 1)
  /\ m \in Seq(Event) /\ Len(m) = Len(n) + 1
  /\ m[k] = p
  /\ \A i \in 1..Len(n) : i < k => m[i] = n[i]
  /\ \A i \in 1..Len(n) : i >= k => m[i + 1] = n[i]

LEMMA Joined ==
  ASSUME NEW S, NEW s \in Seq(S), NEW t \in Seq(S), NEW a, NEW b,
         Len(s) = a, Len(t) = b
  PROVE  /\ s \o t \in Seq(S) /\ Len(s \o t) = a + b
         /\ \A i \in 1..(a + b) : (s \o t)[i] = IF i <= a THEN s[i] ELSE t[i - a]
  BY ConcatProperties

LEMMA InsertAtInserts ==
  ASSUME NEW n \in Seq(Event), NEW p \in Event, NEW k \in 1..(Len(n) + 1)
  PROVE  Inserted(n, k, p, InsertAt(n, k, p))
<1> DEFINE s == SubSeq(n, 1, k - 1)
           t == SubSeq(n, k, Len(n))
           m == s \o <<p>> \o t
<1>1. /\ s \in Seq(Event) /\ Len(s) = k - 1
      /\ \A i \in 1..(k - 1) : s[i] = n[i]
  OBVIOUS
<1>2. /\ t \in Seq(Event) /\ Len(t) = Len(n) - k + 1
      /\ \A i \in 1..(Len(n) - k + 1) : t[i] = n[i + k - 1]
  OBVIOUS
<1> HIDE DEF s, t
<1>3. /\ m \in Seq(Event) /\ Len(m) = Len(n) + 1
      /\ \A i \in 1..(k - 1) : m[i] = s[i]
      /\ m[k] = p
      /\ \A i \in (k + 1)..(Len(n) + 1) : m[i] = t[i - k]
  <2> DEFINE u == s \o <<p>>
  <2>1. <<p>> \in Seq(Event) /\ Len(<<p>>) = 1 /\ <<p>>[1] = p
    OBVIOUS
  <2>2. /\ u \in Seq(Event) /\ Len(u) = k
        /\ \A i \in 1..k : u[i] = IF i <= k - 1 THEN s[i] ELSE <<p>>[i - (k - 1)]
    BY <1>1, <2>1, Joined
  <2>3. u[k] = p
    BY <2>1, <2>2
  <2> HIDE DEF u
  <2>4. /\ u \o t \in Seq(Event) /\ Len(u \o t) = k + (Len(n) - k + 1)
        /\ \A i \in 1..(k + (Len(n) - k + 1)) :
             (u \o t)[i] = IF i <= k THEN u[i] ELSE t[i - k]
    BY <1>2, <2>2, Joined
  <2> DEFINE v == u \o t
  <2>5. v = m
    BY DEF u
  <2>6. /\ v \in Seq(Event) /\ Len(v) = Len(n) + 1
        /\ \A i \in 1..(Len(n) + 1) : v[i] = IF i <= k THEN u[i] ELSE t[i - k]
    BY <2>4
  <2> HIDE DEF v, m
  <2> QED BY <2>2, <2>3, <2>5, <2>6
<1>4. InsertAt(n, k, p) = m
  BY DEF InsertAt, s, t
<1> HIDE DEF m
<1>5. ASSUME NEW i \in 1..Len(n), i >= k PROVE m[i + 1] = n[i]
  <2>1. i + 1 \in (k + 1)..(Len(n) + 1) /\ (i + 1) - k \in 1..(Len(n) - k + 1)
        /\ ((i + 1) - k) + k - 1 = i
    BY <1>5
  <2> QED BY <1>2, <1>3, <2>1
<1> QED BY <1>1, <1>3, <1>4, <1>5 DEF Inserted

LEMMA EventFacts ==
  ASSUME NEW n \in Seq(Event)
  PROVE  /\ Len(n) \in Nat /\ DOMAIN n = 1..Len(n)
         /\ \A i \in 1..Len(n) : n[i] \in Event /\ n[i].evtime \in Nat
<1>1. ASSUME NEW i \in 1..Len(n) PROVE n[i] \in Event
  BY ElementOfSeq
<1>2. \A x \in Event : x.evtime \in Nat
  BY DEF Event, Change
<1> QED BY <1>1, <1>2

\* Where an event of the longer list is in the shorter one, and the reverse.
Before(k, i) == IF i < k THEN i ELSE i - 1
After(k, i) == IF i < k THEN i ELSE i + 1

Places(n, k, p, m) ==
  /\ k \in 1..Len(m) /\ m[k] = p
  /\ \A i \in 1..Len(m) : i # k => Before(k, i) \in 1..Len(n) /\ m[i] = n[Before(k, i)]
  /\ \A i, j \in 1..Len(m) : i # k /\ j # k /\ i < j => Before(k, i) < Before(k, j)
  /\ \A i, j \in 1..Len(m) : i # k /\ j # k /\ Before(k, i) = Before(k, j) => i = j
  /\ \A i \in 1..Len(n) : After(k, i) \in 1..Len(m) /\ m[After(k, i)] = n[i]

LEMMA InsertedPlaces ==
  ASSUME NEW n \in Seq(Event), NEW k, NEW p, NEW m, Inserted(n, k, p, m)
  PROVE  Places(n, k, p, m)
<1>1. Len(n) \in Nat /\ k \in 1..(Len(n) + 1) /\ Len(m) = Len(n) + 1
  BY DEF Inserted
<1>2. ASSUME NEW i \in 1..Len(m), i # k
      PROVE  Before(k, i) \in 1..Len(n) /\ m[i] = n[Before(k, i)]
  <2>1. CASE i < k
    BY <1>1, <2>1 DEF Inserted, Before
  <2>2. CASE i > k
    <3>1. i - 1 \in 1..Len(n) /\ i - 1 >= k /\ (i - 1) + 1 = i
      BY <1>1, <2>2
    <3>2. m[i] = n[i - 1]
      BY <3>1 DEF Inserted
    <3> QED BY <1>1, <2>2, <3>1, <3>2 DEF Before
  <2> QED BY <1>1, <1>2, <2>1, <2>2
<1>3. ASSUME NEW i \in 1..Len(n)
      PROVE  After(k, i) \in 1..Len(m) /\ m[After(k, i)] = n[i]
  BY <1>1 DEF Inserted, After
<1>4. /\ \A i, j \in 1..Len(m) : i # k /\ j # k /\ i < j => Before(k, i) < Before(k, j)
      /\ \A i, j \in 1..Len(m) : i # k /\ j # k /\ Before(k, i) = Before(k, j) => i = j
  BY <1>1 DEF Before
<1>5. m[k] = p
  BY DEF Inserted
<1> QED BY <1>1, <1>2, <1>3, <1>4, <1>5 DEF Places

LEMMA InsertedSorted ==
  ASSUME NEW n \in Seq(Event), NEW k, NEW p \in Event, NEW m, Inserted(n, k, p, m),
         Sorted(n),
         \A i \in 1..Len(n) : i < k => n[i].evtime < p.evtime,
         k <= Len(n) => p.evtime <= n[k].evtime
  PROVE  Sorted(m)
<1> SUFFICES ASSUME NEW i \in 1..Len(m), NEW j \in 1..Len(m), i < j
             PROVE  m[i].evtime <= m[j].evtime
  BY DEF Sorted
<1>1. Len(n) \in Nat /\ k \in 1..(Len(n) + 1) /\ Len(m) = Len(n) + 1
  BY DEF Inserted
<1>2. p.evtime \in Nat /\ \A l \in 1..Len(n) : n[l].evtime \in Nat
  BY EventFacts DEF Event, Change
<1>0. Places(n, k, p, m)
  BY InsertedPlaces
<1>3. CASE i # k /\ j # k
  <2>1. /\ m[i] = n[Before(k, i)] /\ m[j] = n[Before(k, j)]
        /\ Before(k, i) \in 1..Len(n) /\ Before(k, j) \in 1..Len(n)
        /\ Before(k, i) < Before(k, j)
    BY <1>0, <1>3 DEF Places
  <2> QED BY <2>1 DEF Sorted
<1>4. CASE i = k
  <2>1. j - 1 \in 1..Len(n) /\ k <= j - 1 /\ k \in 1..Len(n) /\ j # k
    BY <1>1, <1>4
  <2>2. m[i] = p /\ m[j] = n[j - 1]
    <3>1. Before(k, j) = j - 1
      BY <1>1, <1>4 DEF Before
    <3> QED BY <1>0, <1>4, <2>1, <3>1 DEF Places
  <2>3. n[k].evtime <= n[j - 1].evtime
    BY <1>2, <2>1 DEF Sorted
  <2>4. p.evtime <= n[k].evtime
    BY <1>1, <2>1
  <2>5. p.evtime \in Nat /\ n[k].evtime \in Nat /\ n[j - 1].evtime \in Nat
    BY <1>2, <2>1
  <2>6. p.evtime <= n[j - 1].evtime
    BY <2>3, <2>4, <2>5
  <2> QED BY <2>2, <2>6
<1>5. CASE j = k
  <2>1. i \in 1..Len(n) /\ i < k /\ i # k
    BY <1>1, <1>5
  <2>2. m[j] = p /\ m[i] = n[i]
    BY <1>5, <2>1 DEF Inserted
  <2> QED BY <1>2, <2>1, <2>2
<1> QED BY <1>3, <1>4, <1>5

\* insertevent finds the place of the event in the order of time.
LEMMA InsertEventInserts ==
  ASSUME NEW n, Orderly(n), NEW p \in Event
  PROVE  /\ Orderly(insertevent(n, p))
         /\ insertevent(n, p).clocktime = n.clocktime
         /\ \E k \in 1..(Len(n.evlist) + 1) :
              /\ Inserted(n.evlist, k, p, insertevent(n, p).evlist)
              /\ \A i \in 1..Len(n.evlist) : i >= k => p.evtime <= n.evlist[i].evtime
<1> DEFINE l == n.evlist
           S == {k \in 1..(Len(l) + 1) : k > Len(l) \/ p.evtime <= l[k].evtime}
           k == Min(S)
           m == InsertAt(l, k, p)
<1>1. /\ n \in [clocktime : Nat, evlist : Seq(Event)]
      /\ l \in Seq(Event) /\ Sorted(l) /\ Len(l) \in Nat /\ p.evtime \in Nat
      /\ \A i \in 1..Len(l) : l[i].evtime \in Nat
  <2>1. n \in [clocktime : Nat, evlist : Seq(Event)] /\ l \in Seq(Event) /\ Sorted(l)
    BY DEF Orderly
  <2>2. p.evtime \in Nat
    BY DEF Event, Change
  <2> QED BY <2>1, <2>2, EventFacts
<1>2. insertevent(n, p) = [n EXCEPT !.evlist = m]
  BY DEF insertevent
<1> HIDE DEF l
<1>3. Len(l) + 1 \in S /\ S \subseteq Nat
  BY <1>1
<1>4. k \in S /\ \A x \in S : k <= x
  <2> HIDE DEF S
  <2> QED BY <1>3, MinIsLeast
<1>5. k \in 1..(Len(l) + 1) /\ (k <= Len(l) => p.evtime <= l[k].evtime)
  BY <1>1, <1>4
<1>6. ASSUME NEW i \in 1..Len(l), i < k PROVE l[i].evtime < p.evtime
  <2>1. i \notin S
    <3>1. k \in Nat
      BY <1>5
    <3> HIDE DEF S, k
    <3> QED BY <1>4, <1>6, <3>1
  <2>2. ~(p.evtime <= l[i].evtime)
    BY <2>1, <1>1
  <2> QED BY <1>1, <2>2
<1> HIDE DEF k
<1>7. Inserted(l, k, p, m)
  BY <1>1, <1>5, InsertAtInserts
<1>8. m \in Seq(Event)
  BY <1>7 DEF Inserted
<1> HIDE DEF m
<1>9. Sorted(m)
  BY <1>1, <1>5, <1>6, <1>7, InsertedSorted
<1>10. /\ insertevent(n, p) \in [clocktime : Nat, evlist : Seq(Event)]
       /\ insertevent(n, p).evlist = m /\ insertevent(n, p).clocktime = n.clocktime
  BY <1>1, <1>2, <1>8
<1>11. ASSUME NEW i \in 1..Len(l), i >= k PROVE p.evtime <= l[i].evtime
  <2>1. k \in 1..Len(l) /\ k <= Len(l)
    BY <1>1, <1>5, <1>11
  <2>2. l[k].evtime <= l[i].evtime
    <3>1. CASE i = k
      BY <1>1, <3>1
    <3>2. CASE i # k
      <4>1. k < i
        BY <1>11, <2>1, <3>2
      <4> QED BY <1>1, <2>1, <4>1 DEF Sorted
    <3> QED BY <3>1, <3>2
  <2> QED BY <1>1, <1>5, <2>1, <2>2
<1> QED BY <1>5, <1>7, <1>9, <1>10, <1>11 DEF Orderly, l

-----------------------------------------------------------------------------
\* The packets on their way to a router.

\* The packets of the first events of n, a function of their number.
Upto(n, e, len, f) ==
  f = [k \in 0..len |->
         IF k = 0 THEN << >>
         ELSE IF InTransit(n[k], e) THEN Append(f[k - 1], n[k].rtpktptr)
         ELSE f[k - 1]]

\* The same, one step after the other.
Counts(n, e, f) ==
  /\ f[0] = << >>
  /\ \A k \in 1..Len(n) :
       f[k] = IF InTransit(n[k], e) THEN Append(f[k - 1], n[k].rtpktptr) ELSE f[k - 1]

LEMMA UptoExists ==
  ASSUME NEW n, NEW e, NEW len \in Nat
  PROVE  \E f : Upto(n, e, len, f)
<1> DEFINE Without == {l \in Nat : ~ \E f : Upto(n, e, l, f)}
<1> SUFFICES ASSUME Without # {} PROVE FALSE
  OBVIOUS
<1>1. PICK m \in Without : \A l \in Without : m <= l
  <2>1. Without \subseteq Nat
    OBVIOUS
  <2> HIDE DEF Without
  <2> QED BY <2>1, MinIsLeast
<1>2. CASE m = 0
  <2> DEFINE f == [k \in 0..0 |-> << >>]
  <2>1. f = [k \in 0..0 |-> IF k = 0 THEN << >>
                            ELSE IF InTransit(n[k], e) THEN Append(f[k - 1], n[k].rtpktptr)
                            ELSE f[k - 1]]
    OBVIOUS
  <2>2. Upto(n, e, m, f)
    BY <1>2, <2>1 DEF Upto
  <2> QED BY <1>1, <2>2
<1>3. CASE m # 0
  <2>1. m - 1 \in Nat /\ m - 1 \notin Without
    BY <1>1, <1>3
  <2>2. PICK g : Upto(n, e, m - 1, g)
    BY <2>1
  <2> DEFINE Next1(h, k) == IF InTransit(n[k], e) THEN Append(h[k - 1], n[k].rtpktptr)
                            ELSE h[k - 1]
             f == [k \in 0..m |-> IF k < m THEN g[k] ELSE Next1(g, m)]
  <2>3. ASSUME NEW k \in 0..m
        PROVE  f[k] = IF k = 0 THEN << >> ELSE Next1(f, k)
    <3>1. CASE k = 0
      <4>1. g[0] = << >>
        BY <2>1, <2>2 DEF Upto
      <4> QED BY <1>3, <3>1, <4>1
    <3>2. CASE k # 0 /\ k < m
      <4>1. /\ k \in 0..(m - 1) /\ k - 1 \in 0..m /\ k - 1 < m
        BY <3>2, <1>1
      <4>2. g[k] = Next1(g, k)
        BY <2>2, <3>2, <4>1 DEF Upto
      <4>3. f[k - 1] = g[k - 1] /\ f[k] = g[k]
        BY <3>2, <4>1
      <4> HIDE DEF f
      <4> QED BY <3>2, <4>2, <4>3
    <3>3. CASE k = m
      <4>1. m - 1 \in 0..m /\ m - 1 < m
        BY <2>1
      <4>2. f[m - 1] = g[m - 1] /\ f[m] = Next1(g, m)
        BY <4>1
      <4> HIDE DEF f
      <4> QED BY <1>3, <3>3, <4>2
    <3> QED BY <1>1, <3>1, <3>2, <3>3
  <2>4. f = [k \in 0..m |-> IF k = 0 THEN << >> ELSE Next1(f, k)]
    <3>1. f = [k \in 0..m |-> f[k]]
      OBVIOUS
    <3> HIDE DEF f, Next1
    <3> QED BY <2>3, <3>1
  <2>5. Upto(n, e, m, f)
    <3> HIDE DEF f
    <3> QED BY <2>4 DEF Upto
  <2> QED BY <1>1, <2>5
<1> QED BY <1>2, <1>3

LEMMA ArrivingCounts ==
  ASSUME NEW n \in Seq(Event), NEW e
  PROVE  \E f : Counts(n, e, f) /\ Arriving(n, e) = f[Len(n)]
<1> DEFINE f == CHOOSE g : Upto(n, e, Len(n), g)
<1>1. Len(n) \in Nat
  BY EventFacts
<1>2. Upto(n, e, Len(n), f)
  BY <1>1, UptoExists
<1>3. Arriving(n, e) = f[Len(n)]
  BY DEF Arriving, Upto
<1> HIDE DEF f
<1>4. f[0] = << >>
  BY <1>1, <1>2 DEF Upto
<1>5. ASSUME NEW k \in 1..Len(n)
      PROVE  f[k] = IF InTransit(n[k], e) THEN Append(f[k - 1], n[k].rtpktptr) ELSE f[k - 1]
  <2>1. k \in 0..Len(n) /\ k # 0
    BY <1>1
  <2> DEFINE v(h) == [l \in 0..Len(n) |->
                        IF l = 0 THEN << >>
                        ELSE IF InTransit(n[l], e) THEN Append(h[l - 1], n[l].rtpktptr)
                        ELSE h[l - 1]]
  <2>2. v(f)[k] = IF InTransit(n[k], e) THEN Append(f[k - 1], n[k].rtpktptr) ELSE f[k - 1]
    BY <2>1
  <2>3. f = v(f)
    BY <1>2 DEF Upto
  <2> HIDE DEF v
  <2>4. f[k] = v(f)[k]
    BY <2>3
  <2> QED BY <2>2, <2>4
<1> QED BY <1>3, <1>4, <1>5 DEF Counts

LEMMA CountsUnique ==
  ASSUME NEW n \in Seq(Event), NEW e, NEW f, NEW g, Counts(n, e, f), Counts(n, e, g)
  PROVE  \A k \in 0..Len(n) : f[k] = g[k]
<1> DEFINE Bad == {k \in 0..Len(n) : f[k] # g[k]}
<1> SUFFICES ASSUME Bad # {} PROVE FALSE
  OBVIOUS
<1>0. Len(n) \in Nat
  BY EventFacts
<1>1. PICK m \in Bad : \A l \in Bad : m <= l
  <2>1. Bad \subseteq Nat
    BY <1>0
  <2> HIDE DEF Bad
  <2> QED BY <2>1, MinIsLeast
<1>2. m # 0
  BY DEF Counts
<1>3. m \in 1..Len(n) /\ m - 1 \in 0..Len(n) /\ m - 1 < m
  BY <1>0, <1>2
<1>4. f[m - 1] = g[m - 1]
  BY <1>1, <1>3
<1> QED BY <1>3, <1>4 DEF Counts

LEMMA ArrivingIs ==
  ASSUME NEW n \in Seq(Event), NEW e, NEW f, Counts(n, e, f)
  PROVE  Arriving(n, e) = f[Len(n)]
<1>1. PICK g : Counts(n, e, g) /\ Arriving(n, e) = g[Len(n)]
  BY ArrivingCounts
<1>2. Len(n) \in 0..Len(n)
  BY EventFacts
<1> QED BY <1>1, <1>2, CountsUnique

\* What arrives when p comes after everything on its way to e.
Extended(s, p, e) == IF InTransit(p, e) THEN Append(s, p.rtpktptr) ELSE s

Latest(n, k, p, e) ==
  InTransit(p, e) => \A i \in 1..Len(n) : i >= k => ~InTransit(n[i], e)

LEMMA InsertedArriving ==
  ASSUME NEW n \in Seq(Event), NEW k, NEW p \in Event, NEW m, Inserted(n, k, p, m),
         NEW e, Latest(n, k, p, e)
  PROVE  Arriving(m, e) = Extended(Arriving(n, e), p, e)
<1> USE DEF Extended, Latest
<1> DEFINE End(s) == IF InTransit(p, e) THEN Append(s, p.rtpktptr) ELSE s
           Step(x, s) == IF InTransit(x, e) THEN Append(s, x.rtpktptr) ELSE s
<1>1. Len(n) \in Nat /\ k \in 1..(Len(n) + 1) /\ Len(m) = Len(n) + 1 /\ m \in Seq(Event)
  BY DEF Inserted
<1>2. PICK f : Counts(n, e, f) /\ Arriving(n, e) = f[Len(n)]
  BY ArrivingCounts
<1>3. f[0] = << >> /\ \A i \in 1..Len(n) : f[i] = Step(n[i], f[i - 1])
  BY <1>2 DEF Counts
<1> DEFINE h == [i \in 0..Len(m) |-> IF i < k THEN f[i] ELSE End(f[i - 1])]
<1>4. /\ \A i \in 0..Len(m) : i < k => h[i] = f[i]
      /\ \A i \in 0..Len(m) : i >= k => h[i] = End(f[i - 1])
  <2> HIDE DEF End
  <2> QED BY <1>1
<1> HIDE DEF h
<1>5. h[0] = << >>
  BY <1>1, <1>3, <1>4
<1>6. ASSUME NEW i \in 1..Len(m) PROVE h[i] = Step(m[i], h[i - 1])
  <2>1. CASE i < k
    <3>1. /\ i \in 1..Len(n) /\ i \in 0..Len(m) /\ i - 1 \in 0..Len(m) /\ i - 1 < k
      BY <1>1, <2>1
    <3>2. m[i] = n[i] /\ h[i] = f[i] /\ h[i - 1] = f[i - 1]
      BY <1>4, <2>1, <3>1 DEF Inserted
    <3> QED BY <1>3, <3>1, <3>2
  <2>2. CASE i = k
    <3>1. i \in 0..Len(m) /\ i - 1 \in 0..Len(m) /\ i - 1 < k /\ i >= k
      BY <1>1, <2>2
    <3>2. m[i] = p /\ h[i] = End(f[i - 1]) /\ h[i - 1] = f[i - 1]
      BY <1>4, <2>2, <3>1 DEF Inserted
    <3> QED BY <3>2
  <2>3. CASE i > k
    <3>1. /\ i - 1 \in 1..Len(n) /\ i \in 0..Len(m) /\ i - 1 \in 0..Len(m)
          /\ i >= k /\ i - 1 >= k /\ (i - 1) + 1 = i
      BY <1>1, <2>3
    <3>2. m[i] = n[i - 1] /\ h[i] = End(f[i - 1]) /\ h[i - 1] = End(f[(i - 1) - 1])
      <4>1. m[(i - 1) + 1] = n[i - 1]
        BY <3>1 DEF Inserted
      <4> QED BY <1>4, <3>1, <4>1
    <3>3. f[i - 1] = Step(n[i - 1], f[(i - 1) - 1])
      BY <1>3, <3>1
    <3>4. InTransit(p, e) => ~InTransit(n[i - 1], e)
      BY <3>1
    <3> QED BY <3>2, <3>3, <3>4
  <2> QED BY <1>1, <2>1, <2>2, <2>3
<1>7. Counts(m, e, h)
  BY <1>5, <1>6 DEF Counts
<1>8. Arriving(m, e) = h[Len(m)]
  BY <1>1, <1>7, ArrivingIs
<1>9. h[Len(m)] = End(f[Len(n)])
  <2>1. Len(m) \in 0..Len(m) /\ Len(m) >= k /\ Len(m) - 1 = Len(n)
    BY <1>1
  <2> QED BY <1>4, <2>1
<1> QED BY <1>2, <1>8, <1>9

LEMMA NothingArrives ==
  ASSUME NEW n \in Seq(Event), NEW e,
         \A i \in 1..Len(n) : ~InTransit(n[i], e)
  PROVE  Arriving(n, e) = << >>
<1> DEFINE f == [i \in 0..Len(n) |-> << >>]
<1>1. Len(n) \in Nat
  BY EventFacts
<1>2. Counts(n, e, f)
  <2>1. f[0] = << >> /\ \A i \in 1..Len(n) : f[i] = << >> /\ f[i - 1] = << >>
    BY <1>1
  <2> HIDE DEF f
  <2> QED BY <2>1 DEF Counts
<1>3. f[Len(n)] = << >>
  BY <1>1
<1> HIDE DEF f
<1> QED BY <1>2, <1>3, ArrivingIs

\* What the main loop takes off the list is the first packet to its router.
LEMMA TakenArriving ==
  ASSUME NEW n \in Seq(Event), n # << >>, NEW e
  PROVE  /\ ~InTransit(n[1], e) => Arriving(Tail(n), e) = Arriving(n, e)
         /\ InTransit(n[1], e) =>
              /\ Arriving(n, e) # << >>
              /\ Arriving(Tail(n), e) = Tail(Arriving(n, e))
              /\ Head(Arriving(n, e)) = n[1].rtpktptr
<1> DEFINE m == Tail(n)
           Step(x, s) == IF InTransit(x, e) THEN Append(s, x.rtpktptr) ELSE s
<1>1. /\ Len(n) \in Nat /\ Len(n) >= 1 /\ 1 \in 1..Len(n)
      /\ m \in Seq(Event) /\ Len(m) = Len(n) - 1
      /\ \A i \in 1..Len(m) : i + 1 \in 1..Len(n) /\ m[i] = n[i + 1]
  <2>1. Len(n) \in Nat /\ Len(n) >= 1
    BY EmptySeq
  <2> QED BY <2>1, HeadTailProperties
<1>2. /\ InTransit(n[1], e) => n[1].rtpktptr \in RtPkt
      /\ \A i \in 1..Len(n) : InTransit(n[i], e) => n[i].rtpktptr \in RtPkt
  <2>1. \A x \in Event : InTransit(x, e) => x.rtpktptr \in RtPkt
    BY DEF Event, Change, InTransit, LINK_CHANGE, FROM_LAYER2
  <2> QED BY <1>1, <2>1, EventFacts
<1>3. PICK f : Counts(n, e, f) /\ Arriving(n, e) = f[Len(n)]
  BY ArrivingCounts
<1>4. f[0] = << >> /\ \A i \in 1..Len(n) : f[i] = Step(n[i], f[i - 1])
  BY <1>3 DEF Counts
<1>5. f[1] = Step(n[1], << >>)
  <2>1. f[1] = Step(n[1], f[1 - 1])
    BY <1>1, <1>4
  <2>2. f[1 - 1] = << >>
    BY <1>4
  <2> QED BY <2>1, <2>2
<1> HIDE DEF m
<1>6. ASSUME ~InTransit(n[1], e) PROVE Arriving(m, e) = Arriving(n, e)
  <2> DEFINE h == [i \in 0..Len(m) |-> f[i + 1]]
  <2>1. /\ \A i \in 0..Len(m) : h[i] = f[i + 1]
        /\ 0 \in 0..Len(m) /\ Len(m) \in 0..Len(m) /\ Len(m) + 1 = Len(n)
    BY <1>1
  <2> HIDE DEF h
  <2>2. h[0] = << >> /\ h[Len(m)] = f[Len(n)]
    BY <1>5, <1>6, <2>1
  <2>3. ASSUME NEW i \in 1..Len(m) PROVE h[i] = Step(m[i], h[i - 1])
    <3>1. i \in 0..Len(m) /\ i - 1 \in 0..Len(m) /\ (i - 1) + 1 = i /\ (i + 1) - 1 = i
      BY <1>1
    <3>2. h[i] = f[i + 1] /\ h[i - 1] = f[i]
      <4>1. h[i - 1] = f[(i - 1) + 1]
        BY <2>1, <3>1
      <4> QED BY <2>1, <3>1, <4>1
    <3>3. f[i + 1] = Step(n[i + 1], f[i])
      BY <1>1, <1>4, <3>1
    <3> QED BY <1>1, <3>2, <3>3
  <2>4. Counts(m, e, h)
    BY <2>2, <2>3 DEF Counts
  <2> QED BY <1>1, <1>3, <2>2, <2>4, ArrivingIs
<1>7. ASSUME InTransit(n[1], e)
      PROVE  /\ Arriving(n, e) # << >>
             /\ Arriving(m, e) = Tail(Arriving(n, e))
             /\ Head(Arriving(n, e)) = n[1].rtpktptr
  <2> DEFINE Begins(s) == s \in Seq(RtPkt) /\ s # << >> /\ Head(s) = n[1].rtpktptr
             Bad == {i \in 1..Len(n) : ~Begins(f[i])}
  <2>1. ASSUME NEW s, NEW p \in RtPkt, Begins(s)
        PROVE  Begins(Append(s, p)) /\ Tail(Append(s, p)) = Append(Tail(s), p)
    <3> HIDE DEF Bad
    <3>1. s \in Seq(RtPkt) /\ Len(s) \in Nat /\ Len(s) >= 1
      BY <2>1, EmptySeq
    <3>2. Append(s, p) \in Seq(RtPkt) /\ Len(Append(s, p)) = Len(s) + 1
      BY <3>1, AppendProperties
    <3>3. Append(s, p)[1] = s[1] /\ Head(s) = s[1] /\ Head(Append(s, p)) = Append(s, p)[1]
      BY <3>1, <3>2
    <3>4. Tail(Append(s, p)) = Append(Tail(s), p)
      BY <3>1
    <3>5. Append(s, p) # << >>
      BY <3>1, <3>2
    <3> QED BY <2>1, <3>2, <3>3, <3>4, <3>5
  <2>2. Begins(f[1])
    <3>1. f[1] = << n[1].rtpktptr >>
      BY <1>5, <1>7
    <3>2. n[1].rtpktptr \in RtPkt
      BY <1>2, <1>7
    <3> QED BY <3>1, <3>2
  <2>3. Bad = {}
    <3> SUFFICES ASSUME Bad # {} PROVE FALSE
      OBVIOUS
    <3>1. PICK l \in Bad : \A j \in Bad : l <= j
      <4>1. Bad \subseteq Nat
        BY <1>1
      <4> HIDE DEF Bad
      <4> QED BY <4>1, MinIsLeast
    <3> HIDE DEF Begins
    <3>2. l # 1
      BY <2>2
    <3>3. l \in 1..Len(n) /\ l - 1 \in 1..Len(n) /\ l - 1 < l
      BY <1>1, <3>2
    <3>4. Begins(f[l - 1])
      BY <3>1, <3>3
    <3>5. f[l] = Step(n[l], f[l - 1]) /\ (InTransit(n[l], e) => n[l].rtpktptr \in RtPkt)
      BY <1>2, <1>4, <3>3
    <3>6. Begins(f[l])
      BY <2>1, <3>4, <3>5
    <3> QED BY <3>6
  <2>4. \A i \in 1..Len(n) : Begins(f[i])
    BY <2>3
  <2> HIDE DEF Bad
  <2> DEFINE h == [i \in 0..Len(m) |-> Tail(f[i + 1])]
  <2>5. /\ \A i \in 0..Len(m) : h[i] = Tail(f[i + 1])
        /\ 0 \in 0..Len(m) /\ Len(m) \in 0..Len(m) /\ Len(m) + 1 = Len(n)
    BY <1>1
  <2> HIDE DEF h
  <2>6. h[0] = << >> /\ h[Len(m)] = Tail(f[Len(n)])
    <3>1. f[1] = << n[1].rtpktptr >>
      BY <1>5, <1>7
    <3>2. Tail(<< n[1].rtpktptr >>) = << >>
      OBVIOUS
    <3>3. h[0] = Tail(f[1])
      <4>1. h[0] = Tail(f[0 + 1])
        BY <2>5
      <4> QED BY <4>1
    <3>4. h[Len(m)] = Tail(f[Len(n)])
      BY <2>5
    <3> QED BY <3>1, <3>2, <3>3, <3>4
  <2>7. ASSUME NEW i \in 1..Len(m) PROVE h[i] = Step(m[i], h[i - 1])
    <3>1. i \in 0..Len(m) /\ i - 1 \in 0..Len(m) /\ (i - 1) + 1 = i /\ (i + 1) - 1 = i
          /\ i \in 1..Len(n) /\ i + 1 \in 1..Len(n)
      BY <1>1
    <3>2. h[i] = Tail(f[i + 1]) /\ h[i - 1] = Tail(f[i])
      <4>1. h[i - 1] = Tail(f[(i - 1) + 1])
        BY <2>5, <3>1
      <4> QED BY <2>5, <3>1, <4>1
    <3>3. f[i + 1] = Step(n[i + 1], f[i])
      BY <1>4, <3>1
    <3>4. Begins(f[i]) /\ (InTransit(n[i + 1], e) => n[i + 1].rtpktptr \in RtPkt)
      BY <1>2, <2>4, <3>1
    <3>5. m[i] = n[i + 1]
      BY <1>1
    <3> HIDE DEF Begins
    <3> QED BY <2>1, <3>2, <3>3, <3>4, <3>5
  <2>8. Counts(m, e, h)
    BY <2>6, <2>7 DEF Counts
  <2>9. Len(n) \in 1..Len(n)
    BY <1>1
  <2>10. Arriving(m, e) = Tail(f[Len(n)])
    BY <1>1, <2>6, <2>8, ArrivingIs
  <2> QED BY <1>3, <2>4, <2>9, <2>10
<1> QED BY <1>6, <1>7 DEF m

-----------------------------------------------------------------------------
\* The link changes on the list.

LEMMA Kinds ==
  /\ \A p \in RtPkt, d \in Router, t \in Nat :
       LET x == [evtime |-> t, evtype |-> FROM_LAYER2, eventity |-> d, rtpktptr |-> p]
       IN  /\ x \in Event /\ x.evtype # LINK_CHANGE /\ x.evtime = t /\ x.rtpktptr = p
           /\ \A e : InTransit(x, e) <=> e = d
  /\ \A t \in Nat : /\ Change(t) \in Event /\ Change(t).evtime = t
                    /\ Change(t).evtype = LINK_CHANGE
                    /\ \A e : ~InTransit(Change(t), e)
  /\ \A x \in Event : /\ x.evtype \in {FROM_LAYER2, LINK_CHANGE}
                      /\ x.evtype = LINK_CHANGE <=> x.evtype # FROM_LAYER2
                      /\ x.evtype = FROM_LAYER2 => /\ x.eventity \in Router
                                                   /\ x.rtpktptr \in RtPkt
                                                   /\ InTransit(x, x.eventity)
<1> USE DEF Change, InTransit, LINK_CHANGE, FROM_LAYER2
<1>1. ASSUME NEW p \in RtPkt, NEW d \in Router, NEW t \in Nat
      PROVE  LET x == [evtime |-> t, evtype |-> FROM_LAYER2, eventity |-> d,
                       rtpktptr |-> p]
             IN  /\ x \in Event /\ x.evtype # LINK_CHANGE /\ x.evtime = t /\ x.rtpktptr = p
                 /\ \A e : InTransit(x, e) <=> e = d
  BY DEF Event
<1>2. ASSUME NEW t \in Nat
      PROVE  /\ Change(t) \in Event /\ Change(t).evtime = t
             /\ Change(t).evtype = LINK_CHANGE
             /\ \A e : ~InTransit(Change(t), e)
  BY DEF Event
<1>3. ASSUME NEW x \in Event
      PROVE  /\ x.evtype \in {FROM_LAYER2, LINK_CHANGE}
             /\ x.evtype = LINK_CHANGE <=> x.evtype # FROM_LAYER2
             /\ x.evtype = FROM_LAYER2 => /\ x.eventity \in Router
                                          /\ x.rtpktptr \in RtPkt
                                          /\ InTransit(x, x.eventity)
  <2>1. CASE x \in [evtime : Nat, evtype : {FROM_LAYER2}, eventity : Router,
                    rtpktptr : RtPkt]
    BY <2>1
  <2>2. CASE \E t \in Nat : x = Change(t)
    BY <2>2
  <2> QED BY <2>1, <2>2 DEF Event
<1> QED BY <1>1, <1>2, <1>3

LEMMA ArrivingType ==
  ASSUME NEW n \in Seq(Event), NEW e
  PROVE  Arriving(n, e) \in Seq(RtPkt)
<1>0. Len(n) \in Nat
  BY EventFacts
<1>1. PICK f : Counts(n, e, f) /\ Arriving(n, e) = f[Len(n)]
  BY ArrivingCounts
<1> DEFINE Bad == {k \in 0..Len(n) : f[k] \notin Seq(RtPkt)}
<1>2. Bad = {}
  <2> SUFFICES ASSUME Bad # {} PROVE FALSE
    OBVIOUS
  <2>1. PICK m \in Bad : \A k \in Bad : m <= k
    <3>1. Bad \subseteq Nat
      BY <1>0
    <3> HIDE DEF Bad
    <3> QED BY <3>1, MinIsLeast
  <2>2. m # 0
    <3>1. f[0] = << >> /\ << >> \in Seq(RtPkt)
      BY <1>1 DEF Counts
    <3> QED BY <2>1, <3>1
  <2>3. m \in 1..Len(n) /\ m - 1 \in 0..Len(n) /\ m - 1 < m
    BY <1>0, <2>2
  <2>4. f[m - 1] \in Seq(RtPkt)
    BY <2>1, <2>3
  <2>5. n[m] \in Event
    BY <2>3, EventFacts
  <2>6. InTransit(n[m], e) => n[m].rtpktptr \in RtPkt
    BY <2>5, Kinds DEF InTransit
  <2>7. f[m] = IF InTransit(n[m], e) THEN Append(f[m - 1], n[m].rtpktptr) ELSE f[m - 1]
    BY <1>1, <2>3 DEF Counts
  <2>8. f[m] \in Seq(RtPkt)
    <3> HIDE DEF Bad
    <3> QED BY <2>4, <2>6, <2>7
  <2> QED BY <2>1, <2>8
<1> QED BY <1>0, <1>1, <1>2

LEMMA InsertedChanges ==
  ASSUME NEW n \in Seq(Event), NEW k, NEW p \in Event, NEW m, Inserted(n, k, p, m),
         NEW T, Changes(n, T)
  PROVE  /\ p.evtype # LINK_CHANGE => Changes(m, T)
         /\ p.evtype = LINK_CHANGE /\ p.evtime \notin T => Changes(m, T \cup {p.evtime})
<1>1. /\ k \in 1..Len(m) /\ m[k] = p
      /\ \A i \in 1..Len(m) : i # k => Before(k, i) \in 1..Len(n) /\ m[i] = n[Before(k, i)]
      /\ \A i, j \in 1..Len(m) : i # k /\ j # k /\ Before(k, i) = Before(k, j) => i = j
      /\ \A i \in 1..Len(n) : After(k, i) \in 1..Len(m) /\ m[After(k, i)] = n[i]
  <2>1. Places(n, k, p, m)
    BY InsertedPlaces
  <2> QED BY <2>1 DEF Places
<1>2. /\ \A i \in 1..Len(n) : n[i].evtype = LINK_CHANGE => n[i].evtime \in T
      /\ \A t \in T : \E i \in 1..Len(n) : ChangesAt(n[i], t)
      /\ \A i, j \in 1..Len(n) : \A t \in T :
           ChangesAt(n[i], t) /\ ChangesAt(n[j], t) => i = j
  BY DEF Changes
<1> DEFINE U == IF p.evtype = LINK_CHANGE THEN T \cup {p.evtime} ELSE T
<1>3. ASSUME NEW i \in 1..Len(m), m[i].evtype = LINK_CHANGE PROVE m[i].evtime \in U
  <2>1. CASE i = k
    BY <1>1, <1>3, <2>1
  <2>2. CASE i # k
    <3>1. m[i].evtime \in T
      BY <1>1, <1>2, <1>3, <2>2
    <3> QED BY <3>1
  <2> QED BY <2>1, <2>2
<1>4. ASSUME NEW t \in U PROVE \E i \in 1..Len(m) : ChangesAt(m[i], t)
  <2>1. CASE t \in T
    <3>1. PICK i \in 1..Len(n) : ChangesAt(n[i], t)
      BY <1>2, <2>1
    <3>2. ChangesAt(m[After(k, i)], t)
      BY <1>1, <3>1
    <3> QED BY <1>1, <3>2
  <2>2. CASE t \notin T
    <3>1. p.evtype = LINK_CHANGE /\ t = p.evtime
      BY <1>4, <2>2
    <3> QED BY <1>1, <3>1 DEF ChangesAt
  <2> QED BY <2>1, <2>2
<1>5. ASSUME p.evtype = LINK_CHANGE => p.evtime \notin T,
             NEW i \in 1..Len(m), NEW j \in 1..Len(m), NEW t \in U,
             ChangesAt(m[i], t), ChangesAt(m[j], t)
      PROVE  i = j
  <2>1. ASSUME NEW a \in 1..Len(m), a # k, ChangesAt(m[a], t) PROVE t \in T
    <3>1. n[Before(k, a)].evtype = LINK_CHANGE /\ n[Before(k, a)].evtime = t
      BY <1>1, <2>1 DEF ChangesAt
    <3> QED BY <1>1, <1>2, <2>1, <3>1
  <2>2. CASE i # k /\ j # k
    <3>1. t \in T
      BY <1>5, <2>1, <2>2
    <3>2. /\ Before(k, i) \in 1..Len(n) /\ ChangesAt(n[Before(k, i)], t)
          /\ Before(k, j) \in 1..Len(n) /\ ChangesAt(n[Before(k, j)], t)
      BY <1>1, <1>5, <2>2, Zenon
    <3>3. Before(k, i) = Before(k, j)
      BY <1>2, <3>1, <3>2, Zenon
    <3> QED BY <1>1, <2>2, <3>3, Zenon
  <2>3. ASSUME NEW a \in 1..Len(m), a # k, ChangesAt(m[a], t), ChangesAt(m[k], t)
        PROVE  FALSE
    <3>1. p.evtype = LINK_CHANGE /\ p.evtime = t
      BY <1>1, <2>3 DEF ChangesAt
    <3> QED BY <1>5, <2>1, <2>3, <3>1
  <2> QED BY <1>5, <2>2, <2>3
<1>6. (p.evtype = LINK_CHANGE => p.evtime \notin T) => Changes(m, U)
  <2> HIDE DEF U
  <2> QED BY <1>3, <1>4, <1>5 DEF Changes
<1> QED BY <1>6

\* The main loop takes the head of the list: the earliest event there is.
LEMMA TakenChanges ==
  ASSUME NEW n \in Seq(Event), n # << >>, Sorted(n), NEW T, Changes(n, T)
  PROVE  /\ Sorted(Tail(n)) /\ Tail(n) \in Seq(Event)
         /\ Head(n) = n[1] /\ n[1] \in Event
         /\ n[1].evtype # LINK_CHANGE => Changes(Tail(n), T)
         /\ n[1].evtype = LINK_CHANGE =>
              /\ n[1].evtime \in T
              /\ \A t \in T : n[1].evtime <= t
              /\ Changes(Tail(n), T \ {n[1].evtime})
<1> DEFINE m == Tail(n)
<1>1. /\ Len(n) \in Nat /\ Len(n) >= 1 /\ 1 \in 1..Len(n) /\ Head(n) = n[1]
      /\ m \in Seq(Event) /\ Len(m) = Len(n) - 1
      /\ \A i \in 1..Len(m) : i + 1 \in 1..Len(n) /\ m[i] = n[i + 1]
  <2>1. Len(n) \in Nat /\ Len(n) >= 1
    BY EmptySeq
  <2> QED BY <2>1, HeadTailProperties
<1> HIDE DEF m
<1>2. \A i \in 1..Len(n) : n[i] \in Event /\ n[i].evtime \in Nat
  BY EventFacts
<1>3. ASSUME NEW i \in 1..Len(n), i # 1
      PROVE  i - 1 \in 1..Len(m) /\ m[i - 1] = n[i] /\ n[1].evtime <= n[i].evtime
  <2>1. i - 1 \in 1..Len(m) /\ (i - 1) + 1 = i /\ 1 < i
    BY <1>1, <1>3
  <2>2. m[i - 1] = n[i]
    BY <1>1, <2>1
  <2> QED BY <1>1, <2>1, <2>2 DEF Sorted
<1>4. Sorted(m)
  <2> SUFFICES ASSUME NEW i \in 1..Len(m), NEW j \in 1..Len(m), i < j
               PROVE  m[i].evtime <= m[j].evtime
    BY DEF Sorted
  <2>1. i + 1 \in 1..Len(n) /\ j + 1 \in 1..Len(n) /\ i + 1 < j + 1
    BY <1>1
  <2> QED BY <1>1, <2>1 DEF Sorted
<1>5. /\ \A i \in 1..Len(n) : n[i].evtype = LINK_CHANGE => n[i].evtime \in T
      /\ \A t \in T : \E i \in 1..Len(n) : ChangesAt(n[i], t)
      /\ \A i, j \in 1..Len(n) : \A t \in T :
           ChangesAt(n[i], t) /\ ChangesAt(n[j], t) => i = j
  BY DEF Changes
<1> DEFINE U == IF n[1].evtype = LINK_CHANGE THEN T \ {n[1].evtime} ELSE T
<1>6. ASSUME NEW i \in 1..Len(m), m[i].evtype = LINK_CHANGE PROVE m[i].evtime \in U
  <2>1. i + 1 \in 1..Len(n) /\ m[i] = n[i + 1] /\ n[i + 1].evtime \in T
    BY <1>1, <1>5, <1>6
  <2>2. ASSUME n[1].evtype = LINK_CHANGE, n[1].evtime = n[i + 1].evtime PROVE FALSE
    <3>1. ChangesAt(n[1], n[1].evtime) /\ ChangesAt(n[i + 1], n[1].evtime)
          /\ n[1].evtime \in T
      BY <1>6, <2>1, <2>2 DEF ChangesAt
    <3>2. 1 = i + 1
      BY <1>1, <1>5, <2>1, <3>1
    <3> QED BY <3>2
  <2> QED BY <2>1, <2>2
<1>7. ASSUME NEW t \in U PROVE \E i \in 1..Len(m) : ChangesAt(m[i], t)
  <2>1. PICK i \in 1..Len(n) : ChangesAt(n[i], t)
    BY <1>5
  <2>2. i # 1
    BY <2>1 DEF ChangesAt
  <2> QED BY <1>3, <2>1, <2>2
<1>8. ASSUME NEW i \in 1..Len(m), NEW j \in 1..Len(m), NEW t \in U,
             ChangesAt(m[i], t), ChangesAt(m[j], t)
      PROVE  i = j
  <2>1. i + 1 = j + 1
    <3>1. /\ i + 1 \in 1..Len(n) /\ ChangesAt(n[i + 1], t)
          /\ j + 1 \in 1..Len(n) /\ ChangesAt(n[j + 1], t)
          /\ t \in T
      BY <1>1, <1>8
    <3> QED BY <1>5, <3>1
  <2> QED BY <2>1
<1>9. Changes(m, U)
  <2> HIDE DEF U
  <2> QED BY <1>6, <1>7, <1>8 DEF Changes
<1>10. ASSUME n[1].evtype = LINK_CHANGE, NEW t \in T PROVE n[1].evtime <= t
  <2>1. PICK i \in 1..Len(n) : ChangesAt(n[i], t)
    BY <1>5
  <2> QED BY <1>1, <1>2, <1>3, <2>1 DEF ChangesAt
<1>11. n[1].evtype = LINK_CHANGE => n[1].evtime \in T
  BY <1>1, <1>5
<1> QED BY <1>1, <1>2, <1>4, <1>9, <1>10, <1>11 DEF m

-----------------------------------------------------------------------------
\* tolayer2.

LEMMA LastTimeIsLast ==
  ASSUME NEW n, Orderly(n), NEW d \in Router
  PROVE  /\ lastime(n, d) \in Nat
         /\ \A i \in 1..Len(n.evlist) :
              InTransit(n.evlist[i], d) => n.evlist[i].evtime <= lastime(n, d)
<1> DEFINE l == n.evlist
           there == {k \in DOMAIN l : InTransit(l[k], d)}
<1>1. /\ l \in Seq(Event) /\ Len(l) \in Nat /\ DOMAIN l = 1..Len(l) /\ Sorted(l)
      /\ \A i \in 1..Len(l) : l[i].evtime \in Nat
      /\ n.clocktime \in Nat
  BY EventFacts DEF Orderly
<1>2. CASE there = {}
  <2>1. lastime(n, d) = n.clocktime
    BY <1>2 DEF lastime
  <2>2. \A i \in 1..Len(l) : ~InTransit(l[i], d)
    BY <1>1, <1>2
  <2> QED BY <1>1, <2>1, <2>2
<1>3. CASE there # {}
  <2> DEFINE j == Max(there)
  <2>1. lastime(n, d) = l[j].evtime
    BY <1>3 DEF lastime
  <2> HIDE DEF l
  <2>2. there \subseteq 1..Len(l)
    BY <1>1
  <2>3. j \in there /\ \A i \in there : i <= j
    <3> HIDE DEF there
    <3> QED BY <1>1, <1>3, <2>2, MaxIsGreatest
  <2>4. j \in 1..Len(l)
    <3> HIDE DEF there, j
    <3> QED BY <2>2, <2>3
  <2>5. ASSUME NEW i \in 1..Len(l), InTransit(l[i], d) PROVE l[i].evtime <= l[j].evtime
    <3>1. i \in there
      BY <1>1, <2>5
    <3>2. i <= j
      <4> HIDE DEF there, j
      <4> QED BY <2>3, <3>1
    <3> HIDE DEF j
    <3>3. CASE i = j
      BY <1>1, <3>3
    <3>4. CASE i # j
      <4>1. i < j
        BY <2>4, <3>2, <3>4
      <4> QED BY <1>1, <2>4, <4>1 DEF Sorted
    <3> QED BY <3>3, <3>4
  <2> HIDE DEF j, there
  <2>6. l[j].evtime \in Nat
    BY <1>1, <2>4
  <2> QED BY <2>1, <2>5, <2>6 DEF l
<1> QED BY <1>2, <1>3

\* What is true of the media n and m before and after p was sent to d.
SentTo(n, m, p, d) ==
  /\ Orderly(m)
  /\ m.clocktime = n.clocktime
  /\ \A T : Changes(n.evlist, T) => Changes(m.evlist, T)
  /\ \A e : Arriving(m.evlist, e) = IF e = d THEN Append(Arriving(n.evlist, e), p)
                                    ELSE Arriving(n.evlist, e)

\* With a delay above 0 the packet comes after all others to its router.
LEMMA PacketSent ==
  ASSUME NEW n, Orderly(n), NEW p \in RtPkt, NEW d \in Router, NEW delay \in Nat \ {0}
  PROVE  SentTo(n, tolayer2(n, p, d, delay), p, d)
<1> DEFINE m == tolayer2(n, p, d, delay)
           l == n.evlist
           time == lastime(n, d) + delay
           x == [evtime |-> time, evtype |-> FROM_LAYER2, eventity |-> d, rtpktptr |-> p]
<1>1. /\ lastime(n, d) \in Nat
      /\ \A i \in 1..Len(l) : InTransit(l[i], d) => l[i].evtime <= lastime(n, d)
  BY LastTimeIsLast
<1>2. m = insertevent(n, x)
  BY DEF tolayer2
<1>3. l \in Seq(Event)
  BY DEF Orderly
<1> HIDE DEF l
<1>4. time \in Nat /\ \A i \in 1..Len(l) : InTransit(l[i], d) => l[i].evtime < time
  BY <1>1, <1>3, EventFacts
<1> HIDE DEF time
<1>5. /\ x \in Event /\ x.evtype # LINK_CHANGE /\ x.evtime = time /\ x.rtpktptr = p
      /\ \A e : InTransit(x, e) <=> e = d
  BY <1>4, Kinds
<1> HIDE DEF x, m
<1>6. /\ Orderly(m) /\ m.clocktime = n.clocktime
      /\ \E k \in 1..(Len(l) + 1) :
           /\ Inserted(l, k, x, m.evlist)
           /\ \A i \in 1..Len(l) : i >= k => time <= l[i].evtime
  BY <1>2, <1>5, InsertEventInserts DEF l
<1>7. PICK k \in 1..(Len(l) + 1) :
        /\ Inserted(l, k, x, m.evlist)
        /\ \A i \in 1..Len(l) : i >= k => time <= l[i].evtime
  BY <1>6
<1>8. ASSUME NEW T, Changes(l, T) PROVE Changes(m.evlist, T)
  BY <1>3, <1>5, <1>7, <1>8, InsertedChanges
<1>9. ASSUME NEW e
      PROVE  Arriving(m.evlist, e) = IF e = d THEN Append(Arriving(l, e), p)
                                     ELSE Arriving(l, e)
  <2>1. Latest(l, k, x, e)
    <3> SUFFICES ASSUME InTransit(x, e), NEW i \in 1..Len(l), i >= k, InTransit(l[i], e)
                 PROVE  FALSE
      BY DEF Latest
    <3>1. l[i].evtime < time /\ time <= l[i].evtime /\ l[i].evtime \in Nat
      BY <1>3, <1>4, <1>5, <1>7, EventFacts
    <3> QED BY <1>4, <3>1
  <2>2. Arriving(m.evlist, e) = Extended(Arriving(l, e), x, e)
    BY <1>3, <1>5, <1>7, <2>1, InsertedArriving
  <2> QED BY <1>5, <2>2 DEF Extended
<1> QED BY <1>6, <1>8, <1>9 DEF SentTo, m, l

-----------------------------------------------------------------------------
\* send_dt_to_neighbors.

\* The medium after the packets to the first of the routers.
Chain(n, node, p, delay, len, f) ==
  f = [k \in 0..len |->
         IF k = 0 THEN n
         ELSE IF k - 1 \in neighbors[node]
         THEN tolayer2(f[k - 1], p, k - 1, delay[k - 1])
         ELSE f[k - 1]]

LEMMA ChainExists ==
  ASSUME NEW n, NEW node, NEW p, NEW delay, NEW len \in Nat
  PROVE  \E f : Chain(n, node, p, delay, len, f)
<1> DEFINE Without == {l \in Nat : ~ \E f : Chain(n, node, p, delay, l, f)}
<1> SUFFICES ASSUME Without # {} PROVE FALSE
  OBVIOUS
<1>1. PICK m \in Without : \A l \in Without : m <= l
  <2>1. Without \subseteq Nat
    OBVIOUS
  <2> HIDE DEF Without
  <2> QED BY <2>1, MinIsLeast
<1> DEFINE Next1(h, k) == IF k - 1 \in neighbors[node]
                          THEN tolayer2(h[k - 1], p, k - 1, delay[k - 1])
                          ELSE h[k - 1]
<1>2. CASE m = 0
  <2> DEFINE f == [k \in 0..0 |-> n]
  <2>1. f = [k \in 0..0 |-> IF k = 0 THEN n ELSE Next1(f, k)]
    OBVIOUS
  <2>2. Chain(n, node, p, delay, m, f)
    BY <1>2, <2>1 DEF Chain
  <2> QED BY <1>1, <2>2
<1>3. CASE m # 0
  <2>1. m - 1 \in Nat /\ m - 1 \notin Without
    BY <1>1, <1>3
  <2>2. PICK g : Chain(n, node, p, delay, m - 1, g)
    BY <2>1
  <2> DEFINE f == [k \in 0..m |-> IF k < m THEN g[k] ELSE Next1(g, m)]
  <2>3. ASSUME NEW k \in 0..m
        PROVE  f[k] = IF k = 0 THEN n ELSE Next1(f, k)
    <3>1. CASE k = 0
      <4>1. g[0] = n
        BY <2>1, <2>2 DEF Chain
      <4> QED BY <1>3, <3>1, <4>1
    <3>2. CASE k # 0 /\ k < m
      <4>1. /\ k \in 0..(m - 1) /\ k - 1 \in 0..m /\ k - 1 < m
        BY <3>2, <1>1
      <4>2. g[k] = Next1(g, k)
        BY <2>2, <3>2, <4>1 DEF Chain
      <4>3. f[k - 1] = g[k - 1] /\ f[k] = g[k]
        BY <3>2, <4>1
      <4> HIDE DEF f
      <4> QED BY <3>2, <4>2, <4>3
    <3>3. CASE k = m
      <4>1. m - 1 \in 0..m /\ m - 1 < m
        BY <2>1
      <4>2. f[m - 1] = g[m - 1] /\ f[m] = Next1(g, m)
        BY <4>1
      <4> HIDE DEF f
      <4> QED BY <1>3, <3>3, <4>2
    <3> QED BY <1>1, <3>1, <3>2, <3>3
  <2>4. f = [k \in 0..m |-> IF k = 0 THEN n ELSE Next1(f, k)]
    <3>1. f = [k \in 0..m |-> f[k]]
      OBVIOUS
    <3> HIDE DEF f, Next1
    <3> QED BY <2>3, <3>1
  <2>5. Chain(n, node, p, delay, m, f)
    <3> HIDE DEF f
    <3> QED BY <2>4 DEF Chain
  <2> QED BY <1>1, <2>5
<1> QED BY <1>2, <1>3

\* f[k] is the medium before router k has got its packet, one after the other.
InTurn(n, node, p, delay, f) ==
  /\ f[0] = n
  /\ \A k \in 0..(NODE_NUM - 1) :
       f[k + 1] = IF k \in neighbors[node] THEN tolayer2(f[k], p, k, delay[k]) ELSE f[k]

LEMMA EachInTurn ==
  ASSUME NEW n, NEW node, NEW vector, NEW m \in send_dt_to_neighbors(n, node, vector)
  PROVE  \E delay \in Delays(node) : \E f :
           /\ InTurn(n, node, [sourceid |-> node, mincost |-> vector], delay, f)
           /\ m = f[NODE_NUM]
<1> DEFINE p == [sourceid |-> node, mincost |-> vector]
<1>0. NODE_NUM \in Nat
  BY DvSimAssumption
<1>1. PICK delay \in Delays(node) :
        m = (CHOOSE g : Chain(n, node, p, delay, NODE_NUM, g))[NODE_NUM]
  BY DEF send_dt_to_neighbors, Chain
<1> DEFINE f == CHOOSE g : Chain(n, node, p, delay, NODE_NUM, g)
<1> HIDE DEF p
<1>2. Chain(n, node, p, delay, NODE_NUM, f)
  BY <1>0, ChainExists
<1>3. m = f[NODE_NUM]
  BY <1>1
<1> HIDE DEF f
<1>4. f[0] = n
  BY <1>0, <1>2 DEF Chain
<1>5. ASSUME NEW k \in 0..(NODE_NUM - 1)
      PROVE  f[k + 1] = IF k \in neighbors[node] THEN tolayer2(f[k], p, k, delay[k])
                        ELSE f[k]
  <2>1. k + 1 \in 0..NODE_NUM /\ k + 1 # 0 /\ (k + 1) - 1 = k
    BY <1>0
  <2> DEFINE v(h) == [l \in 0..NODE_NUM |->
                        IF l = 0 THEN n
                        ELSE IF l - 1 \in neighbors[node]
                        THEN tolayer2(h[l - 1], p, l - 1, delay[l - 1])
                        ELSE h[l - 1]]
  <2>2. v(f)[k + 1] = IF k \in neighbors[node] THEN tolayer2(f[k], p, k, delay[k])
                      ELSE f[k]
    BY <2>1
  <2>3. f = v(f)
    BY <1>2 DEF Chain
  <2> HIDE DEF v
  <2>4. f[k + 1] = v(f)[k + 1]
    BY <2>3
  <2> QED BY <2>2, <2>4
<1>6. InTurn(n, node, p, delay, f)
  BY <1>4, <1>5 DEF InTurn
<1> QED BY <1>3, <1>6 DEF p

\* What is true of the media n and m before and after a router sent p to the
\* routers below k.
Sent(n, m, node, p, k) ==
  /\ Orderly(m)
  /\ m.clocktime = n.clocktime
  /\ \A T : Changes(n.evlist, T) => Changes(m.evlist, T)
  /\ \A e \in Router :
       Arriving(m.evlist, e) = IF e < k /\ e \in neighbors[node]
                               THEN Append(Arriving(n.evlist, e), p)
                               ELSE Arriving(n.evlist, e)

LEMMA OneMoreSent ==
  ASSUME NEW n, NEW m, NEW node \in Router, NEW p \in RtPkt, NEW k \in Router,
         Sent(n, m, node, p, k), NEW delay \in Nat \ {0}
  PROVE  Sent(n, IF k \in neighbors[node] THEN tolayer2(m, p, k, delay) ELSE m,
              node, p, k + 1)
<1>0. \A e \in Router : e \in Int
  BY DvSimAssumption DEF Router
<1>1. /\ Orderly(m) /\ m.clocktime = n.clocktime
      /\ \A T : Changes(n.evlist, T) => Changes(m.evlist, T)
      /\ \A e \in Router :
           Arriving(m.evlist, e) = IF e < k /\ e \in neighbors[node]
                                   THEN Append(Arriving(n.evlist, e), p)
                                   ELSE Arriving(n.evlist, e)
  BY DEF Sent
<1>2. CASE k \notin neighbors[node]
  <2>1. ASSUME NEW e \in Router
        PROVE  Arriving(m.evlist, e) = IF e < k + 1 /\ e \in neighbors[node]
                                       THEN Append(Arriving(n.evlist, e), p)
                                       ELSE Arriving(n.evlist, e)
    <3>1. e \in neighbors[node] => (e < k + 1 <=> e < k)
      BY <1>0, <1>2
    <3> QED BY <1>1, <3>1
  <2> QED BY <1>1, <1>2, <2>1 DEF Sent
<1>3. CASE k \in neighbors[node]
  <2> DEFINE q == tolayer2(m, p, k, delay)
  <2>1. /\ Orderly(q) /\ q.clocktime = m.clocktime
        /\ \A T : Changes(m.evlist, T) => Changes(q.evlist, T)
        /\ \A e : Arriving(q.evlist, e) = IF e = k THEN Append(Arriving(m.evlist, e), p)
                                          ELSE Arriving(m.evlist, e)
    <3>1. SentTo(m, q, p, k)
      BY <1>1, PacketSent
    <3> HIDE DEF q
    <3> QED BY <3>1 DEF SentTo
  <2> HIDE DEF q
  <2>2. ASSUME NEW e \in Router
        PROVE  Arriving(q.evlist, e) = IF e < k + 1 /\ e \in neighbors[node]
                                       THEN Append(Arriving(n.evlist, e), p)
                                       ELSE Arriving(n.evlist, e)
    <3>1. CASE e = k
      <4>1. ~(e < k) /\ e < k + 1
        BY <1>0, <3>1
      <4> QED BY <1>1, <1>3, <2>1, <3>1, <4>1
    <3>2. CASE e # k
      <4>1. e < k <=> e < k + 1
        BY <1>0, <3>2
      <4> QED BY <1>1, <2>1, <3>2, <4>1
    <3> QED BY <3>1, <3>2
  <2>3. Sent(n, q, node, p, k + 1)
    BY <1>1, <2>1, <2>2 DEF Sent
  <2> QED BY <1>3, <2>3 DEF q
<1> QED BY <1>2, <1>3

\* The vector of a router comes behind the packets on their way to each of
\* its neighbours, as in Dv.tla.
LEMMA VectorSent ==
  ASSUME NoDelayIsZero, NEW n, Orderly(n), NEW node \in Router,
         NEW vector \in DistanceVector, NEW m \in send_dt_to_neighbors(n, node, vector)
  PROVE  /\ Orderly(m) /\ m.clocktime = n.clocktime
         /\ \A T : Changes(n.evlist, T) => Changes(m.evlist, T)
         /\ Channels(m) \in Order!send_dt_to_neighbors(Channels(n), node, vector)
<1> DEFINE p == [sourceid |-> node, mincost |-> vector]
<1>0. NODE_NUM \in Nat /\ Router = 0..(NODE_NUM - 1)
  BY DvSimAssumption DEF Router
<1>1. p \in RtPkt
  BY DEF RtPkt
<1>2. PICK delay \in Delays(node) :
        \E f : InTurn(n, node, p, delay, f) /\ m = f[NODE_NUM]
  BY EachInTurn
<1> HIDE DEF p
<1>3. PICK f : InTurn(n, node, p, delay, f) /\ m = f[NODE_NUM]
  BY <1>2
<1>4. \A d \in neighbors[node] : delay[d] \in Nat \ {0}
  <2>1. delay \in [neighbors[node] -> Nat]
    BY DvSimAssumption
  <2>2. \A d \in neighbors[node] : delay[d] > 0
    BY DEF NoDelayIsZero
  <2> QED BY <2>1, <2>2
<1>5. Sent(n, f[0], node, p, 0)
  <2>1. f[0] = n
    BY <1>3 DEF InTurn
  <2>2. \A e \in Router : ~(e < 0)
    BY <1>0
  <2> QED BY <2>1, <2>2 DEF Sent
<1>6. ASSUME NEW k \in Router, Sent(n, f[k], node, p, k)
      PROVE  Sent(n, f[k + 1], node, p, k + 1)
  <2>1. f[k + 1] = IF k \in neighbors[node] THEN tolayer2(f[k], p, k, delay[k]) ELSE f[k]
    BY <1>0, <1>3 DEF InTurn
  <2>2. CASE k \in neighbors[node]
    BY <1>1, <1>4, <1>6, <2>1, <2>2, OneMoreSent
  <2>3. CASE k \notin neighbors[node]
    <3>1. 1 \in Nat \ {0}
      OBVIOUS
    <3> QED BY <1>1, <1>6, <2>1, <2>3, <3>1, OneMoreSent
  <2> QED BY <2>2, <2>3
<1>7. Sent(n, m, node, p, NODE_NUM)
  <2> DEFINE Bad == {k \in 0..NODE_NUM : ~Sent(n, f[k], node, p, k)}
  <2>1. Bad = {}
    <3> SUFFICES ASSUME Bad # {} PROVE FALSE
      OBVIOUS
    <3>1. PICK k \in Bad : \A j \in Bad : k <= j
      <4>1. Bad \subseteq Nat
        BY <1>0
      <4> HIDE DEF Bad
      <4> QED BY <4>1, MinIsLeast
    <3>2. k # 0
      BY <1>5
    <3>3. k - 1 \in Router /\ k - 1 \in 0..NODE_NUM /\ k - 1 < k /\ (k - 1) + 1 = k
      BY <1>0, <3>2
    <3>4. Sent(n, f[k - 1], node, p, k - 1)
      BY <3>1, <3>3
    <3>5. Sent(n, f[k], node, p, k)
      BY <1>6, <3>3, <3>4
    <3> QED BY <3>5
  <2>2. NODE_NUM \in 0..NODE_NUM
    BY <1>0
  <2> QED BY <1>3, <2>1, <2>2
<1>8. ASSUME NEW e \in Router
      PROVE  Channels(m)[e] = IF e \in neighbors[node] THEN Append(Channels(n)[e], p)
                              ELSE Channels(n)[e]
  <2>1. e < NODE_NUM
    BY <1>0
  <2> QED BY <1>7, <2>1 DEF Sent, Channels
<1>9. DOMAIN Channels(m) = Router /\ DOMAIN Channels(n) = Router
  BY DEF Channels
<1>10. Channels(m) = [d \in DOMAIN Channels(n) |->
                        IF d \in neighbors[node] THEN Append(Channels(n)[d], p)
                        ELSE Channels(n)[d]]
  <2>1. Channels(m) = [d \in Router |-> Channels(m)[d]]
    BY DEF Channels
  <2> QED BY <1>8, <1>9, <2>1
<1>11. Channels(m) \in Order!send_dt_to_neighbors(Channels(n), node, vector)
  BY <1>10 DEF Order!send_dt_to_neighbors, p
<1> QED BY <1>7, <1>11 DEF Sent

-----------------------------------------------------------------------------
\* The program.

\* The medium m has the changes of n and the time of n.
SameClock(n, m) == /\ Orderly(m) /\ m.clocktime = n.clocktime
                   /\ \A T : Changes(n.evlist, T) => Changes(m.evlist, T)

LEMMA RecalculateSends ==
  ASSUME NoDelayIsZero, NEW n, Orderly(n), NEW node \in Router,
         NEW table \in [Router -> DistanceVector],
         NEW costs \in [neighbors[node] -> Nat],
         recalculate(node, table, costs, n)
  PROVE  /\ SameClock(n, net')
         /\ Order!recalculate(node, table, costs, Channels(n))
<1> DEFINE vector == Recalculated(node, table, costs)
<1>1. vector \in DistanceVector /\ Order!Recalculated(node, table, costs) = vector
  <2>1. /\ node \in Order!Router /\ table \in [Order!Router -> Order!DistanceVector]
        /\ costs \in [neighbors[node] -> Nat]
    BY SameData
  <2>2. Order!Recalculated(node, table, costs) \in Order!DistanceVector
    BY <2>1, AssumedOfDv, Order!RecalculatedType
  <2> QED BY <2>2, SameData
<1>2. /\ dt' = [dt EXCEPT ![node] = [table EXCEPT ![node] = vector]]
      /\ \E dt_updated \in IF vector # table[node] THEN {TRUE} ELSE Garbage :
           net' \in IF dt_updated THEN send_dt_to_neighbors(n, node, vector) ELSE {n}
  BY DEF recalculate
<1> HIDE DEF vector
<1>3. PICK dt_updated \in IF vector # table[node] THEN {TRUE} ELSE Garbage :
        net' \in IF dt_updated THEN send_dt_to_neighbors(n, node, vector) ELSE {n}
  BY <1>2
<1>4. dt_updated \in IF vector # table[node] THEN {TRUE} ELSE BOOLEAN
  <2>1. Garbage = {FALSE} \/ Garbage = BOOLEAN
    BY DvSimAssumption
  <2> QED BY <1>3, <2>1
<1>5. /\ SameClock(n, net')
      /\ Channels(net') \in IF dt_updated
                            THEN Order!send_dt_to_neighbors(Channels(n), node, vector)
                            ELSE {Channels(n)}
  <2>1. CASE dt_updated
    <3>1. net' \in send_dt_to_neighbors(n, node, vector)
      BY <1>3, <2>1
    <3>2. /\ Orderly(net') /\ net'.clocktime = n.clocktime
          /\ \A T : Changes(n.evlist, T) => Changes(net'.evlist, T)
          /\ Channels(net') \in Order!send_dt_to_neighbors(Channels(n), node, vector)
      BY <1>1, <3>1, VectorSent
    <3> QED BY <2>1, <3>2 DEF SameClock
  <2>2. CASE ~dt_updated
    <3>1. net' = n
      BY <1>3, <2>2
    <3> QED BY <2>2, <3>1 DEF SameClock
  <2> QED BY <2>1, <2>2
<1>6. InMedium' = Channels(net')
  BY DEF InMedium, Channels
<1> QED BY <1>1, <1>2, <1>4, <1>5, <1>6 DEF Order!recalculate

LEMMA InMediumIs == InMedium = Channels(net) /\ InMedium' = Channels(net')
  BY DEF InMedium, Channels

LEMMA TypesOfDv ==
  ASSUME Order!IInv
  PROVE  /\ dt \in [Router -> [Router -> DistanceVector]]
         /\ DOMAIN costs_to_neighbor = Router
         /\ \A r \in Router : costs_to_neighbor[r] \in [neighbors[r] -> Nat]
         /\ Initialised \in 0..NODE_NUM
  BY SameData DEF Order!IInv, Order!TypeOK

LEMMA InitRefines == Init => ClockInv /\ Order!Init
<1> SUFFICES ASSUME Init PROVE ClockInv /\ Order!Init
  OBVIOUS
<1>0. NODE_NUM \in Nat
  BY DvSimAssumption
<1>1. /\ net = [clocktime |-> 0, evlist |-> << >>] /\ started = 0 /\ handled = 0
      /\ Len(net.evlist) = 0 /\ net.evlist \in Seq(Event)
  BY DEF Init
<1>2. Orderly(net)
  BY <1>1 DEF Orderly, Sorted
<1>3. Pending = {} /\ Changes(net.evlist, Pending)
  BY <1>0, <1>1 DEF Changes, Pending
<1>4. ClockInv
  BY <1>0, <1>1, <1>2, <1>3 DEF ClockInv
<1>5. InMedium = [r \in Router |-> << >>]
  <2>1. ASSUME NEW r \in Router PROVE Arriving(net.evlist, r) = << >>
    <3>1. PICK l : l = net.evlist
      OBVIOUS
    <3>2. l \in Seq(Event) /\ \A i \in 1..Len(l) : ~InTransit(l[i], r)
      BY <1>1, <3>1
    <3> QED BY <3>1, <3>2, NothingArrives
  <2> QED BY <2>1 DEF InMedium
<1>6. Initialised = 0
  BY <1>0, <1>1 DEF Initialised
<1>7. Order!Init
  BY <1>5, <1>6, SameData DEF Init, Order!Init
<1> QED BY <1>4, <1>7

LEMMA RtInitRefines ==
  ASSUME NoDelayIsZero, IInv, RtInit
  PROVE  ClockInv' /\ Order!RtInit
<1>0. NODE_NUM \in Nat /\ Router = 0..(NODE_NUM - 1)
  BY DvSimAssumption DEF Router
<1>1. /\ started < NODE_NUM /\ rtinit(started)
      /\ started' = started + 1 /\ UNCHANGED handled
      /\ started \in 0..(NODE_NUM + 1) /\ handled = 0
      /\ Orderly(net) /\ Changes(net.evlist, {})
  BY <1>0 DEF RtInit, IInv, ClockInv, Pending
<1>2. started \in Router /\ costs_to_nodes_init[started] \in DistanceVector
  <2>1. started \in Router
    BY <1>0, <1>1
  <2> QED BY <2>1, DvSimAssumption
<1>3. /\ dt' = [dt EXCEPT ![started] = InitialTable(started)]
      /\ net' \in send_dt_to_neighbors(net, started, costs_to_nodes_init[started])
      /\ UNCHANGED costs_to_neighbor
  BY <1>1 DEF rtinit
<1>4. /\ Orderly(net') /\ Changes(net'.evlist, {})
      /\ Channels(net') \in
           Order!send_dt_to_neighbors(Channels(net), started, costs_to_nodes_init[started])
  BY <1>1, <1>2, <1>3, VectorSent
<1>5. ClockInv'
  <2>1. Pending' = {}
    BY <1>0, <1>1 DEF Pending
  <2> QED BY <1>0, <1>1, <1>4, <2>1 DEF ClockInv
<1>6. Initialised = started /\ Initialised' = started + 1
  BY <1>0, <1>1 DEF Initialised
<1>7. Order!rtinit(started)
  BY <1>3, <1>4, InMediumIs, SameData DEF Order!rtinit
<1> QED BY <1>1, <1>5, <1>6, <1>7 DEF Order!RtInit

\* Both link changes are put on the list, and nothing else happens.
LEMMA ScheduleRefines ==
  ASSUME IInv, ScheduleChanges
  PROVE  ClockInv' /\ UNCHANGED Order!vars
<1>0. NODE_NUM \in Nat
  BY DvSimAssumption
<1> DEFINE n == insertevent(net, Change(10000))
           m == insertevent(n, Change(20000))
<1>1. /\ started = NODE_NUM /\ net' = m /\ started' = started + 1
      /\ UNCHANGED <<dt, costs_to_neighbor, handled>>
  BY DEF ScheduleChanges
<1>2. Orderly(net) /\ handled = 0 /\ Changes(net.evlist, {})
  BY <1>0, <1>1 DEF IInv, ClockInv, Pending
<1>3. \A t \in Nat : /\ Change(t) \in Event /\ Change(t).evtime = t
                     /\ Change(t).evtype = LINK_CHANGE
                     /\ \A e : ~InTransit(Change(t), e)
  BY Kinds
<1>4. ASSUME NEW l, Orderly(l), NEW t \in Nat, NEW T, Changes(l.evlist, T), t \notin T,
             NEW k, k = insertevent(l, Change(t))
      PROVE  /\ Orderly(k) /\ Changes(k.evlist, T \cup {t})
             /\ Channels(k) = Channels(l)
  <2> DEFINE x == Change(t)
  <2>1. /\ x \in Event /\ x.evtime = t /\ x.evtype = LINK_CHANGE
        /\ \A e : ~InTransit(x, e)
    BY <1>3
  <2> HIDE DEF x
  <2>2. /\ Orderly(k)
        /\ \E i \in 1..(Len(l.evlist) + 1) : Inserted(l.evlist, i, x, k.evlist)
    BY <1>4, <2>1, InsertEventInserts DEF x
  <2>3. PICK i \in 1..(Len(l.evlist) + 1) : Inserted(l.evlist, i, x, k.evlist)
    BY <2>2
  <2>4. l.evlist \in Seq(Event)
    BY <1>4 DEF Orderly
  <2>5. Changes(k.evlist, T \cup {t})
    BY <1>4, <2>1, <2>3, <2>4, InsertedChanges
  <2>6. ASSUME NEW e \in Router PROVE Arriving(k.evlist, e) = Arriving(l.evlist, e)
    <3>1. Latest(l.evlist, i, x, e)
      BY <2>1 DEF Latest
    <3>2. Arriving(k.evlist, e) = Extended(Arriving(l.evlist, e), x, e)
      BY <2>1, <2>3, <2>4, <3>1, InsertedArriving
    <3> QED BY <2>1, <3>2 DEF Extended
  <2>7. Channels(k) = Channels(l)
    BY <2>6 DEF Channels
  <2> QED BY <2>2, <2>5, <2>7
<1> HIDE DEF m
<1>5. Orderly(n) /\ Changes(n.evlist, {10000}) /\ Channels(n) = Channels(net)
  <2>1. Orderly(n) /\ Changes(n.evlist, {} \cup {10000}) /\ Channels(n) = Channels(net)
    BY <1>2, <1>4
  <2>2. {} \cup {10000} = {10000}
    OBVIOUS
  <2> QED BY <2>1, <2>2
<1> HIDE DEF n
<1>6. Orderly(m) /\ Changes(m.evlist, {10000, 20000}) /\ Channels(m) = Channels(net)
  <2>1. m = insertevent(n, Change(20000)) /\ 20000 \notin {10000}
    BY DEF m
  <2>2. Orderly(m) /\ Changes(m.evlist, {10000} \cup {20000}) /\ Channels(m) = Channels(n)
    BY <1>4, <1>5, <2>1
  <2>3. {10000} \cup {20000} = {10000, 20000}
    OBVIOUS
  <2> QED BY <1>5, <2>2, <2>3
<1>7. ClockInv'
  <2>1. Pending' = {10000, 20000}
    BY <1>0, <1>1, <1>2 DEF Pending
  <2> QED BY <1>0, <1>1, <1>2, <1>6, <2>1 DEF ClockInv
<1>8. InMedium' = InMedium
  BY <1>1, <1>6, InMediumIs
<1>9. Initialised' = Initialised
  BY <1>0, <1>1 DEF Initialised
<1> QED BY <1>1, <1>7, <1>8, <1>9 DEF Order!vars

\* What the main loop finds: a packet that is the first to its router, or
\* the next link change.
LEMMA LoopTakes ==
  ASSUME IInv, NEW evtype, Takes(evtype)
  PROVE  LET h == Head(net.evlist)
         IN  /\ Orderly(Taken(net)) /\ Taken(net).clocktime = h.evtime
             /\ h \in Event /\ h.evtype = evtype
             /\ handled \in {0, 2, 4} /\ Initialised = NODE_NUM
             /\ evtype = FROM_LAYER2 =>
                  /\ h.eventity \in Router /\ h.rtpktptr \in RtPkt
                  /\ Changes(Taken(net).evlist, Pending)
                  /\ InMedium[h.eventity] # << >>
                  /\ Head(InMedium[h.eventity]) = h.rtpktptr
                  /\ Channels(Taken(net)) =
                       [InMedium EXCEPT ![h.eventity] = Tail(InMedium[h.eventity])]
             /\ evtype = LINK_CHANGE =>
                  /\ handled # 4
                  /\ h.evtime = IF handled = 0 THEN 10000 ELSE 20000
                  /\ Changes(Taken(net).evlist, IF handled = 0 THEN {20000} ELSE {})
                  /\ Channels(Taken(net)) = InMedium
<1> DEFINE l == net.evlist
           h == Head(l)
           n == Taken(net)
<1>0. NODE_NUM \in Nat
  BY DvSimAssumption
<1>1. /\ started > NODE_NUM /\ handled % 2 = 0 /\ l # << >> /\ h.evtype = evtype
      /\ started \in 0..(NODE_NUM + 1) /\ handled \in 0..4
      /\ Orderly(net) /\ Changes(l, Pending)
  BY DEF Takes, IInv, ClockInv
<1>2. handled \in {0, 2, 4} /\ Initialised = NODE_NUM
  BY <1>0, <1>1 DEF Initialised
<1>3. Pending = IF handled = 0 THEN {10000, 20000}
                ELSE IF handled = 2 THEN {20000} ELSE {}
  BY <1>0, <1>1, <1>2 DEF Pending
<1>4. l \in Seq(Event) /\ Sorted(l) /\ net \in [clocktime : Nat, evlist : Seq(Event)]
  BY <1>1 DEF Orderly
<1>5. n.clocktime = h.evtime /\ n.evlist = Tail(l)
      /\ n = [clocktime |-> h.evtime, evlist |-> Tail(l)]
  BY DEF Taken
<1>6. /\ Sorted(Tail(l)) /\ Tail(l) \in Seq(Event) /\ h = l[1] /\ h \in Event
      /\ h.evtype # LINK_CHANGE => Changes(Tail(l), Pending)
      /\ h.evtype = LINK_CHANGE =>
           /\ h.evtime \in Pending
           /\ \A t \in Pending : h.evtime <= t
           /\ Changes(Tail(l), Pending \ {h.evtime})
  <2> HIDE DEF l
  <2>1. h = l[1]
    BY <1>1, <1>4, TakenChanges
  <2> HIDE DEF h
  <2> QED BY <1>1, <1>4, <2>1, TakenChanges
<1>7. h.evtime \in Nat
  BY <1>6 DEF Event, Change
<1>8. Orderly(n)
  BY <1>5, <1>6, <1>7 DEF Orderly
<1>9. \A e : /\ ~InTransit(h, e) => Arriving(Tail(l), e) = Arriving(l, e)
             /\ InTransit(h, e) => /\ Arriving(l, e) # << >>
                                   /\ Arriving(Tail(l), e) = Tail(Arriving(l, e))
                                   /\ Head(Arriving(l, e)) = h.rtpktptr
  BY <1>1, <1>4, <1>6, TakenArriving
<1>10. \A e \in Router : InMedium[e] = Arriving(l, e) /\ Channels(n)[e] = Arriving(Tail(l), e)
  BY <1>5 DEF InMedium, Channels
<1>11. InMedium = [e \in Router |-> InMedium[e]] /\ Channels(n) = [e \in Router |-> Channels(n)[e]]
  BY DEF InMedium, Channels
<1>12. /\ LINK_CHANGE # FROM_LAYER2
       /\ \A e : InTransit(h, e) <=> h.evtype = FROM_LAYER2 /\ h.eventity = e
  BY DEF InTransit, LINK_CHANGE, FROM_LAYER2
<1> HIDE DEF l, h, n
<1>13. ASSUME evtype = FROM_LAYER2
       PROVE  /\ h.eventity \in Router /\ h.rtpktptr \in RtPkt
              /\ Changes(n.evlist, Pending)
              /\ InMedium[h.eventity] # << >>
              /\ Head(InMedium[h.eventity]) = h.rtpktptr
              /\ Channels(n) = [InMedium EXCEPT ![h.eventity] = Tail(InMedium[h.eventity])]
  <2>1. h.eventity \in Router /\ h.rtpktptr \in RtPkt /\ InTransit(h, h.eventity)
    BY <1>1, <1>6, <1>13, Kinds
  <2>2. /\ InMedium[h.eventity] # << >> /\ Head(InMedium[h.eventity]) = h.rtpktptr
        /\ Channels(n)[h.eventity] = Tail(InMedium[h.eventity])
    BY <1>9, <1>10, <2>1
  <2>3. \A e \in Router \ {h.eventity} : Channels(n)[e] = InMedium[e]
    BY <1>9, <1>10, <1>12
  <2>4. Channels(n) = [InMedium EXCEPT ![h.eventity] = Tail(InMedium[h.eventity])]
    <3> DEFINE u == InMedium
               v == Channels(n)
    <3>1. u = [e \in Router |-> u[e]] /\ v = [e \in Router |-> v[e]]
      BY <1>11
    <3> HIDE DEF u, v
    <3> QED BY <2>1, <2>2, <2>3, <3>1 DEF u, v
  <2>5. Changes(n.evlist, Pending)
    BY <1>1, <1>5, <1>6, <1>12, <1>13
  <2> QED BY <2>1, <2>2, <2>4, <2>5
<1>14. ASSUME evtype = LINK_CHANGE
       PROVE  /\ handled # 4
              /\ h.evtime = IF handled = 0 THEN 10000 ELSE 20000
              /\ Changes(n.evlist, IF handled = 0 THEN {20000} ELSE {})
              /\ Channels(n) = InMedium
  <2>1. /\ h.evtime \in Pending /\ \A t \in Pending : h.evtime <= t
        /\ Changes(n.evlist, Pending \ {h.evtime})
    BY <1>1, <1>5, <1>6, <1>14
  <2>2. handled # 4 /\ h.evtime = IF handled = 0 THEN 10000 ELSE 20000
    BY <1>2, <1>3, <1>7, <2>1
  <2>3. Pending \ {h.evtime} = IF handled = 0 THEN {20000} ELSE {}
    BY <1>2, <1>3, <2>2
  <2>4. \A e \in Router : Channels(n)[e] = InMedium[e]
    BY <1>1, <1>9, <1>10, <1>12, <1>14
  <2>5. Channels(n) = InMedium
    <3> DEFINE u == InMedium
               v == Channels(n)
    <3>1. u = [e \in Router |-> u[e]] /\ v = [e \in Router |-> v[e]]
      BY <1>11
    <3> HIDE DEF u, v
    <3> QED BY <2>4, <3>1 DEF u, v
  <2> QED BY <2>1, <2>2, <2>3, <2>5
<1> QED BY <1>1, <1>2, <1>5, <1>6, <1>8, <1>13, <1>14 DEF l, h, n

\* There is room for every packet.
LEMMA RoomForAll ==
  ASSUME Orderly(net')
  PROVE  \A s \in Order!Router : Len(InMedium'[s]) \in Nat
<1>1. net'.evlist \in Seq(Event)
  BY DEF Orderly
<1>2. ASSUME NEW s \in Router PROVE Len(InMedium'[s]) \in Nat
  <2>1. InMedium'[s] = Arriving(net'.evlist, s)
    BY DEF InMedium
  <2>2. Arriving(net'.evlist, s) \in Seq(RtPkt)
    BY <1>1, ArrivingType
  <2> QED BY <2>1, <2>2
<1> QED BY <1>2, SameData

LEMMA FromLayer2Refines ==
  ASSUME NoDelayIsZero, IInv, FromLayer2
  PROVE  ClockInv' /\ \E r \in Order!Router : Order!FromLayer2(r)
<1> DEFINE h == Head(net.evlist)
           r == h.eventity
           p == h.rtpktptr
           n == Taken(net)
           table == [dt[r] EXCEPT ![p.sourceid] = p.mincost]
           costs == costs_to_neighbor[r]
<1>0. Takes(FROM_LAYER2)
  BY DEF FromLayer2
<1>1. /\ Orderly(n) /\ handled \in {0, 2, 4} /\ Initialised = NODE_NUM
      /\ r \in Router /\ p \in RtPkt
      /\ Changes(n.evlist, Pending)
      /\ InMedium[r] # << >> /\ Head(InMedium[r]) = p
      /\ Channels(n) = [InMedium EXCEPT ![r] = Tail(InMedium[r])]
  BY <1>0, LoopTakes
<1>2. /\ recalculate(r, table, costs, n)
      /\ UNCHANGED <<costs_to_neighbor, started, handled>>
  BY DEF FromLayer2, rtupdate
<1>3. /\ dt \in [Router -> [Router -> DistanceVector]]
      /\ costs \in [neighbors[r] -> Nat]
  BY <1>1, TypesOfDv DEF IInv
<1>4. table \in [Router -> DistanceVector]
  <2>1. p.sourceid \in Router /\ p.mincost \in DistanceVector
    BY <1>1 DEF RtPkt
  <2>2. dt[r] \in [Router -> DistanceVector]
    BY <1>1, <1>3
  <2> QED BY <2>1, <2>2
<1>5. SameClock(n, net') /\ Order!recalculate(r, table, costs, Channels(n))
  <2> HIDE DEF h, r, p, n, table, costs
  <2> QED BY <1>1, <1>2, <1>3, <1>4, RecalculateSends
<1>6. Orderly(net') /\ Changes(net'.evlist, Pending)
  BY <1>1, <1>5 DEF SameClock
<1>7. Pending' = Pending /\ Initialised' = Initialised
  BY <1>2 DEF Pending, Initialised
<1>8. ClockInv'
  <2>1. /\ started \in 0..(NODE_NUM + 1) /\ handled \in 0..4
        /\ started <= NODE_NUM => handled = 0
    BY DEF IInv, ClockInv
  <2>2. handled # 1 /\ handled # 3
    BY <1>1
  <2> QED BY <1>2, <1>6, <1>7, <2>1, <2>2 DEF ClockInv
<1>9. Order!rtupdate(r, Head(InMedium[r]), [InMedium EXCEPT ![r] = Tail(@)])
  <2> HIDE DEF h, r, n
  <2> QED BY <1>1, <1>2, <1>5 DEF Order!rtupdate
<1>10. \A s \in Order!Router : Len(InMedium'[s]) \in Nat
  BY <1>6, RoomForAll
<1>11. handled % 2 = 0
  BY <1>1
<1> HIDE DEF h, r, p, n, table, costs
<1>12. Order!FromLayer2(r) /\ r \in Order!Router
  BY <1>1, <1>2, <1>7, <1>9, <1>10, <1>11, SameData DEF Order!FromLayer2, Order!Idle
<1> QED BY <1>8, <1>12

LEMMA HandlerSends ==
  ASSUME NoDelayIsZero, IInv, NEW n, Orderly(n), NEW a \in Router,
         NEW b \in neighbors[a], NEW c \in Nat, linkhandler(a, b, c, n)
  PROVE  SameClock(n, net') /\ Order!linkhandler(a, b, c, Channels(n))
<1>1. /\ costs_to_neighbor' = [costs_to_neighbor EXCEPT ![a][b] = c]
      /\ recalculate(a, dt[a], costs_to_neighbor'[a], n)
  BY DEF linkhandler
<1>2. /\ dt \in [Router -> [Router -> DistanceVector]]
      /\ DOMAIN costs_to_neighbor = Router
      /\ costs_to_neighbor[a] \in [neighbors[a] -> Nat]
  BY TypesOfDv DEF IInv
<1>3. costs_to_neighbor'[a] \in [neighbors[a] -> Nat]
  BY <1>1, <1>2
<1>4. SameClock(n, net') /\ Order!recalculate(a, dt[a], costs_to_neighbor'[a], Channels(n))
  BY <1>1, <1>2, <1>3, RecalculateSends
<1> QED BY <1>1, <1>4 DEF Order!linkhandler

\* A call of linkhandler0 or linkhandler1: for which cost, and over which
\* medium.
LEMMA HandlerCalled ==
  ASSUME IInv, LinkChange
  PROVE  \E n : /\ Orderly(n) /\ Channels(n) = InMedium
                /\ linkhandler(<<0, 1>>[1 + (handled % 2)], <<0, 1>>[2 - (handled % 2)],
                               <<20, 1>>[1 + (handled \div 2)], n)
                /\ handled \in 0..3 /\ handled' = handled + 1 /\ started' = started
                /\ started = NODE_NUM + 1
                /\ Changes(n.evlist, IF handled < 2 THEN {20000} ELSE {})
                /\ handled = 0 => n.clocktime = 10000
                /\ handled = 2 => n.clocktime = 20000
<1>0. NODE_NUM \in Nat
  BY DvSimAssumption
<1>1. /\ Orderly(net) /\ started \in 0..(NODE_NUM + 1) /\ handled \in 0..4
      /\ started <= NODE_NUM => handled = 0
      /\ Changes(net.evlist, Pending)
      /\ handled = 1 => net.clocktime = 10000
      /\ handled = 3 => net.clocktime = 20000
  BY DEF IInv, ClockInv
<1>2. handled' = handled + 1 /\ started' = started
  BY DEF LinkChange
<1>3. CASE Takes(LINK_CHANGE) /\ linkhandler(0, 1, newcost(Taken(net)), Taken(net))
  <2> DEFINE n == Taken(net)
  <2>1. /\ Orderly(n) /\ handled \in {0, 2} /\ Channels(n) = InMedium
        /\ n.clocktime = IF handled = 0 THEN 10000 ELSE 20000
        /\ Changes(n.evlist, IF handled = 0 THEN {20000} ELSE {})
    BY <1>3, LoopTakes
  <2>2. started = NODE_NUM + 1
    BY <1>0, <1>1, <1>3 DEF Takes
  <2> HIDE DEF n
  <2>3. newcost(n) = <<20, 1>>[1 + (handled \div 2)]
    BY <2>1 DEF newcost
  <2>4. <<0, 1>>[1 + (handled % 2)] = 0 /\ <<0, 1>>[2 - (handled % 2)] = 1
    BY <2>1
  <2>5. linkhandler(<<0, 1>>[1 + (handled % 2)], <<0, 1>>[2 - (handled % 2)],
                    <<20, 1>>[1 + (handled \div 2)], n)
    BY <1>3, <2>3, <2>4 DEF n
  <2>6. (IF handled = 0 THEN {20000} ELSE {}) = IF handled < 2 THEN {20000} ELSE {}
    BY <2>1
  <2> QED BY <1>2, <2>1, <2>2, <2>5, <2>6
<1>4. CASE handled % 2 = 1 /\ linkhandler(1, 0, newcost(net), net)
  <2>1. handled \in {1, 3} /\ started = NODE_NUM + 1
    BY <1>0, <1>1, <1>4
  <2>2. newcost(net) = <<20, 1>>[1 + (handled \div 2)]
    BY <1>1, <2>1 DEF newcost
  <2>3. <<0, 1>>[1 + (handled % 2)] = 1 /\ <<0, 1>>[2 - (handled % 2)] = 0
    BY <2>1
  <2>4. linkhandler(<<0, 1>>[1 + (handled % 2)], <<0, 1>>[2 - (handled % 2)],
                    <<20, 1>>[1 + (handled \div 2)], net)
    BY <1>4, <2>2, <2>3
  <2>5. Pending = IF handled < 2 THEN {20000} ELSE {}
    BY <1>0, <2>1 DEF Pending
  <2> QED BY <1>1, <1>2, <2>1, <2>4, <2>5, InMediumIs
<1> QED BY <1>3, <1>4 DEF LinkChange

LEMMA LinkChangeRefines ==
  ASSUME NoDelayIsZero, IInv, LinkChange
  PROVE  ClockInv' /\ Order!LinkChange
<1> DEFINE a == <<0, 1>>[1 + (handled % 2)]
           b == <<0, 1>>[2 - (handled % 2)]
           c == <<20, 1>>[1 + (handled \div 2)]
<1>0. NODE_NUM \in Nat
  BY DvSimAssumption
<1>1. PICK n : /\ Orderly(n) /\ Channels(n) = InMedium
               /\ linkhandler(a, b, c, n)
               /\ handled \in 0..3 /\ handled' = handled + 1 /\ started' = started
               /\ started = NODE_NUM + 1
               /\ Changes(n.evlist, IF handled < 2 THEN {20000} ELSE {})
               /\ handled = 0 => n.clocktime = 10000
               /\ handled = 2 => n.clocktime = 20000
  BY HandlerCalled
<1>2. a \in Router /\ b \in neighbors[a] /\ c \in Nat
  <2>1. 0 \in Router /\ 1 \in neighbors[0] /\ 1 \in Router /\ 0 \in neighbors[1]
    BY DvSimAssumption
  <2>2. CASE handled \in {0, 2}
    <3>1. a = 0 /\ b = 1
      BY <2>2
    <3>2. c \in Nat
      BY <2>2
    <3> HIDE DEF a, b, c
    <3> QED BY <2>1, <3>1, <3>2
  <2>3. CASE handled \in {1, 3}
    <3>1. a = 1 /\ b = 0
      BY <2>3
    <3>2. c \in Nat
      BY <2>3
    <3> HIDE DEF a, b, c
    <3> QED BY <2>1, <3>1, <3>2
  <2>4. handled \in {0, 1, 2, 3}
    BY <1>1
  <2> QED BY <2>2, <2>3, <2>4
<1>3. SameClock(n, net') /\ Order!linkhandler(a, b, c, InMedium)
  <2> HIDE DEF a, b, c
  <2> QED BY <1>1, <1>2, HandlerSends
<1>4. /\ Orderly(net') /\ net'.clocktime = n.clocktime
      /\ Changes(net'.evlist, IF handled < 2 THEN {20000} ELSE {})
  BY <1>1, <1>3 DEF SameClock
<1>5. Pending' = IF handled < 2 THEN {20000} ELSE {}
  BY <1>0, <1>1 DEF Pending
<1>6. ClockInv'
  <2>1. /\ started' \in 0..(NODE_NUM + 1) /\ handled' \in 0..4
        /\ ~(started' <= NODE_NUM)
        /\ handled' = 1 => net'.clocktime = 10000
        /\ handled' = 3 => net'.clocktime = 20000
    BY <1>0, <1>1, <1>4
  <2> QED BY <1>4, <1>5, <2>1 DEF ClockInv
<1>7. Initialised = NODE_NUM /\ Initialised' = Initialised
  BY <1>0, <1>1 DEF Initialised
<1>8. handled % 2 = 1 \/ (Order!Idle /\ TRUE \in BOOLEAN)
  BY <1>1, <1>7 DEF Order!Idle
<1>9. handled < 2 * Len(<<20, 1>>)
  BY <1>1
<1>10. Order!LinkChange
  BY <1>1, <1>3, <1>7, <1>8, <1>9 DEF Order!LinkChange
<1> QED BY <1>6, <1>10

LEMMA InitIInv == Init => IInv
<1>1. Order!Init => Order!IInv
  BY AssumedOfDv, Order!InitIInv
<1> QED BY <1>1, InitRefines DEF IInv

\* A step of the program is a step of Dv.tla or, when the link changes are
\* scheduled, none.
LEMMA StepRefines ==
  ASSUME NoDelayIsZero, IInv, [Next]_vars
  PROVE  IInv' /\ [Order!Next]_(Order!vars)
<1>1. CASE RtInit
  <2>1. ClockInv' /\ Order!RtInit
    BY <1>1, RtInitRefines
  <2>2. Order!IInv'
    BY <2>1, AssumedOfDv, Order!RtInitStep DEF IInv
  <2> QED BY <2>1, <2>2 DEF IInv, Order!Next
<1>2. CASE FromLayer2
  <2>1. ClockInv' /\ \E r \in Order!Router : Order!FromLayer2(r)
    BY <1>2, FromLayer2Refines
  <2>2. Order!IInv'
    BY <2>1, AssumedOfDv, Order!FromLayer2Step DEF IInv
  <2> QED BY <2>1, <2>2 DEF IInv, Order!Next
<1>3. CASE LinkChange
  <2>1. ClockInv' /\ Order!LinkChange
    BY <1>3, LinkChangeRefines
  <2>2. Order!IInv'
    BY <2>1, AssumedOfDv, Order!LinkChangeStep DEF IInv
  <2> QED BY <2>1, <2>2 DEF IInv, Order!Next
<1>4. CASE ScheduleChanges
  <2>1. ClockInv' /\ UNCHANGED Order!vars
    BY <1>4, ScheduleRefines
  <2>2. Order!IInv'
    BY <2>1, AssumedOfDv, Order!StutterStep DEF IInv
  <2> QED BY <2>1, <2>2 DEF IInv
<1>5. CASE UNCHANGED vars
  <2>1. ClockInv' /\ UNCHANGED Order!vars
    BY <1>5 DEF vars, IInv, ClockInv, Pending, InMedium, Initialised, Order!vars
  <2>2. Order!IInv'
    BY <2>1, AssumedOfDv, Order!StutterStep DEF IInv
  <2> QED BY <2>1, <2>2 DEF IInv
<1> QED BY <1>1, <1>2, <1>3, <1>4, <1>5 DEF Next

-----------------------------------------------------------------------------
\* In any network, and for any delays above 0, every step of the program on
\* its event list (dv.c:143-156, 175-206) is a step of the program over a
\* medium that keeps the order of packets, or none.  The link may change at
\* any time there: whether the routers have stopped at 10000 depends on the
\* network.
THEOREM ClockRefines ==
  ASSUME NoDelayIsZero
  PROVE  Spec => Order!Spec
<1>1. Init => IInv /\ Order!Init
  BY InitIInv, InitRefines
<1>2. IInv /\ [Next]_vars => IInv' /\ [Order!Next]_(Order!vars)
  BY StepRefines
<1> QED BY <1>1, <1>2, PTL DEF Spec, Order!Spec

\* It is what dv.c:143-144 promises, for node.c with dt_updated as node.c:77
\* leaves it.
THEOREM KeepsPromise ==
  ASSUME NoDelayIsZero, Garbage = BOOLEAN
  PROVE  Spec => ImplementsDv
<1>1. ASSUME NEW node, NEW table, NEW costs, NEW n
      PROVE  Order!recalculate(node, table, costs, n) <=>
             AnyTime!recalculate(node, table, costs, n)
  BY DEF Order!recalculate, AnyTime!recalculate, Order!Recalculated, AnyTime!Recalculated,
         Order!Router, AnyTime!Router, Order!Least, AnyTime!Least,
         Order!send_dt_to_neighbors, AnyTime!send_dt_to_neighbors
<1>2. Order!Init => AnyTime!Init
  BY DEF Order!Init, AnyTime!Init, Order!Router, AnyTime!Router
<1>3. Order!RtInit => AnyTime!RtInit
  BY DEF Order!RtInit, AnyTime!RtInit, Order!rtinit, AnyTime!rtinit,
         Order!InitialTable, AnyTime!InitialTable, Order!Router, AnyTime!Router,
         Order!send_dt_to_neighbors, AnyTime!send_dt_to_neighbors
<1>4. (\E r \in Order!Router : Order!FromLayer2(r)) =>
      \E r \in AnyTime!Router : AnyTime!FromLayer2(r)
  BY <1>1 DEF Order!FromLayer2, AnyTime!FromLayer2, Order!Idle, AnyTime!Idle,
              Order!rtupdate, AnyTime!rtupdate, Order!Router, AnyTime!Router
<1>5. Order!LinkChange => AnyTime!LinkChange
  BY <1>1 DEF Order!LinkChange, AnyTime!LinkChange, Order!Idle, AnyTime!Idle,
              Order!linkhandler, AnyTime!linkhandler, Order!Router, AnyTime!Router,
              Order!Quiet, AnyTime!Quiet
<1>6. [Order!Next]_(Order!vars) => [AnyTime!Next]_(AnyTime!vars)
  BY <1>3, <1>4, <1>5 DEF Order!Next, AnyTime!Next, Order!vars, AnyTime!vars
<1> QED BY <1>2, <1>6, ClockRefines, PTL DEF ImplementsDv, Order!Spec, AnyTime!Spec

\* "medium can not reorder" (dv.c:144), and so the packet of a router that
\* arrives last at a neighbour carries its vector of now.
THEOREM NewestArrives ==
  ASSUME NoDelayIsZero
  PROVE  Spec => []NewestArrivesLast
<1>1. Order!Spec => []Order!NewestArrivesLast
  BY AssumedOfDv, Order!NewestArrives
<1>2. Order!NewestArrivesLast => NewestArrivesLast
  BY DEF NewestArrivesLast, Order!NewestArrivesLast, AnyTime!NewestArrivesLast,
         AnyTime!Router, Order!Router, AnyTime!Vector, Order!Vector
<1> QED BY <1>1, <1>2, ClockRefines, PTL

\* In any connected network without free links, whenever main() prints that
\* there are "no packets in medium" every router's vector is the lengths of
\* the shortest ways, for the costs of that time.
THEOREM QuietIsShortest ==
  ASSUME NoDelayIsZero, AnyTime!Connected, AnyTime!LinksCost
  PROVE  Spec => []QuietMeansShortest
<1>1. Order!Connected /\ Order!LinksCost
  BY DEF AnyTime!Connected, Order!Connected, AnyTime!Routes, Order!Routes,
         AnyTime!LinksCost, Order!LinksCost, AnyTime!Router, Order!Router
<1>2. Order!Spec => []Order!QuietMeansShortest
  BY <1>1, AssumedOfDv, Order!QuietIsShortest
<1>3. Order!QuietMeansShortest => QuietMeansShortest
  BY DEF QuietMeansShortest, AnyTime!QuietMeansShortest, Order!QuietMeansShortest,
         AnyTime!Quiet, Order!Quiet, AnyTime!Idle, Order!Idle,
         AnyTime!Vector, Order!Vector, AnyTime!Shortest, Order!Shortest,
         AnyTime!Routes, Order!Routes, AnyTime!RouteLength, Order!RouteLength,
         AnyTime!Least, Order!Least, AnyTime!Router, Order!Router
<1> QED BY <1>2, <1>3, ClockRefines, PTL
=============================================================================

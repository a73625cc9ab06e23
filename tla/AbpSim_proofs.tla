---------------------------- MODULE AbpSim_proofs ----------------------------
(***************************************************************************)
(* Proofs about the alternating-bit program with its clock, for every      *)
(* number of messages, every set of delays up to 10 and every set of gaps  *)
(* between arrivals: the event list is in order, and, when TIMEOUT is      *)
(* above 20, no time-out is premature and the program is Abp.tla.          *)
(*                                                                         *)
(* The order of the list is inductive by itself (ListInv).  That no        *)
(* time-out is premature is not: it needs that the timer is pending while  *)
(* A waits and only then, that a packet is under way only then, and how    *)
(* much later than the packet it is due (ClockInv).                        *)
(***************************************************************************)
EXTENDS AbpSim, EventList_proofs, FiniteSetTheorems

Types == /\ A_state \in Stat
         /\ B_state \in {"WAIT_0", "WAIT_1"}
         /\ unacked_packet \in Pkt
         /\ nsim \in Nat

\* The list is in order and holds one next arrival.
ListInv == /\ Types
           /\ Orderly(net)
           /\ AtMostOne(net, FROM_LAYER5, Entity)
           /\ ~Absent(net, FROM_LAYER5, {A})

\* A's timer is due after every packet and the answer to it.
Guarded(n) ==
  \A t, p \in Range(n) : IsTimer(t, A) =>
     /\ InTransit(p, B) => t.evtime >= p.evtime + TIMEOUT - 10
     /\ InTransit(p, A) => t.evtime >= p.evtime + TIMEOUT - 20

ClockInv == /\ ListInv
            /\ AtMostOne(net, FROM_LAYER3, Entity)
            /\ Absent(net, TIMER_INTERRUPT, {B})
            /\ ~Absent(net, TIMER_INTERRUPT, {A}) <=> A_state \in Waiting
            /\ ~Absent(net, FROM_LAYER3, Entity) => ~Absent(net, TIMER_INTERRUPT, {A})
            /\ Guarded(net)

-----------------------------------------------------------------------------
\* The order of the list.

LEMMA PacketTypes ==
  ASSUME Types
  PROVE  /\ \A b \in {0, 1} : AckPkt(b) \in Pkt
         /\ Bit(A_state) \in {0, 1} /\ Bit(B_state) \in {0, 1}
         /\ make_pkt(Bit(A_state), 0, LayerFiveData(nsim)) \in Pkt
<1>1. LayerFiveData(nsim) \in Letters
  BY LettersAreLetters DEF Types
<1>2. Bit(A_state) \in {0, 1} /\ Bit(B_state) \in {0, 1}
  BY DEF Bit
<1>3. \A b \in {0, 1} : AckPkt(b) \in Pkt
  BY Fields DEF AckPkt
<1> QED BY <1>1, <1>2, <1>3, Fields

LEMMA InitList == Init => ListInv
<1> SUFFICES ASSUME Init PROVE ListInv
  OBVIOUS
<1>1. Types
  BY LettersAreLetters DEF Init, EntitiesInit, Types, Stat, Pkt
<1>2. PICK gap \in Gaps : net = generate_next_arrival(<< >>, gap)
  BY DEF Init
<1>3. ArrivalLeft(net)
  BY <1>2, EmptyList, NextArrivalLeft, AbpSimAssumption
<1> QED BY <1>1, <1>3 DEF ListInv, ArrivalLeft

LEMMA StepList == ListInv /\ [Next]_vars => ListInv'
<1> SUFFICES ASSUME ListInv, [Next]_vars PROVE ListInv'
  OBVIOUS
<1>1. /\ Types /\ Orderly(net) /\ AtMostOne(net, FROM_LAYER5, Entity)
      /\ ~Absent(net, FROM_LAYER5, {A})
  BY DEF ListInv
<1>2. net # << >> =>
        /\ Orderly(Taken(net))
        /\ Head(net) \in Event
        /\ Head(net).evtype = FROM_LAYER5 => Absent(Taken(net), FROM_LAYER5, Entity)
        /\ Head(net).evtype # FROM_LAYER5 => ArrivalLeft(Taken(net))
  BY <1>1, TakenList
<1>3. SUFFICES Types' /\ ArrivalLeft(net')
  BY DEF ListInv, ArrivalLeft
<1>4. ASSUME NEW how \in Ways, NEW gap \in Gaps, FromLayer5(how, gap)
      PROVE  Types' /\ ArrivalLeft(net')
  <2> DEFINE n == generate_next_arrival(Taken(net), gap)
             p == make_pkt(Bit(A_state), 0, LayerFiveData(nsim))
  <2>1. ArrivalLeft(n)
    BY <1>2, <1>4, NextArrivalLeft, AbpSimAssumption DEF FromLayer5, Takes
  <2>2. A_output(LayerFiveData(nsim), n, how) /\ nsim' = nsim + 1
    BY <1>4 DEF FromLayer5
  <2>3. p \in Pkt
    BY <1>1, PacketTypes
  <2>4. ArrivalLeft(starttimer(tolayer3(n, A, p, how), A, TIMEOUT))
    BY <2>1, <2>3, Kinds, ArrivalStays, AbpSimAssumption
  <2> HIDE DEF n
  <2>5. ArrivalLeft(net')
    BY <2>1, <2>2, <2>4 DEF A_output
  <2>6. Types'
    <3>1. unacked_packet' \in Pkt
      BY <1>1, <2>2, <2>3 DEF A_output, Types
    <3>2. A_state' \in Stat /\ B_state' = B_state
      BY <1>1, <2>2 DEF A_output, Types, Stat
    <3> QED BY <1>1, <2>2, <3>1, <3>2 DEF Types
  <2> QED BY <2>5, <2>6
<1>5. ASSUME FromLayer3AtA PROVE Types' /\ ArrivalLeft(net')
  <2>1. ArrivalLeft(Taken(net))
    BY <1>2, <1>5, Kinds DEF FromLayer3AtA, Takes
  <2>2. A_input(Head(net).pkt, Taken(net)) /\ nsim' = nsim
    BY <1>5 DEF FromLayer3AtA
  <2>3. ArrivalLeft(stoptimer(Taken(net), A))
    BY <2>1, Kinds, ArrivalStays
  <2>4. ArrivalLeft(net')
    BY <2>1, <2>2, <2>3 DEF A_input
  <2> QED BY <1>1, <2>2, <2>4 DEF A_input, Types, Stat
<1>6. ASSUME NEW how \in Ways, FromLayer3AtB(how) PROVE Types' /\ ArrivalLeft(net')
  <2>1. ArrivalLeft(Taken(net))
    BY <1>2, <1>6, Kinds DEF FromLayer3AtB, Takes
  <2>2. B_input(Head(net).pkt, Taken(net), how) /\ nsim' = nsim
    BY <1>6 DEF FromLayer3AtB
  <2>3. \A b \in {0, 1} : ArrivalLeft(tolayer3(Taken(net), B, AckPkt(b), how))
    BY <1>1, <2>1, Kinds, PacketTypes, ArrivalStays
  <2>4. Bit(B_state) \in {0, 1} /\ 1 - Bit(B_state) \in {0, 1}
    BY <1>1, PacketTypes
  <2>5. ArrivalLeft(net')
    BY <2>1, <2>2, <2>3, <2>4 DEF B_input
  <2> QED BY <1>1, <2>2, <2>5 DEF B_input, Types
<1>7. ASSUME NEW how \in Ways, TimerInterrupt(how) PROVE Types' /\ ArrivalLeft(net')
  <2>1. ArrivalLeft(Taken(net))
    BY <1>2, <1>7, Kinds DEF TimerInterrupt, Takes
  <2>2. A_timerinterrupt(Taken(net), how) /\ nsim' = nsim
    BY <1>7 DEF TimerInterrupt
  <2>3. ArrivalLeft(Resend(Taken(net), how))
    BY <1>1, <2>1, Kinds, ArrivalStays, AbpSimAssumption DEF Resend, Types
  <2>4. ArrivalLeft(net')
    BY <2>1, <2>2, <2>3 DEF A_timerinterrupt
  <2> QED BY <1>1, <2>2, <2>4 DEF A_timerinterrupt, Types
<1>8. ASSUME Terminate \/ UNCHANGED vars PROVE Types' /\ ArrivalLeft(net')
  BY <1>1, <1>8 DEF Terminate, vars, Types, ArrivalLeft
<1> QED BY <1>4, <1>5, <1>6, <1>7, <1>8 DEF Next

LEMMA ListInvariance == Spec => []ListInv
  BY InitList, StepList, PTL DEF Spec

\* insertevent, tolayer3 and stoptimer keep the list in the order of time and
\* clear of events of the past, and the main loop never finds it without the
\* next arrival, nor with two: at whatever times packets, arrivals and
\* time-outs come.
THEOREM ListStaysInOrder == Spec => []EventsInOrder
<1>1. ListInv => EventsInOrder
  <2> SUFFICES ASSUME ListInv PROVE EventsInOrder
    OBVIOUS
  <2> DEFINE S == {k \in DOMAIN net : net[k].evtype = FROM_LAYER5}
  <2>1. /\ net \in Seq(Event) /\ Sorted(net)
        /\ AtMostOne(net, FROM_LAYER5, Entity)
        /\ ~Absent(net, FROM_LAYER5, {A})
    BY DEF ListInv, Orderly
  <2>2. /\ DOMAIN net = 1..Len(net)
        /\ \A i \in 1..Len(net) : net[i].eventity \in Entity
    BY <2>1, EventFacts
  <2>3. PICK k \in 1..Len(net) : net[k].evtype = FROM_LAYER5
    BY <2>1 DEF Absent, Of
  <2>4. S = {k}
    BY <2>1, <2>2, <2>3 DEF AtMostOne, Of
  <2>5. Cardinality(S) = 1
    <3> HIDE DEF S
    <3> QED BY <2>4, FS_Singleton
  <2> QED BY <2>1, <2>5 DEF EventsInOrder, Sorted
<1> QED BY <1>1, ListInvariance, PTL

-----------------------------------------------------------------------------
\* The timer and the packet it guards.

\* One packet at most is under way, and B has no timer.
Quiet(n) == Absent(n, FROM_LAYER3, Entity) /\ Absent(n, TIMER_INTERRUPT, {B})

\* What a list keeps of ClockInv, whatever A's state.
Watched(n) == /\ Orderly(n)
              /\ AtMostOne(n, FROM_LAYER3, Entity)
              /\ Absent(n, TIMER_INTERRUPT, {B})
              /\ Guarded(n)

LEMMA InRange ==
  ASSUME NEW n, Orderly(n)
  PROVE  /\ Range(n) \subseteq Event
         /\ \A t, S : Absent(n, t, S) <=> \A x \in Range(n) : ~Of(x, t, S)
         /\ \A x \in Range(n) : /\ x.evtime \in Nat /\ x.eventity \in Entity
                                /\ IsTimer(x, A) <=> Of(x, TIMER_INTERRUPT, {A})
                                /\ \A e : InTransit(x, e) <=> Of(x, FROM_LAYER3, {e})
                                /\ \A e \in Entity : InTransit(x, e) => Of(x, FROM_LAYER3, Entity)
<1>1. /\ Range(n) \subseteq Event
      /\ \A t, S : Absent(n, t, S) <=> \A x \in Range(n) : ~Of(x, t, S)
  BY RangeOfList DEF Orderly
<1>2. ASSUME NEW x \in Range(n)
      PROVE  /\ x.evtime \in Nat /\ x.eventity \in Entity
             /\ IsTimer(x, A) <=> Of(x, TIMER_INTERRUPT, {A})
             /\ \A e : InTransit(x, e) <=> Of(x, FROM_LAYER3, {e})
             /\ \A e \in Entity : InTransit(x, e) => Of(x, FROM_LAYER3, Entity)
  <2>1. x.evtime \in Nat /\ x.eventity \in Entity
    BY <1>1 DEF Event
  <2> QED BY <2>1 DEF IsTimer, InTransit, Of
<1> QED BY <1>1, <1>2

LEMMA QuietIsWatched ==
  ASSUME NEW n, Orderly(n), Quiet(n)
  PROVE  Watched(n)
<1>1. \A x \in Range(n) : ~InTransit(x, A) /\ ~InTransit(x, B)
  BY InRange, Kinds DEF Quiet
<1>2. Guarded(n)
  BY <1>1 DEF Guarded
<1>3. AtMostOne(n, FROM_LAYER3, Entity)
  BY DEF Quiet, Absent, AtMostOne
<1> QED BY <1>2, <1>3 DEF Watched, Quiet

\* Time passes alike for the timer and the packet.
LEMMA TakenWatched ==
  ASSUME NEW n, Watched(n), n # << >>
  PROVE  Watched(Taken(n))
<1> DEFINE m == Taken(n)
           now == Head(n).evtime
<1>1. n \in Seq(Event) /\ Sorted(n) /\ Orderly(n)
  BY DEF Watched, Orderly
<1>2. Orderly(m)
  BY <1>1, TakenUntimed
<1>3. AtMostOne(m, FROM_LAYER3, Entity) /\ Absent(m, TIMER_INTERRUPT, {B})
  BY <1>1, TakenKinds DEF Watched
<1>4. /\ now \in Nat
      /\ \A y \in Range(m) : \E x \in Range(n) :
           /\ y.evtime = x.evtime - now /\ y.evtype = x.evtype /\ y.eventity = x.eventity
  <2>1. Head(n) \in Range(n)
    BY <1>1, TakenRange
  <2>2. Head(n).evtime \in Nat
    BY <1>1, <2>1, InRange
  <2> QED BY <1>1, <2>2, TakenRange
<1> HIDE DEF m, now
<1>5. Guarded(m)
  <2> SUFFICES ASSUME NEW t \in Range(m), NEW p \in Range(m), IsTimer(t, A)
               PROVE  /\ InTransit(p, B) => t.evtime >= p.evtime + TIMEOUT - 10
                      /\ InTransit(p, A) => t.evtime >= p.evtime + TIMEOUT - 20
    BY DEF Guarded
  <2>1. PICK s \in Range(n) :
          /\ t.evtime = s.evtime - now /\ t.evtype = s.evtype /\ t.eventity = s.eventity
    BY <1>4
  <2>2. PICK q \in Range(n) :
          /\ p.evtime = q.evtime - now /\ p.evtype = q.evtype /\ p.eventity = q.eventity
    BY <1>4
  <2>3. /\ IsTimer(s, A)
        /\ InTransit(p, A) => InTransit(q, A)
        /\ InTransit(p, B) => InTransit(q, B)
    BY <2>1, <2>2 DEF IsTimer, InTransit
  <2>4. /\ InTransit(q, B) => s.evtime >= q.evtime + TIMEOUT - 10
        /\ InTransit(q, A) => s.evtime >= q.evtime + TIMEOUT - 20
    BY <2>3 DEF Watched, Guarded
  <2>5. s.evtime \in Nat /\ q.evtime \in Nat
    BY <1>1, InRange
  <2> QED BY <1>4, <2>1, <2>2, <2>3, <2>4, <2>5, AbpSimAssumption
<1> QED BY <1>2, <1>3, <1>5 DEF Watched, m

\* A packet sent when none is under way arrives within 10.
LEMMA FirstDelivery ==
  ASSUME NEW n, Orderly(n), Absent(n, FROM_LAYER3, Entity),
         NEW e \in Entity, NEW p \in Pkt, NEW how \in Ways
  PROVE  /\ Delivery(n, e, p, how).evtime \in 1..10
         /\ InTransit(Delivery(n, e, p, how), Peer(e))
         /\ \A d : InTransit(Delivery(n, e, p, how), d) => d = Peer(e)
         /\ ~IsTimer(Delivery(n, e, p, how), A)
<1>1. Peer(e) \in Entity
  BY DEF Peer, Entity, A, B
<1>2. \A i \in 1..Len(n) : ~InTransit(n[i], Peer(e))
  BY <1>1 DEF Absent, Of, InTransit
<1>3. LastTime(n, Peer(e)) = 0
  BY <1>1, <1>2, LastTimeIsLast
<1>4. how.delay \in 1..10
  BY EventListAssumption DEF Ways
<1>5. Delivery(n, e, p, how).evtime = 0 + how.delay
  BY <1>3 DEF Delivery
<1> QED BY <1>4, <1>5, Kinds DEF Delivery, InTransit, IsTimer

\* A sends a packet and sets the timer.
LEMMA SendAndWatch ==
  ASSUME NEW n, Orderly(n), Quiet(n), Absent(n, TIMER_INTERRUPT, {A}),
         NEW p \in Pkt, NEW how \in Ways
  PROVE  LET m == starttimer(tolayer3(n, A, p, how), A, TIMEOUT)
         IN  Watched(m) /\ ~Absent(m, TIMER_INTERRUPT, {A})
<1> DEFINE l == tolayer3(n, A, p, how)
           m == starttimer(l, A, TIMEOUT)
           d == Delivery(n, A, p, how)
           a == Alarm(A, TIMEOUT)
<1>1. /\ Orderly(l)
      /\ \A x \in Range(l) : x \in Range(n) \/ x = d
      /\ \A y, S : y # FROM_LAYER3 => (Absent(l, y, S) <=> Absent(n, y, S))
      /\ \A S : Absent(n, FROM_LAYER3, S) => AtMostOne(l, FROM_LAYER3, S)
  BY Kinds, PacketSent
<1>2. /\ Absent(l, TIMER_INTERRUPT, {A}) /\ Absent(l, TIMER_INTERRUPT, {B})
      /\ AtMostOne(l, FROM_LAYER3, Entity)
  BY <1>1, Kinds DEF Quiet
<1> HIDE DEF l
<1>3. /\ Orderly(m)
      /\ Range(m) \subseteq Range(l) \cup {a}
      /\ \A y, S : y # TIMER_INTERRUPT => (AtMostOne(l, y, S) => AtMostOne(m, y, S))
      /\ ~Absent(m, TIMER_INTERRUPT, {A})
      /\ Absent(m, TIMER_INTERRUPT, {B}) <=> Absent(l, TIMER_INTERRUPT, {B})
  BY <1>1, Kinds, TimerStarted, AbpSimAssumption
<1> HIDE DEF m
<1>4. Guarded(m)
  <2> SUFFICES ASSUME NEW t \in Range(m), NEW q \in Range(m), IsTimer(t, A)
               PROVE  /\ InTransit(q, B) => t.evtime >= q.evtime + TIMEOUT - 10
                      /\ InTransit(q, A) => t.evtime >= q.evtime + TIMEOUT - 20
    BY DEF Guarded
  <2>1. t = a
    BY <1>1, <1>2, <1>3, InRange
  <2>2. t.evtime = TIMEOUT
    BY <2>1 DEF Alarm
  <2>3. ASSUME InTransit(q, A) \/ InTransit(q, B) PROVE q = d
    <3>1. q # a
      BY <2>3, EventTypes
    <3>2. q \in Range(l)
      BY <1>3, <3>1
    <3>3. q \notin Range(n)
      BY <2>3, InRange, Kinds DEF Quiet
    <3> QED BY <1>1, <3>2, <3>3
  <2>4. d.evtime \in 1..10 /\ ~InTransit(d, A)
    <3>1. d.evtime \in 1..10 /\ (InTransit(d, A) => A = Peer(A))
      BY Kinds, FirstDelivery DEF Quiet
    <3> QED BY <3>1, Kinds
  <2> HIDE DEF d, a
  <2> QED BY <2>2, <2>3, <2>4, AbpSimAssumption
<1>5. Watched(m)
  BY <1>1, <1>2, <1>3, <1>4, Kinds DEF Watched
<1> QED BY <1>3, <1>5 DEF m, l

\* B answers the only packet, in good time for A's timer.
LEMMA Answer ==
  ASSUME NEW n, Orderly(n), Quiet(n), NEW p \in Pkt, NEW how \in Ways,
         \A t \in Range(n) : IsTimer(t, A) => t.evtime >= TIMEOUT - 10
  PROVE  LET m == tolayer3(n, B, p, how)
         IN  /\ Watched(m)
             /\ Absent(m, TIMER_INTERRUPT, {A}) <=> Absent(n, TIMER_INTERRUPT, {A})
<1> DEFINE m == tolayer3(n, B, p, how)
           d == Delivery(n, B, p, how)
<1>1. /\ Orderly(m)
      /\ \A x \in Range(m) : x \in Range(n) \/ x = d
      /\ \A y, S : y # FROM_LAYER3 => (Absent(m, y, S) <=> Absent(n, y, S))
      /\ \A S : Absent(n, FROM_LAYER3, S) => AtMostOne(m, FROM_LAYER3, S)
  BY Kinds, PacketSent
<1>2. /\ Absent(m, TIMER_INTERRUPT, {A}) <=> Absent(n, TIMER_INTERRUPT, {A})
      /\ Absent(m, TIMER_INTERRUPT, {B})
      /\ AtMostOne(m, FROM_LAYER3, Entity)
  BY <1>1, Kinds DEF Quiet
<1> HIDE DEF m
<1>3. d.evtime \in 1..10 /\ ~InTransit(d, B) /\ ~IsTimer(d, A)
  <2>1. d.evtime \in 1..10 /\ (InTransit(d, B) => B = Peer(B)) /\ ~IsTimer(d, A)
    BY Kinds, FirstDelivery DEF Quiet
  <2> QED BY <2>1, Kinds
<1> HIDE DEF d
<1>4. Guarded(m)
  <2> SUFFICES ASSUME NEW t \in Range(m), NEW q \in Range(m), IsTimer(t, A)
               PROVE  /\ InTransit(q, B) => t.evtime >= q.evtime + TIMEOUT - 10
                      /\ InTransit(q, A) => t.evtime >= q.evtime + TIMEOUT - 20
    BY DEF Guarded
  <2>1. t.evtime >= TIMEOUT - 10
    BY <1>1, <1>3
  <2>2. t.evtime \in Nat
    BY <1>1, InRange
  <2>3. ASSUME InTransit(q, A) \/ InTransit(q, B) PROVE q = d
    <3>1. q \notin Range(n)
      BY <2>3, InRange, Kinds DEF Quiet
    <3> QED BY <1>1, <3>1
  <2> QED BY <1>3, <2>1, <2>2, <2>3, AbpSimAssumption
<1>5. Watched(m)
  BY <1>1, <1>2, <1>4 DEF Watched
<1> QED BY <1>2, <1>5 DEF m

LEMMA ArrivalWatched ==
  ASSUME NEW n, Watched(n), NEW gap \in Gaps
  PROVE  LET m == generate_next_arrival(n, gap)
         IN  /\ Watched(m)
             /\ \A t, S : t # FROM_LAYER5 => (Absent(m, t, S) <=> Absent(n, t, S))
<1> DEFINE m == generate_next_arrival(n, gap)
           a == Arrival(gap)
<1>1. gap \in Nat /\ Orderly(n)
  BY AbpSimAssumption DEF Watched
<1>2. /\ Orderly(m) /\ Range(m) = Range(n) \cup {a}
      /\ \A t, S : t # FROM_LAYER5 => /\ Absent(m, t, S) <=> Absent(n, t, S)
                                      /\ AtMostOne(n, t, S) => AtMostOne(m, t, S)
  BY <1>1, NextArrival
<1>3. ~IsTimer(a, A) /\ ~InTransit(a, A) /\ ~InTransit(a, B)
  BY Kinds DEF Arrival, IsTimer, InTransit
<1> HIDE DEF m, a
<1>4. Guarded(m)
  BY <1>2, <1>3 DEF Watched, Guarded
<1>5. Watched(m)
  BY <1>2, <1>4, Kinds DEF Watched
<1> QED BY <1>2, <1>5 DEF m

\* What the head of the list says of the rest.
LEMMA TakenKind ==
  ASSUME NEW n, Watched(n), n # << >>
  PROVE  /\ Head(n).evtype = FROM_LAYER5 =>
              /\ Absent(Taken(n), TIMER_INTERRUPT, {A}) <=> Absent(n, TIMER_INTERRUPT, {A})
              /\ Absent(Taken(n), FROM_LAYER3, Entity) <=> Absent(n, FROM_LAYER3, Entity)
         /\ Head(n).evtype = FROM_LAYER3 =>
              /\ Absent(Taken(n), TIMER_INTERRUPT, {A}) <=> Absent(n, TIMER_INTERRUPT, {A})
              /\ ~Absent(n, FROM_LAYER3, Entity)
              /\ Quiet(Taken(n))
         /\ IsTimer(Head(n), A) =>
              /\ ~Absent(n, TIMER_INTERRUPT, {A})
              /\ Absent(Taken(n), TIMER_INTERRUPT, {A})
              /\ Absent(n, FROM_LAYER3, Entity) => Quiet(Taken(n))
<1> DEFINE m == Taken(n)
           h == Head(n)
<1>1. /\ n \in Seq(Event) /\ Sorted(n) /\ Orderly(n)
      /\ AtMostOne(n, FROM_LAYER3, Entity) /\ Absent(n, TIMER_INTERRUPT, {B})
      /\ AtMostOne(n, TIMER_INTERRUPT, {A})
  BY Kinds DEF Watched, Orderly
<1>3. /\ h = n[1] /\ h \in Event /\ h \in Range(n)
      /\ \A t, S :
           /\ Absent(n, t, S) => Absent(m, t, S)
           /\ AtMostOne(n, t, S) /\ Of(h, t, S) => Absent(m, t, S)
           /\ ~Absent(n, t, S) /\ ~Of(h, t, S) => ~Absent(m, t, S)
  BY <1>1, TakenEvents, TakenKinds, TakenRange
<1>4. \A t, S : Of(h, t, S) => ~Absent(n, t, S)
  BY <1>1, <1>3, InRange
<1>5. /\ \A t, S : Of(h, t, S) => h.evtype = t
      /\ h.evtype = FROM_LAYER3 => Of(h, FROM_LAYER3, Entity)
      /\ IsTimer(h, A) => Of(h, TIMER_INTERRUPT, {A})
  BY <1>3 DEF Of, Event, IsTimer
<1> HIDE DEF m, h
<1>6. ASSUME h.evtype = FROM_LAYER5
      PROVE  /\ Absent(m, TIMER_INTERRUPT, {A}) <=> Absent(n, TIMER_INTERRUPT, {A})
             /\ Absent(m, FROM_LAYER3, Entity) <=> Absent(n, FROM_LAYER3, Entity)
  BY <1>3, <1>5, <1>6, Kinds
<1>7. ASSUME h.evtype = FROM_LAYER3
      PROVE  /\ Absent(m, TIMER_INTERRUPT, {A}) <=> Absent(n, TIMER_INTERRUPT, {A})
             /\ ~Absent(n, FROM_LAYER3, Entity)
             /\ Quiet(m)
  BY <1>1, <1>3, <1>4, <1>5, <1>7, Kinds DEF Quiet
<1>8. ASSUME IsTimer(h, A)
      PROVE  /\ ~Absent(n, TIMER_INTERRUPT, {A})
             /\ Absent(m, TIMER_INTERRUPT, {A})
             /\ Absent(n, FROM_LAYER3, Entity) => Quiet(m)
  BY <1>1, <1>3, <1>4, <1>5, <1>8 DEF Quiet
<1> QED BY <1>6, <1>7, <1>8 DEF m, h

\* When the timer goes off nothing is under way: the packet would be due
\* before it.
LEMMA TimerAlone ==
  ASSUME TIMEOUT > 20, NEW n, Watched(n), n # << >>, IsTimer(Head(n), A)
  PROVE  Absent(n, FROM_LAYER3, Entity)
<1>1. n \in Seq(Event) /\ Sorted(n) /\ Orderly(n)
  BY DEF Watched, Orderly
<1>2. Head(n) \in Range(n) /\ \A x \in Range(n) : Head(n).evtime <= x.evtime
  BY <1>1, TakenRange
<1>3. ASSUME NEW p \in Range(n), Of(p, FROM_LAYER3, Entity) PROVE FALSE
  <2>1. InTransit(p, A) \/ InTransit(p, B)
    BY <1>3 DEF Of, InTransit, Entity
  <2>2. Head(n).evtime >= p.evtime + TIMEOUT - 10 \/ Head(n).evtime >= p.evtime + TIMEOUT - 20
    BY <1>2, <2>1 DEF Watched, Guarded
  <2>3. Head(n).evtime \in Nat /\ p.evtime \in Nat /\ Head(n).evtime <= p.evtime
    BY <1>1, <1>2, InRange
  <2> QED BY <2>2, <2>3, AbpSimAssumption
<1> QED BY <1>1, <1>3, InRange

-----------------------------------------------------------------------------
\* No time-out is premature.

\* What ClockInv says of the list n while A waits, or does not.
Clocked(n, waiting) ==
  /\ Watched(n)
  /\ ~Absent(n, TIMER_INTERRUPT, {A}) <=> waiting
  /\ ~Absent(n, FROM_LAYER3, Entity) => waiting

LEMMA ClockInvIs == ClockInv <=> ListInv /\ Clocked(net, A_state \in Waiting)
  BY DEF ClockInv, Clocked, ListInv, Watched

LEMMA InitClock == Init => ClockInv
<1> SUFFICES ASSUME Init PROVE ClockInv
  OBVIOUS
<1>1. A_state \notin Waiting
  BY DEF Init, EntitiesInit, Waiting
<1>2. PICK gap \in Gaps : net = generate_next_arrival(<< >>, gap)
  BY DEF Init
<1>3. Watched(<< >>)
  BY EmptyList, QuietIsWatched DEF Quiet
<1>4. /\ Watched(net)
      /\ \A t, S : t # FROM_LAYER5 => Absent(net, t, S)
  BY <1>2, <1>3, EmptyList, ArrivalWatched
<1>5. Clocked(net, A_state \in Waiting)
  BY <1>1, <1>4, Kinds DEF Clocked
<1> QED BY <1>5, InitList, ClockInvIs

LEMMA StepClock ==
  ASSUME TIMEOUT > 20, ClockInv, [Next]_vars PROVE ClockInv'
<1>1. ListInv /\ Clocked(net, A_state \in Waiting) /\ ListInv'
  BY ClockInvIs, StepList
<1>2. Types /\ Watched(net) /\ Orderly(net)
  BY <1>1 DEF ListInv, Clocked, Watched
<1>3. SUFFICES Clocked(net', A_state' \in Waiting)
  <2>1. ClockInv' <=> ListInv' /\ Clocked(net', A_state' \in Waiting)
    BY DEF ClockInv, Clocked, ListInv, Watched
  <2> QED BY <1>1, <1>3, <2>1
<1>4. net # << >> => /\ Watched(Taken(net)) /\ Orderly(Taken(net))
                     /\ Head(net).pkt \in Pkt
  BY <1>2, TakenWatched, TakenUntimed
<1>5. ASSUME NEW how \in Ways, NEW gap \in Gaps, FromLayer5(how, gap)
      PROVE  Clocked(net', A_state' \in Waiting)
  <2> DEFINE n == generate_next_arrival(Taken(net), gap)
             p == make_pkt(Bit(A_state), 0, LayerFiveData(nsim))
  <2>1. net # << >> /\ Head(net).evtype = FROM_LAYER5
    BY <1>5 DEF FromLayer5, Takes
  <2>2. A_output(LayerFiveData(nsim), n, how)
    BY <1>5 DEF FromLayer5
  <2>3. Clocked(Taken(net), A_state \in Waiting)
    BY <1>1, <1>2, <1>4, <2>1, TakenKind DEF Clocked
  <2>4. Watched(n) /\ \A t, S : t # FROM_LAYER5 =>
                         (Absent(n, t, S) <=> Absent(Taken(net), t, S))
    BY <2>3, ArrivalWatched DEF Clocked
  <2>5. p \in Pkt
    BY <1>2, PacketTypes
  <2> HIDE DEF n, p
  <2>6. Clocked(n, A_state \in Waiting)
    BY <2>3, <2>4, Kinds DEF Clocked
  <2>7. CASE A_state \notin Waiting
    <3>1. Orderly(n) /\ Quiet(n) /\ Absent(n, TIMER_INTERRUPT, {A})
      BY <2>6, <2>7 DEF Clocked, Quiet, Watched
    <3> DEFINE m == starttimer(tolayer3(n, A, p, how), A, TIMEOUT)
    <3>2. Watched(m) /\ ~Absent(m, TIMER_INTERRUPT, {A})
      BY <2>5, <3>1, SendAndWatch
    <3>3. net' = m /\ A_state' \in Waiting
      BY <2>2, <2>7 DEF A_output, Waiting, p
    <3> HIDE DEF m
    <3> QED BY <3>2, <3>3 DEF Clocked
  <2>8. CASE A_state \in Waiting
    <3>1. net' = n /\ A_state' = A_state
      BY <2>2, <2>8 DEF A_output
    <3> QED BY <2>6, <3>1
  <2> QED BY <2>7, <2>8
<1>6. ASSUME FromLayer3AtA PROVE Clocked(net', A_state' \in Waiting)
  <2> DEFINE n == Taken(net)
  <2>1. net # << >> /\ Head(net).evtype = FROM_LAYER3
    BY <1>6 DEF FromLayer3AtA, Takes
  <2>2. A_input(Head(net).pkt, n)
    BY <1>6 DEF FromLayer3AtA
  <2>3. /\ Orderly(n) /\ Watched(n) /\ Quiet(n)
        /\ Absent(n, TIMER_INTERRUPT, {A}) <=> Absent(net, TIMER_INTERRUPT, {A})
    BY <1>2, <1>4, <2>1, TakenKind
  <2> HIDE DEF n
  <2>4. CASE IsAwaitedAck(Head(net).pkt)
    <3> DEFINE m == stoptimer(n, A)
    <3>1. /\ Orderly(m) /\ Absent(m, TIMER_INTERRUPT, {A})
          /\ Absent(m, FROM_LAYER3, Entity) <=> Absent(n, FROM_LAYER3, Entity)
          /\ Absent(m, TIMER_INTERRUPT, {B}) <=> Absent(n, TIMER_INTERRUPT, {B})
      BY <2>3, Kinds, TimerStopped
    <3>2. net' = m /\ A_state' \notin Waiting
      BY <2>2, <2>4 DEF A_input, Waiting
    <3> HIDE DEF m
    <3>3. Quiet(m) /\ Watched(m)
      BY <2>3, <3>1, QuietIsWatched DEF Quiet
    <3> QED BY <3>1, <3>2, <3>3 DEF Clocked, Quiet
  <2>5. CASE ~IsAwaitedAck(Head(net).pkt)
    <3>1. net' = n /\ A_state' = A_state
      BY <2>2, <2>5 DEF A_input
    <3> QED BY <1>1, <2>3, <3>1 DEF Clocked, Quiet
  <2> QED BY <2>4, <2>5
<1>7. ASSUME NEW how \in Ways, FromLayer3AtB(how)
      PROVE  Clocked(net', A_state' \in Waiting)
  <2> DEFINE n == Taken(net)
             h == Head(net)
  <2>1. net # << >> /\ h.evtype = FROM_LAYER3 /\ h.eventity = B
    BY <1>7 DEF FromLayer3AtB, Takes
  <2>2. B_input(h.pkt, n, how)
    BY <1>7 DEF FromLayer3AtB
  <2>3. /\ Orderly(n) /\ Watched(n) /\ Quiet(n)
        /\ Absent(n, TIMER_INTERRUPT, {A}) <=> Absent(net, TIMER_INTERRUPT, {A})
        /\ ~Absent(net, FROM_LAYER3, Entity)
    BY <1>2, <1>4, <2>1, TakenKind
  <2>4. A_state \in Waiting
    BY <1>1, <2>3 DEF Clocked
  <2>5. \A t \in Range(n) : IsTimer(t, A) => t.evtime >= TIMEOUT - 10
    <3>1. /\ net \in Seq(Event) /\ Sorted(net)
      BY <1>2 DEF Orderly
    <3>2. /\ h \in Range(net) /\ InTransit(h, B)
          /\ \A y \in Range(n) : \E x \in Range(net) :
               /\ y.evtime = x.evtime - h.evtime
               /\ y.evtype = x.evtype
               /\ y.eventity = x.eventity
      BY <2>1, <3>1, TakenRange DEF InTransit
    <3> HIDE DEF n, h
    <3>3. \A x \in Range(net) : IsTimer(x, A) => x.evtime >= h.evtime + TIMEOUT - 10
      BY <1>2, <3>2 DEF Watched, Guarded
    <3>4. \A x \in Range(net) : x.evtime \in Nat
      BY <1>2, InRange
    <3> SUFFICES ASSUME NEW t \in Range(n), IsTimer(t, A) PROVE t.evtime >= TIMEOUT - 10
      OBVIOUS
    <3>5. PICK x \in Range(net) : t.evtime = x.evtime - h.evtime /\ IsTimer(x, A)
      BY <3>2 DEF IsTimer
    <3> QED BY <3>2, <3>3, <3>4, <3>5, AbpSimAssumption
  <2>6. \A p \in Pkt : LET m == tolayer3(n, B, p, how)
                       IN  Watched(m) /\ (Absent(m, TIMER_INTERRUPT, {A})
                                            <=> Absent(n, TIMER_INTERRUPT, {A}))
    BY <2>3, <2>5, Answer
  <2>7. /\ AckPkt(Bit(B_state)) \in Pkt /\ AckPkt(1 - Bit(B_state)) \in Pkt
        /\ A_state' = A_state
    <3>1. Bit(B_state) \in {0, 1} /\ 1 - Bit(B_state) \in {0, 1}
      BY <1>2, PacketTypes
    <3> QED BY <1>2, <2>2, <3>1, PacketTypes DEF B_input
  <2>8. net' = n \/ \E p \in Pkt : net' = tolayer3(n, B, p, how)
    BY <2>2, <2>7 DEF B_input
  <2> HIDE DEF n
  <2>9. Watched(net') /\ (Absent(net', TIMER_INTERRUPT, {A})
                            <=> Absent(n, TIMER_INTERRUPT, {A}))
    BY <2>3, <2>6, <2>8
  <2> QED BY <1>1, <2>3, <2>4, <2>7, <2>9 DEF Clocked
<1>8. ASSUME NEW how \in Ways, TimerInterrupt(how)
      PROVE  Clocked(net', A_state' \in Waiting)
  <2> DEFINE n == Taken(net)
             m == starttimer(tolayer3(n, A, unacked_packet, how), A, TIMEOUT)
  <2>1. net # << >> /\ IsTimer(Head(net), A)
    BY <1>8 DEF TimerInterrupt, Takes, IsTimer
  <2>2. A_timerinterrupt(n, how)
    BY <1>8 DEF TimerInterrupt
  <2>3. /\ Orderly(n) /\ Quiet(n) /\ Absent(n, TIMER_INTERRUPT, {A})
        /\ ~Absent(net, TIMER_INTERRUPT, {A})
    BY <1>2, <1>4, <2>1, TakenKind, TimerAlone
  <2>4. A_state \in Waiting
    BY <1>1, <2>3 DEF Clocked
  <2>5. Watched(m) /\ ~Absent(m, TIMER_INTERRUPT, {A})
    BY <1>2, <2>3, SendAndWatch DEF Types
  <2>6. net' = m /\ A_state' = A_state
    BY <2>2, <2>4 DEF A_timerinterrupt, Resend
  <2> HIDE DEF m
  <2> QED BY <2>4, <2>5, <2>6 DEF Clocked
<1>9. ASSUME Terminate \/ UNCHANGED vars PROVE Clocked(net', A_state' \in Waiting)
  BY <1>1, <1>9 DEF Terminate, vars
<1> QED BY <1>5, <1>6, <1>7, <1>8, <1>9 DEF Next

\* With a time-out above the longest round trip, A's timer never goes off
\* while the packet it guards, or the answer to it, is on its way: there is
\* one packet at most, and the timer is due TIMEOUT - 20 after it at least.
THEOREM TimeoutsComeLate ==
  ASSUME TIMEOUT > 20
  PROVE  Spec => []NoPrematureTimeout
<1>1. ClockInv => NoPrematureTimeout
  <2> SUFFICES ASSUME ClockInv PROVE NoPrematureTimeout
    OBVIOUS
  <2> DEFINE packets == {k \in DOMAIN net : net[k].evtype = FROM_LAYER3}
  <2>1. /\ net \in Seq(Event) /\ Orderly(net)
        /\ AtMostOne(net, FROM_LAYER3, Entity)
        /\ ~Absent(net, FROM_LAYER3, Entity) => ~Absent(net, TIMER_INTERRUPT, {A})
        /\ Guarded(net)
    BY DEF ClockInv, ListInv, Orderly
  <2>2. /\ DOMAIN net = 1..Len(net)
        /\ Range(net) = {net[i] : i \in DOMAIN net}
        /\ \A i \in 1..Len(net) : net[i].eventity \in Entity /\ net[i].evtime \in Nat
    BY <2>1, EventFacts DEF Range
  <2>3. \A k, m \in packets : k = m
    BY <2>1, <2>2 DEF AtMostOne, Of
  <2>4. Cardinality(packets) <= 1
    <3>1. CASE packets = {}
      <4>1. Cardinality(packets) = 0
        <5> HIDE DEF packets
        <5> QED BY <3>1, FS_EmptySet
      <4> HIDE DEF packets
      <4> QED BY <4>1
    <3>2. CASE packets # {}
      <4>1. PICK k : packets = {k}
        BY <2>3, <3>2
      <4>2. Cardinality(packets) = 1
        <5> HIDE DEF packets
        <5> QED BY <4>1, FS_Singleton
      <4> HIDE DEF packets
      <4> QED BY <4>2
    <3> QED BY <3>1, <3>2
  <2>5. ASSUME NEW k \in packets
        PROVE  \E m \in DOMAIN net :
                 IsTimer(net[m], A) /\ net[m].evtime >= net[k].evtime + TIMEOUT - 20
    <3>1. k \in 1..Len(net) /\ Of(net[k], FROM_LAYER3, Entity)
      BY <2>2 DEF Of
    <3>2. PICK m \in 1..Len(net) : Of(net[m], TIMER_INTERRUPT, {A})
      BY <2>1, <3>1 DEF Absent
    <3>3. IsTimer(net[m], A) /\ (InTransit(net[k], A) \/ InTransit(net[k], B))
      BY <3>1, <3>2 DEF IsTimer, InTransit, Of, Entity
    <3>4. net[m] \in Range(net) /\ net[k] \in Range(net)
      BY <2>2, <3>1, <3>2
    <3>5. \/ net[m].evtime >= net[k].evtime + TIMEOUT - 10
          \/ net[m].evtime >= net[k].evtime + TIMEOUT - 20
      BY <2>1, <3>3, <3>4 DEF Guarded
    <3>6. net[m].evtime >= net[k].evtime + TIMEOUT - 20
      BY <2>2, <3>1, <3>2, <3>5, AbpSimAssumption
    <3> QED BY <2>2, <3>2, <3>3, <3>6
  <2> HIDE DEF packets
  <2>6. Cardinality(packets) <= 1 /\ \A k \in packets : \E m \in DOMAIN net :
            IsTimer(net[m], A) /\ net[m].evtime >= net[k].evtime + TIMEOUT - 20
    BY <2>4, <2>5
  <2> QED BY <2>6 DEF NoPrematureTimeout, packets
<1>2. ClockInv /\ [Next]_vars => ClockInv'
  BY StepClock
<1> QED BY <1>1, <1>2, InitClock, PTL DEF Spec

-----------------------------------------------------------------------------
\* The program with the clock is the program without it.

\* The medium of Abp.tla is that of FifoMedium.tla, and its entities are those
\* of AbpSim.tla.
LEMMA SameServices ==
  /\ AnyTime!A = A /\ AnyTime!B = B /\ AnyTime!Fates = Fates
  /\ AnyTime!EmptyMedium = EmptyMedium
  /\ \A n, e, p, f : AnyTime!Transmit(n, e, p, f) = Transmit(n, e, p, f)
  /\ \A n, e, t : AnyTime!SetTimer(n, e, t) = SetTimer(n, e, t)
  /\ \A n, e : AnyTime!ClearTimer(n, e) = ClearTimer(n, e)
  /\ \A n, e : AnyTime!PacketTaken(n, e) = PacketTaken(n, e)
  /\ \A n, e : AnyTime!TimerTaken(n, e) = TimerTaken(n, e)
<1>1. AnyTime!A = A /\ AnyTime!B = B /\ AnyTime!Entity = Entity
  BY DEF A, B, Entity, AnyTime!A, AnyTime!B, AnyTime!Entity
<1>2. AnyTime!Fates = Fates
  BY DEF Fates, AnyTime!Fates
<1>3. AnyTime!EmptyMedium = EmptyMedium
  BY <1>1 DEF EmptyMedium, AnyTime!EmptyMedium
<1>4. /\ \A p, f : AnyTime!Damage(p, f) = Damage(p, f)
      /\ \A e : AnyTime!Peer(e) = Peer(e)
  BY DEF Damage, Peer, AnyTime!Damage, AnyTime!Peer
<1>5. \A n, e, p, f : AnyTime!Transmit(n, e, p, f) = Transmit(n, e, p, f)
  BY <1>4, Zenon DEF Transmit, AnyTime!Transmit
<1>6. /\ \A n, e, t : AnyTime!SetTimer(n, e, t) = SetTimer(n, e, t)
      /\ \A n, e : AnyTime!ClearTimer(n, e) = ClearTimer(n, e)
      /\ \A n, e : AnyTime!PacketTaken(n, e) = PacketTaken(n, e)
      /\ \A n, e : AnyTime!TimerTaken(n, e) = TimerTaken(n, e)
  BY Zenon DEF SetTimer, ClearTimer, PacketTaken, TimerTaken, AnyTime!SetTimer,
               AnyTime!ClearTimer, AnyTime!PacketTaken, AnyTime!TimerTaken
<1> QED BY <1>1, <1>2, <1>3, <1>5, <1>6

LEMMA SameEntities ==
  /\ AnyTime!Waiting = Waiting
  /\ \A s : AnyTime!Bit(s) = Bit(s)
  /\ \A s, a, d : AnyTime!make_pkt(s, a, d) = make_pkt(s, a, d)
  /\ \A k : AnyTime!LayerFiveData(k) = LayerFiveData(k)
  /\ \A p : AnyTime!corrupt(p) <=> corrupt(p)
  /\ \A p : AnyTime!IsAwaitedAck(p) <=> IsAwaitedAck(p)
  /\ \A b : AnyTime!AckPkt(b) = AckPkt(b)
<1>1. AnyTime!Waiting = Waiting /\ \A s : AnyTime!Bit(s) = Bit(s)
  BY DEF Waiting, Bit, AnyTime!Waiting, AnyTime!Bit
<1>2. \A p : AnyTime!calc_checksum(p) = calc_checksum(p)
  BY DEF calc_checksum, AnyTime!calc_checksum
<1>3. /\ \A s, a, d : AnyTime!make_pkt(s, a, d) = make_pkt(s, a, d)
      /\ \A p : AnyTime!corrupt(p) <=> corrupt(p)
  BY <1>2 DEF make_pkt, corrupt, AnyTime!make_pkt, AnyTime!corrupt
<1>4. \A k : AnyTime!LayerFiveData(k) = LayerFiveData(k)
  BY DEF LayerFiveData, AnyTime!LayerFiveData
<1>5. \A p : AnyTime!IsAwaitedAck(p) <=> IsAwaitedAck(p)
  BY <1>1, <1>3 DEF IsAwaitedAck, AnyTime!IsAwaitedAck
<1>6. \A b : AnyTime!AckPkt(b) = AckPkt(b)
  BY <1>3 DEF AckPkt, NoData, AnyTime!AckPkt, AnyTime!NoData
<1> QED BY <1>1, <1>3, <1>4, <1>5, <1>6

LEMMA InitAnyTime == Init => AnyTime!Init
<1> SUFFICES ASSUME Init PROVE AnyTime!Init
  OBVIOUS
<1>1. PICK gap \in Gaps : net = generate_next_arrival(<< >>, gap)
  BY DEF Init
<1>2. Untimed(net) = Untimed(<< >>)
  BY <1>1, EmptyList, NextArrival, AbpSimAssumption
<1>3. Untimed(<< >>) = EmptyMedium
  <2>1. \A e \in Entity : Arriving(<< >>, e) = << >>
    BY EmptyList
  <2>2. DOMAIN << >> = {}
    OBVIOUS
  <2> QED BY <2>1, <2>2 DEF Untimed, EmptyMedium
<1>4. AnyTime!EntitiesInit
  BY DEF Init, EntitiesInit, NoData, AnyTime!EntitiesInit, AnyTime!NoData
<1> QED BY <1>2, <1>3, <1>4, SameServices DEF Init, AnyTime!Init

\* A handler sees the same medium with and without the clock, and so leaves
\* the same behind.
LEMMA StepAnyTime ==
  ASSUME TIMEOUT > 20, ClockInv, [Next]_vars PROVE [AnyTime!Next]_AnyTime!vars
<1> DEFINE u == Untimed(net)
           n == Taken(net)
           h == Head(net)
<1>1. Types /\ Orderly(net) /\ ~Absent(net, FROM_LAYER5, {A}) /\ Watched(net)
  BY ClockInvIs DEF ListInv, Clocked
<1>2. u \in Medium /\ \A e \in Entity : u.chan[e] = Arriving(net, e)
  BY <1>1, UntimedMedium DEF Orderly
<1>3. net # << >>
  BY <1>1, EmptyList
<1>4. /\ Orderly(n) /\ h.pkt \in Pkt
      /\ h.evtype = FROM_LAYER5 => Untimed(n) = u
      /\ \A e \in Entity : InTransit(h, e) =>
           u.chan[e] # << >> /\ h.pkt = Head(u.chan[e]) /\ Untimed(n) = PacketTaken(u, e)
      /\ \A e \in Entity : IsTimer(h, e) => u.timer[e] /\ Untimed(n) = TimerTaken(u, e)
  BY <1>1, <1>3, TakenUntimed
<1> HIDE DEF u, n, h
<1>5. \A how \in Ways : how.fate \in Fates
  BY DEF Ways
<1>6. ASSUME NEW how \in Ways, NEW gap \in Gaps, FromLayer5(how, gap)
      PROVE  AnyTime!FromLayer5(how.fate)
  <2> DEFINE l == generate_next_arrival(n, gap)
             p == make_pkt(Bit(A_state), 0, LayerFiveData(nsim))
  <2>1. /\ status = "running" /\ nsim # nsimmax /\ nsim' = nsim + 1
        /\ h.evtype = FROM_LAYER5
        /\ A_output(LayerFiveData(nsim), l, how)
    BY <1>6 DEF FromLayer5, Takes, h, n
  <2>2. Orderly(l) /\ Untimed(l) = u
    BY <1>4, <2>1, NextArrival, AbpSimAssumption
  <2>3. p \in Pkt
    BY <1>1, PacketTypes
  <2> HIDE DEF l
  <2>4. Untimed(starttimer(tolayer3(l, A, p, how), A, TIMEOUT))
          = SetTimer(Transmit(u, A, p, how.fate), A, TIMEOUT)
    <3> DEFINE k == tolayer3(l, A, p, how)
    <3>1. Orderly(k) /\ Untimed(k) = Transmit(u, A, p, how.fate)
      BY <2>2, <2>3, Kinds, PacketSent
    <3> HIDE DEF k
    <3>2. Untimed(starttimer(k, A, TIMEOUT)) = SetTimer(Untimed(k), A, TIMEOUT)
      BY <3>1, Kinds, TimerStarted, AbpSimAssumption
    <3> QED BY <3>1, <3>2 DEF k
  <2>5. AnyTime!A_output(LayerFiveData(nsim), u, how.fate)
    <3>1. CASE A_state \notin Waiting
      <4>1. /\ net' = starttimer(tolayer3(l, A, p, how), A, TIMEOUT)
            /\ unacked_packet' = p
            /\ A_state' = IF A_state = "WAIT_0" THEN "WAIT_ACK_0" ELSE "WAIT_ACK_1"
            /\ accepted' = Append(accepted, LayerFiveData(nsim))
            /\ UNCHANGED <<B_state, received, status, delivered>>
        BY <2>1, <3>1 DEF A_output
      <4>2. Untimed(net') = SetTimer(Transmit(u, A, p, how.fate), A, TIMEOUT)
        BY <2>4, <4>1
      <4> QED BY <3>1, <4>1, <4>2, SameServices, SameEntities DEF AnyTime!A_output
    <3>2. CASE A_state \in Waiting
      <4>1. /\ net' = l
            /\ UNCHANGED <<A_state, B_state, unacked_packet, received, status,
                           accepted, delivered>>
        BY <2>1, <3>2 DEF A_output
      <4>2. Untimed(net') = u
        BY <2>2, <4>1
      <4> QED BY <3>2, <4>1, <4>2, SameEntities DEF AnyTime!A_output
    <3> QED BY <3>1, <3>2
  <2> QED BY <2>1, <2>5, SameEntities DEF AnyTime!FromLayer5, AnyTime!Simulating, u
<1>7. ASSUME FromLayer3AtA PROVE AnyTime!FromLayer3AtA
  <2>1. /\ status = "running" /\ nsim # nsimmax /\ nsim' = nsim
        /\ InTransit(h, A)
        /\ A_input(h.pkt, n)
    BY <1>7 DEF FromLayer3AtA, Takes, InTransit, h, n
  <2>2. u.chan[A] # << >> /\ h.pkt = Head(u.chan[A]) /\ Untimed(n) = PacketTaken(u, A)
    BY <1>4, <2>1, Kinds
  <2>3. Untimed(stoptimer(n, A)) = ClearTimer(PacketTaken(u, A), A)
    BY <1>4, <2>2, Kinds, TimerStopped
  <2>4. AnyTime!A_input(h.pkt, PacketTaken(u, A))
    <3>1. CASE IsAwaitedAck(h.pkt)
      <4>1. /\ net' = stoptimer(n, A)
            /\ A_state' = IF A_state = "WAIT_ACK_0" THEN "WAIT_1" ELSE "WAIT_0"
            /\ received' = received + 1
            /\ status' = IF received + 1 >= ExitAfter THEN "exited" ELSE status
            /\ UNCHANGED <<B_state, unacked_packet, accepted, delivered>>
        BY <2>1, <3>1 DEF A_input
      <4>2. Untimed(net') = ClearTimer(PacketTaken(u, A), A)
        BY <2>3, <4>1
      <4> QED BY <3>1, <4>1, <4>2, SameServices, SameEntities DEF AnyTime!A_input
    <3>2. CASE ~IsAwaitedAck(h.pkt)
      <4>1. /\ net' = n
            /\ UNCHANGED <<A_state, B_state, unacked_packet, received, status,
                           accepted, delivered>>
        BY <2>1, <3>2 DEF A_input
      <4>2. Untimed(net') = PacketTaken(u, A)
        BY <2>2, <4>1
      <4> QED BY <3>2, <4>1, <4>2, SameEntities DEF AnyTime!A_input
    <3> QED BY <3>1, <3>2
  <2> QED BY <2>1, <2>2, <2>4, SameServices
          DEF AnyTime!FromLayer3AtA, AnyTime!Simulating, u
<1>8. ASSUME NEW how \in Ways, FromLayer3AtB(how) PROVE AnyTime!FromLayer3AtB(how.fate)
  <2>1. /\ status = "running" /\ nsim # nsimmax /\ nsim' = nsim
        /\ InTransit(h, B)
        /\ B_input(h.pkt, n, how)
    BY <1>8 DEF FromLayer3AtB, Takes, InTransit, h, n
  <2>2. u.chan[B] # << >> /\ h.pkt = Head(u.chan[B]) /\ Untimed(n) = PacketTaken(u, B)
    BY <1>4, <2>1, Kinds
  <2>3. Len(u.chan[A]) < 1
    <3>1. net \in Seq(Event) /\ AtMostOne(net, FROM_LAYER3, Entity)
      BY <1>1 DEF Watched, Orderly
    <3>2. /\ 1 \in 1..Len(net) /\ h = net[1]
      BY <1>1, <1>3, TakenEvents DEF Orderly, h
    <3>3. ASSUME NEW i \in 1..Len(net), InTransit(net[i], A) PROVE FALSE
      <4>1. Of(net[i], FROM_LAYER3, Entity) /\ Of(net[1], FROM_LAYER3, Entity)
        BY <2>1, <3>2, <3>3, Kinds DEF InTransit, Of
      <4>2. i = 1
        BY <3>1, <3>2, <4>1 DEF AtMostOne
      <4> QED BY <2>1, <3>2, <3>3, <4>2, Kinds DEF InTransit
    <3>4. u.chan[A] = << >>
      BY <1>2, <3>1, <3>3, Kinds, NothingArrives
    <3> QED BY <3>4
  <2>4. \A p \in Pkt : Untimed(tolayer3(n, B, p, how))
                         = Transmit(PacketTaken(u, B), B, p, how.fate)
    BY <1>4, <2>2, Kinds, PacketSent
  <2>5. \A b \in {0, 1} : AckPkt(b) \in Pkt
    BY <1>1, PacketTypes
  <2>6. Bit(B_state) \in {0, 1} /\ 1 - Bit(B_state) \in {0, 1}
    BY <1>1, PacketTypes
  <2> DEFINE q == h.pkt
             bit == Bit(B_state)
  <2>7. AnyTime!B_input(q, PacketTaken(u, B), how.fate)
    <3>1. UNCHANGED <<A_state, unacked_packet, received, status, accepted>>
      BY <2>1 DEF B_input
    <3>2. CASE /\ corrupt(q) \/ q.seqnum = 1 - bit
               /\ net' = tolayer3(n, B, AckPkt(1 - bit), how)
               /\ UNCHANGED <<B_state, delivered>>
      <4>1. Untimed(net') = Transmit(PacketTaken(u, B), B, AckPkt(1 - bit), how.fate)
        BY <2>4, <2>5, <2>6, <3>2
      <4> QED BY <3>1, <3>2, <4>1, SameServices, SameEntities DEF AnyTime!B_input
    <3>3. CASE /\ ~corrupt(q) /\ q.seqnum = bit
               /\ delivered' = Append(delivered, q.payload)
               /\ net' = tolayer3(n, B, AckPkt(bit), how)
               /\ B_state' = IF B_state = "WAIT_0" THEN "WAIT_1" ELSE "WAIT_0"
      <4>1. Untimed(net') = Transmit(PacketTaken(u, B), B, AckPkt(bit), how.fate)
        BY <2>4, <2>5, <2>6, <3>3
      <4> QED BY <3>1, <3>3, <4>1, SameServices, SameEntities DEF AnyTime!B_input
    <3>4. CASE /\ ~corrupt(q) /\ q.seqnum \notin {0, 1}
               /\ net' = n
               /\ UNCHANGED <<B_state, delivered>>
      <4>1. Untimed(net') = PacketTaken(u, B)
        BY <2>2, <3>4
      <4> QED BY <3>1, <3>4, <4>1, SameEntities DEF AnyTime!B_input
    <3> QED BY <2>1, <3>2, <3>3, <3>4 DEF B_input
  <2> QED BY <2>1, <2>2, <2>3, <2>7, SameServices
          DEF AnyTime!FromLayer3AtB, AnyTime!Simulating, u
<1>9. ASSUME NEW how \in Ways, TimerInterrupt(how) PROVE AnyTime!TimerInterrupt(how.fate)
  <2>1. /\ status = "running" /\ nsim # nsimmax /\ nsim' = nsim
        /\ IsTimer(h, A)
        /\ A_timerinterrupt(n, how)
    BY <1>9 DEF TimerInterrupt, Takes, IsTimer, h, n
  <2>2. u.timer[A] /\ Untimed(n) = TimerTaken(u, A)
    BY <1>4, <2>1, Kinds
  <2>3. Len(u.chan[B]) < 1
    <3>1. Absent(net, FROM_LAYER3, Entity) /\ net \in Seq(Event)
      BY <1>1, <1>3, <2>1, TimerAlone DEF h, Orderly
    <3>2. \A i \in 1..Len(net) : ~InTransit(net[i], B)
      BY <3>1, Kinds DEF Absent, Of, InTransit
    <3>3. u.chan[B] = << >>
      BY <1>2, <3>1, <3>2, Kinds, NothingArrives
    <3> QED BY <3>3
  <2>4. Untimed(Resend(n, how))
          = SetTimer(Transmit(TimerTaken(u, A), A, unacked_packet, how.fate), A, TIMEOUT)
    <3> DEFINE k == tolayer3(n, A, unacked_packet, how)
    <3>1. Orderly(k) /\ Untimed(k) = Transmit(TimerTaken(u, A), A, unacked_packet, how.fate)
      BY <1>1, <1>4, <2>2, Kinds, PacketSent DEF Types
    <3> HIDE DEF k
    <3>2. Untimed(starttimer(k, A, TIMEOUT)) = SetTimer(Untimed(k), A, TIMEOUT)
      BY <3>1, Kinds, TimerStarted, AbpSimAssumption
    <3> QED BY <3>1, <3>2 DEF k, Resend
  <2>5. AnyTime!A_timerinterrupt(TimerTaken(u, A), how.fate)
    <3>1. UNCHANGED <<A_state, B_state, unacked_packet, received, status,
                      accepted, delivered>>
      BY <2>1 DEF A_timerinterrupt
    <3>2. CASE A_state \in Waiting
      <4>1. Untimed(net')
              = SetTimer(Transmit(TimerTaken(u, A), A, unacked_packet, how.fate), A, TIMEOUT)
        BY <2>1, <2>4, <3>2 DEF A_timerinterrupt
      <4> QED BY <3>1, <3>2, <4>1, SameServices, SameEntities
              DEF AnyTime!A_timerinterrupt, AnyTime!Resend
    <3>3. CASE A_state \notin Waiting
      <4>1. Untimed(net') = TimerTaken(u, A)
        BY <2>1, <2>2, <3>3 DEF A_timerinterrupt
      <4> QED BY <3>1, <3>3, <4>1, SameEntities DEF AnyTime!A_timerinterrupt
    <3> QED BY <3>2, <3>3
  <2> QED BY <2>1, <2>2, <2>3, <2>5, SameServices
          DEF AnyTime!TimerInterrupt, AnyTime!Simulating, u
<1>10. ASSUME Terminate PROVE AnyTime!Terminate
  <2>1. Untimed(net') = Untimed(net)
    BY <1>10 DEF Terminate
  <2> QED BY <1>3, <1>10, <2>1 DEF Terminate, NothingToDo, AnyTime!Terminate
<1>11. ASSUME UNCHANGED vars PROVE UNCHANGED AnyTime!vars
  <2>1. Untimed(net') = Untimed(net)
    BY <1>11 DEF vars
  <2> QED BY <1>11, <2>1 DEF vars, AnyTime!vars
<1>12. ASSUME Next PROVE AnyTime!Next
  <2>1. CASE \E how \in Ways, gap \in Gaps : FromLayer5(how, gap)
    <3>1. \E fate \in AnyTime!Fates : AnyTime!FromLayer5(fate)
      BY <1>5, <1>6, <2>1, SameServices
    <3> QED BY <3>1 DEF AnyTime!Next
  <2>2. CASE \E how \in Ways : FromLayer3AtB(how)
    <3>1. \E fate \in AnyTime!Fates : AnyTime!FromLayer3AtB(fate)
      BY <1>5, <1>8, <2>2, SameServices
    <3> QED BY <3>1 DEF AnyTime!Next
  <2>3. CASE \E how \in Ways : TimerInterrupt(how)
    <3>1. \E fate \in AnyTime!Fates : AnyTime!TimerInterrupt(fate)
      BY <1>5, <1>9, <2>3, SameServices
    <3> QED BY <3>1 DEF AnyTime!Next
  <2>4. CASE FromLayer3AtA \/ Terminate
    BY <1>7, <1>10, <2>4 DEF AnyTime!Next
  <2> QED BY <1>12, <2>1, <2>2, <2>3, <2>4 DEF Next
<1> QED BY <1>11, <1>12

\* Every behaviour of the program with its clock is one of Abp.tla with at
\* most one packet in a channel, so what Abp_proofs.tla proves for a medium
\* that may take any time holds at the times main.c computes.
THEOREM ClockRefines ==
  ASSUME TIMEOUT > 20
  PROVE  Spec => ImplementsAbp
<1>1. ClockInv /\ [Next]_vars => ClockInv'
  BY StepClock
<1>2. ClockInv /\ [Next]_vars => [AnyTime!Next]_AnyTime!vars
  BY StepAnyTime
<1> QED BY <1>1, <1>2, InitClock, InitAnyTime, PTL
        DEF Spec, ImplementsAbp, AnyTime!Spec
=============================================================================

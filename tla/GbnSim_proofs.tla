---------------------------- MODULE GbnSim_proofs ----------------------------
(***************************************************************************)
(* Proofs about the go-back-N program with its clock, for every window     *)
(* size, every TIMEOUT however short, every set of delays up to 10 and     *)
(* every bound on the event list: packets to one entity stay one time unit *)
(* apart, and the program is Gbn.tla.                                      *)
(*                                                                         *)
(* Both rest on the same invariant: the list is in order, the packets on   *)
(* it are apart, and it holds one next arrival, two events at most for     *)
(* each message simulated and what the last time-out left.                 *)
(***************************************************************************)
EXTENDS GbnSim, EventList_proofs

Types == /\ base \in Int
         /\ nextseqnum \in Nat
         /\ expectedseqnum \in Nat
         /\ queue \in Seq(Pkt)
         /\ B_sndpkt \in Pkt
         /\ nsim \in 0..nsimmax

IInv == /\ Types
        /\ ArrivalLeft(net)
        /\ Len(net) <= ListCap + 2 * nsim + 1

-----------------------------------------------------------------------------
\* The packets and lists the handlers make.

LEMMA PacketTypes ==
  ASSUME Types
  PROVE  /\ make_pkt(nextseqnum, 0, LayerFiveData(nsim)) \in Pkt
         /\ make_pkt(0, expectedseqnum, NoData) \in Pkt
<1>1. LayerFiveData(nsim) \in Letters
  BY LettersAreLetters, GbnSimAssumption DEF Types
<1> QED BY <1>1, Fields DEF Types

\* What the main loop finds on the list, and what is left of it.
LEMMA Loop ==
  ASSUME IInv
  PROVE  /\ net # << >> /\ Len(net) \in Nat
         /\ Orderly(net) /\ Orderly(Taken(net))
         /\ Len(Taken(net)) = Len(net) - 1
         /\ Head(net).pkt \in Pkt
         /\ Head(net).evtype = FROM_LAYER5 => Absent(Taken(net), FROM_LAYER5, Entity)
         /\ Head(net).evtype # FROM_LAYER5 => ArrivalLeft(Taken(net))
<1>1. /\ Orderly(net) /\ AtMostOne(net, FROM_LAYER5, Entity)
      /\ ~Absent(net, FROM_LAYER5, {A})
  BY DEF IInv, ArrivalLeft
<1>2. net # << >> /\ net \in Seq(Event) /\ Sorted(net)
  BY <1>1, EmptyList DEF Orderly
<1>3. /\ Orderly(Taken(net))
      /\ Head(net).evtype = FROM_LAYER5 => Absent(Taken(net), FROM_LAYER5, Entity)
      /\ Head(net).evtype # FROM_LAYER5 => ArrivalLeft(Taken(net))
  BY <1>1, <1>2, TakenList
<1>4. Head(net).pkt \in Pkt
  BY <1>1, <1>2, TakenUntimed
<1>5. Len(net) \in Nat /\ Len(Taken(net)) = Len(net) - 1
  BY <1>2, TakenEvents, EventFacts
<1> QED BY <1>1, <1>2, <1>3, <1>4, <1>5

\* Restart stops the timer and may start it again.
LEMMA Restarted ==
  ASSUME NEW n, ArrivalLeft(n), NEW acknum
  PROVE  /\ ArrivalLeft(Restart(n, acknum))
         /\ Len(Restart(n, acknum)) <= Len(n) + 1
         /\ Untimed(Restart(n, acknum)) =
              IF acknum + 1 = nextseqnum THEN ClearTimer(Untimed(n), A)
              ELSE SetTimer(ClearTimer(Untimed(n), A), A, TIMEOUT)
<1> DEFINE m == stoptimer(n, A)
           k == starttimer(m, A, TIMEOUT)
<1>1. Orderly(n) /\ Len(n) \in Nat /\ TIMEOUT \in Nat
  BY EventFacts, GbnSimAssumption DEF ArrivalLeft, Orderly
<1>2. /\ ArrivalLeft(m) /\ Orderly(m) /\ Len(m) <= Len(n)
      /\ Untimed(m) = ClearTimer(Untimed(n), A)
  BY <1>1, Kinds, ArrivalStays, TimerStopped
<1> HIDE DEF m
<1>3. /\ ArrivalLeft(k) /\ Orderly(k) /\ Len(k) <= Len(m) + 1
      /\ Untimed(k) = SetTimer(Untimed(m), A, TIMEOUT)
  BY <1>1, <1>2, Kinds, ArrivalStays, TimerStarted
<1>4. Len(m) \in Nat /\ Len(k) \in Nat
  BY <1>2, <1>3, EventFacts DEF Orderly
<1> HIDE DEF k
<1>5. Restart(n, acknum) = IF acknum + 1 = nextseqnum THEN m ELSE k
  BY DEF Restart, m, k
<1> QED BY <1>1, <1>2, <1>3, <1>4, <1>5

\* A time-out adds the timer and at most the packets of the queue.
LEMMA Resent ==
  ASSUME NEW n, ArrivalLeft(n), queue \in Seq(Pkt),
         NEW hows \in [1..Len(queue) -> Ways]
  PROVE  /\ ArrivalLeft(Resend(n, hows))
         /\ Len(Resend(n, hows)) <= Len(n) + 1 + Len(queue)
         /\ \E s \in Survivals(Len(queue)) :
              Untimed(Resend(n, hows))
                = TransmitEach(SetTimer(Untimed(n), A, TIMEOUT), A, queue, s)
<1> DEFINE k == starttimer(n, A, TIMEOUT)
           m == tolayer3each(k, A, queue, hows)
<1>1. Orderly(n) /\ Len(n) \in Nat /\ TIMEOUT \in Nat /\ Len(queue) \in Nat
  BY EventFacts, GbnSimAssumption DEF ArrivalLeft, Orderly
<1>2. /\ ArrivalLeft(k) /\ Orderly(k) /\ Len(k) <= Len(n) + 1
      /\ Untimed(k) = SetTimer(Untimed(n), A, TIMEOUT)
  BY <1>1, Kinds, ArrivalStays, TimerStarted
<1> HIDE DEF k
<1>3. /\ ArrivalLeft(m) /\ Orderly(m) /\ Len(m) <= Len(k) + Len(queue)
      /\ \E s \in Survivals(Len(queue)) :
           Untimed(m) = TransmitEach(Untimed(k), A, queue, s)
  BY <1>2, Kinds, ArrivalStaysEach, PacketsSent
<1>4. Len(m) \in Nat /\ Len(k) \in Nat
  BY <1>2, <1>3, EventFacts DEF Orderly
<1> HIDE DEF m
<1>5. Resend(n, hows) = m
  BY DEF Resend, m, k
<1> QED BY <1>1, <1>2, <1>3, <1>4, <1>5

-----------------------------------------------------------------------------
\* The inductive invariant.

LEMMA InitIInv == Init => IInv
<1> SUFFICES ASSUME Init PROVE IInv
  OBVIOUS
<1>1. Types
  <2>1. B_sndpkt \in Pkt
    BY Fields DEF Init, EntitiesInit
  <2> QED BY <2>1, GbnSimAssumption DEF Init, EntitiesInit, Types
<1>2. PICK gap \in Gaps : net = generate_next_arrival(<< >>, gap)
  BY DEF Init
<1>3. gap \in Nat
  BY GbnSimAssumption
<1>4. ArrivalLeft(net) /\ Len(net) = 1
  <2> DEFINE z == << >>
  <2>1. Orderly(z) /\ Absent(z, FROM_LAYER5, Entity) /\ Len(z) = 0
    BY EmptyList
  <2> HIDE DEF z
  <2>2. /\ ArrivalLeft(generate_next_arrival(z, gap))
        /\ Len(generate_next_arrival(z, gap)) = 1
    <3>1. ArrivalLeft(generate_next_arrival(z, gap))
      BY <1>3, <2>1, NextArrivalLeft
    <3>2. Len(generate_next_arrival(z, gap)) = Len(z) + 1
      BY <1>3, <2>1, NextArrival
    <3> QED BY <2>1, <3>1, <3>2
  <2> QED BY <1>2, <2>2 DEF z
<1>5. nsim = 0 /\ ListCap \in Nat
  BY GbnSimAssumption DEF Init
<1>6. Len(net) <= ListCap + 2 * nsim + 1
  BY <1>4, <1>5
<1> QED BY <1>1, <1>4, <1>6 DEF IInv

LEMMA StepIInv == IInv /\ [Next]_vars => IInv'
<1> SUFFICES ASSUME IInv, [Next]_vars PROVE IInv'
  OBVIOUS
<1> DEFINE n == Taken(net)
           h == Head(net)
<1>1. /\ net # << >> /\ Len(net) \in Nat
      /\ Orderly(n) /\ Len(n) = Len(net) - 1
      /\ h.pkt \in Pkt
      /\ h.evtype = FROM_LAYER5 => Absent(n, FROM_LAYER5, Entity)
      /\ h.evtype # FROM_LAYER5 => ArrivalLeft(n)
  BY Loop
<1>2. /\ Types /\ ArrivalLeft(net) /\ Len(net) <= ListCap + 2 * nsim + 1
      /\ nsim \in Nat /\ nsim <= nsimmax
      /\ nsimmax \in Nat /\ ListCap \in Nat /\ TIMEOUT \in Nat
  BY GbnSimAssumption DEF IInv, Types
<1> HIDE DEF n, h
<1>3. ASSUME NEW how \in Ways, NEW gap \in Gaps, FromLayer5(how, gap) PROVE IInv'
  <2> DEFINE l == generate_next_arrival(n, gap)
             p == make_pkt(nextseqnum, 0, LayerFiveData(nsim))
             m == tolayer3(l, A, p, how)
             k == starttimer(m, A, TIMEOUT)
  <2>1. /\ nsim # nsimmax /\ nsim' = nsim + 1 /\ h.evtype = FROM_LAYER5
        /\ A_output(LayerFiveData(nsim), l, how)
    BY <1>3 DEF FromLayer5, Takes, h, n
  <2>2. gap \in Nat /\ p \in Pkt
    BY <1>2, GbnSimAssumption, PacketTypes
  <2>3. ArrivalLeft(l) /\ Orderly(l) /\ Len(l) = Len(net)
    BY <1>1, <2>1, <2>2, NextArrivalLeft, NextArrival
  <2> HIDE DEF l, p
  <2>4. ArrivalLeft(m) /\ Orderly(m) /\ Len(m) <= Len(l) + 1
    BY <2>2, <2>3, Kinds, ArrivalStays, PacketSent
  <2> HIDE DEF m
  <2>5. ArrivalLeft(k) /\ Orderly(k) /\ Len(k) <= Len(m) + 1
    BY <1>2, <2>4, Kinds, ArrivalStays, TimerStarted
  <2>6. Len(m) \in Nat /\ Len(k) \in Nat
    BY <2>4, <2>5, EventFacts DEF Orderly
  <2> HIDE DEF k
  <2>7. net' = l \/ net' = m \/ net' = k
    BY <2>1 DEF A_output, k, m, p
  <2>8. ArrivalLeft(net') /\ Len(net') <= Len(net) + 2
    BY <1>1, <2>3, <2>4, <2>5, <2>6, <2>7
  <2>9. Len(net') <= ListCap + 2 * nsim' + 1
    <3>1. Len(net') \in Nat
      BY <2>8, EventFacts DEF ArrivalLeft, Orderly
    <3> QED BY <1>1, <1>2, <2>1, <2>8, <3>1
  <2>10. Types'
    <3>1. UNCHANGED <<base, expectedseqnum, B_sndpkt>>
      BY <2>1 DEF A_output
    <3>2. queue' \in Seq(Pkt) /\ nextseqnum' \in Nat
      <4>1. \/ queue' = Append(queue, p) /\ nextseqnum' = nextseqnum + 1
            \/ UNCHANGED <<queue, nextseqnum>>
        BY <2>1 DEF A_output, p
      <4>2. queue \in Seq(Pkt) /\ nextseqnum \in Nat
        BY <1>2 DEF Types
      <4>3. Append(queue, p) \in Seq(Pkt)
        BY <2>2, <4>2, AppendProperties
      <4> QED BY <4>1, <4>2, <4>3
    <3> QED BY <1>2, <2>1, <3>1, <3>2 DEF Types
  <2> QED BY <2>8, <2>9, <2>10 DEF IInv
<1>4. ASSUME FromLayer3AtA PROVE IInv'
  <2>1. A_input(h.pkt, n) /\ nsim' = nsim /\ ArrivalLeft(n)
    BY <1>1, <1>4, Kinds DEF FromLayer3AtA, Takes, h, n
  <2> DEFINE a == h.pkt.acknum
             k == Restart(n, a)
  <2>2. a \in Int /\ Covered(a) \in Nat
    <3>1. a \in Int /\ base \in Int
      BY <1>1, <1>2 DEF Types, Pkt
    <3> HIDE DEF a
    <3> QED BY <3>1 DEF Covered
  <2>3. /\ UNCHANGED <<nextseqnum, expectedseqnum, B_sndpkt>>
        /\ \/ net' = n /\ UNCHANGED <<queue, base>>
           \/ /\ Covered(a) <= Len(queue)
              /\ queue' = SubSeq(queue, Covered(a) + 1, Len(queue))
              /\ base' = a + 1
              /\ net' = k
    <3>1. Len(queue) \in Nat /\ Covered(a) \in Nat
      BY <1>2, <2>2 DEF Types
    <3>2. ~(Covered(a) > Len(queue)) => Covered(a) <= Len(queue)
      BY <3>1
    <3> QED BY <2>1, <3>2 DEF A_input, AcceptAck
  <2>4. ArrivalLeft(k) /\ Len(k) <= Len(n) + 1
    BY <2>1, Restarted
  <2> HIDE DEF k
  <2>5. ArrivalLeft(net') /\ Len(net') <= Len(net)
    BY <1>1, <2>1, <2>3, <2>4
  <2>6. Types'
    <3>1. queue \in Seq(Pkt) /\ base \in Int
      BY <1>2 DEF Types
    <3>2. queue' \in Seq(Pkt)
      <4>1. CASE Covered(a) <= Len(queue)
        <5>1. SubSeq(queue, Covered(a) + 1, Len(queue)) \in Seq(Pkt)
          BY <2>2, <3>1, <4>1, SubSeqProperties
        <5> QED BY <2>3, <3>1, <5>1
      <4> QED BY <2>3, <3>1, <4>1
    <3>3. base' \in Int
      BY <2>3, <2>2, <3>1
    <3> QED BY <1>2, <2>1, <2>3, <3>2, <3>3 DEF Types
  <2>7. Len(net') <= ListCap + 2 * nsim' + 1
    <3>1. Len(net') \in Nat
      BY <2>5, EventFacts DEF ArrivalLeft, Orderly
    <3> QED BY <1>1, <1>2, <2>1, <2>5, <3>1
  <2> QED BY <2>5, <2>6, <2>7 DEF IInv
<1>5. ASSUME NEW how \in Ways, FromLayer3AtB(how) PROVE IInv'
  <2>1. B_input(h.pkt, n, how) /\ nsim' = nsim /\ ArrivalLeft(n) /\ Orderly(n)
    BY <1>1, <1>5, Kinds DEF FromLayer3AtB, Takes, h, n
  <2> DEFINE s == make_pkt(0, expectedseqnum, NoData)
  <2>2. \A p \in Pkt : /\ ArrivalLeft(tolayer3(n, B, p, how))
                       /\ Len(tolayer3(n, B, p, how)) <= Len(n) + 1
    BY <2>1, Kinds, ArrivalStays, PacketSent
  <2>3. s \in Pkt /\ B_sndpkt \in Pkt
    BY <1>2, PacketTypes DEF Types
  <2> HIDE DEF s
  <2>4. /\ UNCHANGED <<base, nextseqnum, queue>>
        /\ B_sndpkt' \in {B_sndpkt, s}
        /\ expectedseqnum' \in {expectedseqnum, expectedseqnum + 1}
        /\ net' = n \/ \E p \in {B_sndpkt, s} : net' = tolayer3(n, B, p, how)
    BY <2>1 DEF B_input, s
  <2>5. ArrivalLeft(net') /\ Len(net') <= Len(net)
    <3>1. CASE net' = n
      BY <1>1, <2>1, <3>1
    <3>2. CASE \E p \in {B_sndpkt, s} : net' = tolayer3(n, B, p, how)
      <4>1. ArrivalLeft(net') /\ Len(net') <= Len(n) + 1
        BY <2>2, <2>3, <3>2
      <4>2. Len(net') \in Nat
        BY <4>1, EventFacts DEF ArrivalLeft, Orderly
      <4> QED BY <1>1, <4>1, <4>2
    <3> QED BY <2>4, <3>1, <3>2
  <2>6. Types'
    BY <1>2, <2>1, <2>3, <2>4 DEF Types
  <2>7. Len(net') <= ListCap + 2 * nsim' + 1
    <3>1. Len(net') \in Nat
      BY <2>5, EventFacts DEF ArrivalLeft, Orderly
    <3> QED BY <1>1, <1>2, <2>1, <2>5, <3>1
  <2> QED BY <2>5, <2>6, <2>7 DEF IInv
<1>6. ASSUME NEW hows \in [1..Len(queue) -> Ways], TimerInterrupt(hows) PROVE IInv'
  <2>1. /\ A_timerinterrupt(n, hows) /\ nsim' = nsim /\ ArrivalLeft(n)
        /\ Len(net) + Len(queue) <= ListCap
    BY <1>1, <1>6, Kinds DEF TimerInterrupt, Takes, h, n
  <2>2. queue \in Seq(Pkt) /\ Len(queue) \in Nat
    BY <1>2 DEF Types
  <2> DEFINE m == Resend(n, hows)
  <2>3. ArrivalLeft(m) /\ Len(m) <= Len(n) + 1 + Len(queue)
    BY <2>1, <2>2, Resent
  <2> HIDE DEF m
  <2>4. net' = m /\ UNCHANGED <<base, nextseqnum, queue, expectedseqnum, B_sndpkt>>
    BY <2>1 DEF A_timerinterrupt, m
  <2>5. Types'
    BY <1>2, <2>1, <2>4 DEF Types
  <2>6. Len(net') <= ListCap + 2 * nsim' + 1
    <3>1. Len(m) \in Nat
      BY <2>3, EventFacts DEF ArrivalLeft, Orderly
    <3> QED BY <1>1, <1>2, <2>1, <2>2, <2>3, <2>4, <3>1
  <2> QED BY <2>3, <2>4, <2>5, <2>6 DEF IInv
<1>7. ASSUME Terminate \/ UNCHANGED vars PROVE IInv'
  <2>1. UNCHANGED <<base, nextseqnum, queue, expectedseqnum, B_sndpkt, net, nsim>>
    BY <1>7 DEF Terminate, vars
  <2> QED BY <1>2, <2>1 DEF IInv, Types, ArrivalLeft
<1> QED BY <1>3, <1>4, <1>5, <1>6, <1>7 DEF Next

LEMMA Invariance == Spec => []IInv
  BY InitIInv, StepIInv, PTL DEF Spec

\* However many windows A sends on top of each other, tolayer3 makes the
\* packets to one entity due one time unit apart at least, in the order they
\* were sent, so insertevent never reverses two of them.
THEOREM PacketsStayApart == Spec => []PacketsApart
<1>1. IInv => PacketsApart
  <2> SUFFICES ASSUME IInv PROVE PacketsApart
    OBVIOUS
  <2>1. net \in Seq(Event) /\ Apart(net)
    BY DEF IInv, ArrivalLeft, Orderly
  <2>2. DOMAIN net = 1..Len(net)
    BY <2>1, EventFacts
  <2> QED BY <2>1, <2>2 DEF PacketsApart, Apart
<1> QED BY <1>1, Invariance, PTL

-----------------------------------------------------------------------------
\* Without its clock the program is Gbn.tla.

LEMMA SameServices ==
  /\ AnyTime!A = A /\ AnyTime!B = B /\ AnyTime!Fates = Fates
  /\ AnyTime!EmptyMedium = EmptyMedium
  /\ \A len : AnyTime!Survivals(len) = Survivals(len)
  /\ \A n, e, p, f : AnyTime!Transmit(n, e, p, f) = Transmit(n, e, p, f)
  /\ \A n, e, ps, s : AnyTime!TransmitEach(n, e, ps, s) = TransmitEach(n, e, ps, s)
  /\ \A n, e, t : AnyTime!SetTimer(n, e, t) = SetTimer(n, e, t)
  /\ \A n, e : AnyTime!ClearTimer(n, e) = ClearTimer(n, e)
  /\ \A n, e : AnyTime!PacketTaken(n, e) = PacketTaken(n, e)
  /\ \A n, e : AnyTime!TimerTaken(n, e) = TimerTaken(n, e)
<1>1. AnyTime!A = A /\ AnyTime!B = B /\ AnyTime!Entity = Entity
  BY DEF A, B, Entity, AnyTime!A, AnyTime!B, AnyTime!Entity
<1>2. AnyTime!Fates = Fates
  BY DEF Fates, AnyTime!Fates
<1>3. AnyTime!EmptyMedium = EmptyMedium
  BY <1>1 DEF EmptyMedium, AnyTime!EmptyMedium
<1>4. /\ \A p, f : AnyTime!Damage(p, f) = Damage(p, f)
      /\ \A e : AnyTime!Peer(e) = Peer(e)
  BY DEF Damage, Peer, AnyTime!Damage, AnyTime!Peer
<1>5. \A n, e, p, f : AnyTime!Transmit(n, e, p, f) = Transmit(n, e, p, f)
  BY <1>4, Zenon DEF Transmit, AnyTime!Transmit
<1>6. \A n, e, ps, s : AnyTime!TransmitEach(n, e, ps, s) = TransmitEach(n, e, ps, s)
  BY <1>4, Zenon DEF TransmitEach, AnyTime!TransmitEach
<1>7. \A len : AnyTime!Survivals(len) = Survivals(len)
  <2> DEFINE Among(len, F) ==
               UNION {{t \in [1..m -> (1..len) \X (F \ {"lost"})] :
                         \A i \in 1..(m - 1) : t[i][1] < t[i + 1][1]} : m \in 0..len}
  <2>1. \A len : AnyTime!Survivals(len) = Among(len, AnyTime!Fates)
    BY Zenon DEF AnyTime!Survivals
  <2>2. \A len : Survivals(len) = Among(len, Fates)
    BY Zenon DEF Survivals
  <2> HIDE DEF Among
  <2> QED BY <1>2, <2>1, <2>2
<1>8. /\ \A n, e, t : AnyTime!SetTimer(n, e, t) = SetTimer(n, e, t)
      /\ \A n, e : AnyTime!ClearTimer(n, e) = ClearTimer(n, e)
      /\ \A n, e : AnyTime!PacketTaken(n, e) = PacketTaken(n, e)
      /\ \A n, e : AnyTime!TimerTaken(n, e) = TimerTaken(n, e)
  BY Zenon DEF SetTimer, ClearTimer, PacketTaken, TimerTaken, AnyTime!SetTimer,
               AnyTime!ClearTimer, AnyTime!PacketTaken, AnyTime!TimerTaken
<1> QED BY <1>1, <1>2, <1>3, <1>5, <1>6, <1>7, <1>8

LEMMA SameEntities ==
  /\ AnyTime!WindowOpen <=> WindowOpen
  /\ \A a : AnyTime!Covered(a) = Covered(a)
  /\ \A s, a, d : AnyTime!make_pkt(s, a, d) = make_pkt(s, a, d)
  /\ \A k : AnyTime!LayerFiveData(k) = LayerFiveData(k)
  /\ AnyTime!NoData = NoData
  /\ \A p : AnyTime!corrupt(p) <=> corrupt(p)
  /\ \A p : AnyTime!IsExpected(p) <=> IsExpected(p)
<1>1. /\ AnyTime!WindowOpen <=> WindowOpen
      /\ \A a : AnyTime!Covered(a) = Covered(a)
      /\ \A p : AnyTime!IsExpected(p) <=> IsExpected(p)
  BY DEF WindowOpen, Covered, IsExpected,
         AnyTime!WindowOpen, AnyTime!Covered, AnyTime!IsExpected
<1>2. \A p : AnyTime!calc_checksum(p) = calc_checksum(p)
  BY DEF calc_checksum, AnyTime!calc_checksum
<1>3. /\ \A s, a, d : AnyTime!make_pkt(s, a, d) = make_pkt(s, a, d)
      /\ \A p : AnyTime!corrupt(p) <=> corrupt(p)
  BY <1>2 DEF make_pkt, corrupt, AnyTime!make_pkt, AnyTime!corrupt
<1>4. /\ \A k : AnyTime!LayerFiveData(k) = LayerFiveData(k)
      /\ AnyTime!NoData = NoData
  BY DEF LayerFiveData, NoData, AnyTime!LayerFiveData, AnyTime!NoData
<1> QED BY <1>1, <1>3, <1>4

LEMMA InitAnyTime == Init => AnyTime!Init
<1> SUFFICES ASSUME Init PROVE AnyTime!Init
  OBVIOUS
<1>1. PICK gap \in Gaps : net = generate_next_arrival(<< >>, gap)
  BY DEF Init
<1>2. Untimed(net) = Untimed(<< >>)
  BY <1>1, EmptyList, NextArrival, GbnSimAssumption
<1>3. Untimed(<< >>) = EmptyMedium
  <2>1. \A e \in Entity : Arriving(<< >>, e) = << >>
    BY EmptyList
  <2>2. DOMAIN << >> = {}
    OBVIOUS
  <2> QED BY <2>1, <2>2 DEF Untimed, EmptyMedium
<1>4. AnyTime!EntitiesInit
  BY SameEntities DEF Init, EntitiesInit, AnyTime!EntitiesInit
<1> QED BY <1>2, <1>3, <1>4, SameServices DEF Init, AnyTime!Init

\* A handler sees the same medium with and without the clock, and so leaves
\* the same behind.
LEMMA StepAnyTime ==
  ASSUME IInv, [Next]_vars PROVE [AnyTime!Next]_AnyTime!vars
<1> DEFINE u == Untimed(net)
           n == Taken(net)
           h == Head(net)
<1>1. /\ net # << >> /\ Len(net) \in Nat /\ Orderly(net)
      /\ Orderly(n) /\ h.pkt \in Pkt
      /\ h.evtype = FROM_LAYER5 => Absent(n, FROM_LAYER5, Entity)
      /\ h.evtype # FROM_LAYER5 => ArrivalLeft(n)
  BY Loop
<1>2. /\ Types /\ Len(net) <= ListCap + 2 * nsim + 1
      /\ nsim \in Nat /\ nsim <= nsimmax
      /\ nsimmax \in Nat /\ ListCap \in Nat /\ TIMEOUT \in Nat
  BY GbnSimAssumption DEF IInv, Types
<1>3. u \in Medium /\ \A e \in Entity : Len(u.chan[e]) \in Nat /\ Len(u.chan[e]) <= Len(net)
  <2>1. u \in Medium /\ \A e \in Entity : Len(u.chan[e]) <= Len(net)
    BY <1>1, UntimedMedium DEF Orderly
  <2> HIDE DEF u
  <2> QED BY <2>1 DEF Medium
<1>4. /\ h.evtype = FROM_LAYER5 => Untimed(n) = u
      /\ \A e \in Entity : InTransit(h, e) =>
           u.chan[e] # << >> /\ h.pkt = Head(u.chan[e]) /\ Untimed(n) = PacketTaken(u, e)
      /\ \A e \in Entity : IsTimer(h, e) => u.timer[e] /\ Untimed(n) = TimerTaken(u, e)
  BY <1>1, TakenUntimed
<1> HIDE DEF u, n, h
<1>5. \A how \in Ways : how.fate \in Fates
  BY DEF Ways
<1>6. ASSUME NEW how \in Ways, NEW gap \in Gaps, FromLayer5(how, gap)
      PROVE  AnyTime!FromLayer5(how.fate)
  <2> DEFINE l == generate_next_arrival(n, gap)
             p == make_pkt(nextseqnum, 0, LayerFiveData(nsim))
             m == tolayer3(l, A, p, how)
  <2>1. /\ status = "running" /\ nsim # nsimmax /\ nsim' = nsim + 1
        /\ h.evtype = FROM_LAYER5
        /\ A_output(LayerFiveData(nsim), l, how)
    BY <1>6 DEF FromLayer5, Takes, h, n
  <2>2. gap \in Nat /\ p \in Pkt
    BY <1>2, GbnSimAssumption, PacketTypes
  <2>3. Orderly(l) /\ Untimed(l) = u
    BY <1>1, <1>4, <2>1, <2>2, NextArrival
  <2> HIDE DEF l, p
  <2>4. Orderly(m) /\ Untimed(m) = Transmit(u, A, p, how.fate)
    BY <2>2, <2>3, Kinds, PacketSent
  <2> HIDE DEF m
  <2>5. Untimed(starttimer(m, A, TIMEOUT)) = SetTimer(Transmit(u, A, p, how.fate), A, TIMEOUT)
    BY <1>2, <2>4, Kinds, TimerStarted
  <2>6. AnyTime!A_output(LayerFiveData(nsim), u, how.fate)
    <3>1. UNCHANGED <<base, expectedseqnum, B_sndpkt, status, delivered>>
      BY <2>1 DEF A_output
    <3>2. CASE WindowOpen
      <4>1. /\ queue' = Append(queue, p) /\ nextseqnum' = nextseqnum + 1
            /\ net' = IF base = nextseqnum THEN starttimer(m, A, TIMEOUT) ELSE m
            /\ accepted' = Append(accepted, LayerFiveData(nsim))
        BY <2>1, <3>2 DEF A_output, m, p
      <4>2. Untimed(net') = IF base = nextseqnum
                            THEN SetTimer(Transmit(u, A, p, how.fate), A, TIMEOUT)
                            ELSE Transmit(u, A, p, how.fate)
        BY <2>4, <2>5, <4>1
      <4> QED BY <3>1, <3>2, <4>1, <4>2, SameServices, SameEntities
              DEF AnyTime!A_output, p
    <3>3. CASE ~WindowOpen
      <4>1. net' = l /\ UNCHANGED <<queue, nextseqnum, accepted>>
        BY <2>1, <3>3 DEF A_output
      <4>2. Untimed(net') = u
        BY <2>3, <4>1
      <4> QED BY <3>1, <3>3, <4>1, <4>2, SameEntities DEF AnyTime!A_output
    <3> QED BY <3>2, <3>3
  <2> QED BY <2>1, <2>6, SameEntities DEF AnyTime!FromLayer5, AnyTime!Simulating, u
<1>7. ASSUME FromLayer3AtA PROVE AnyTime!FromLayer3AtA
  <2>1. /\ status = "running" /\ nsim # nsimmax /\ nsim' = nsim
        /\ h.evtype = FROM_LAYER3 /\ InTransit(h, A)
        /\ A_input(h.pkt, n)
    BY <1>7 DEF FromLayer3AtA, Takes, InTransit, h, n
  <2> DEFINE q == h.pkt
             v == PacketTaken(u, A)
             k == Restart(n, q.acknum)
  <2>2. u.chan[A] # << >> /\ q = Head(u.chan[A]) /\ Untimed(n) = v
    BY <1>4, <2>1, Kinds
  <2>3. ArrivalLeft(n)
    BY <1>1, <2>1, Kinds
  <2>4. Untimed(k) = AnyTime!Restart(v, q.acknum)
    <3>1. Untimed(k) = IF q.acknum + 1 = nextseqnum THEN ClearTimer(v, A)
                       ELSE SetTimer(ClearTimer(v, A), A, TIMEOUT)
      BY <2>2, <2>3, Restarted
    <3> HIDE DEF k, v, q
    <3> QED BY <3>1, SameServices DEF AnyTime!Restart
  <2>5. /\ UNCHANGED <<nextseqnum, expectedseqnum, B_sndpkt, accepted, delivered>>
        /\ \/ /\ corrupt(q)
              /\ net' = n
              /\ UNCHANGED <<queue, base, status>>
           \/ /\ ~corrupt(q) /\ q.acknum >= AckLimit
              /\ status' = "exited"
              /\ net' = n
              /\ UNCHANGED <<queue, base>>
           \/ /\ ~corrupt(q) /\ q.acknum < AckLimit
              /\ AcceptAck(q.acknum, n)
    BY <2>1 DEF A_input
  <2>6. AcceptAck(q.acknum, n) => AnyTime!AcceptAck(q.acknum, v)
    <3> HIDE DEF q, v, k
    <3>1. SUFFICES ASSUME AcceptAck(q.acknum, n) PROVE AnyTime!AcceptAck(q.acknum, v)
      OBVIOUS
    <3>2. CASE Covered(q.acknum) > Len(queue)
      <4>1. status' = "crashed" /\ net' = n /\ UNCHANGED <<queue, base>>
        BY <3>1, <3>2 DEF AcceptAck
      <4> QED BY <2>2, <3>2, <4>1, SameEntities DEF AnyTime!AcceptAck
    <3>3. CASE ~(Covered(q.acknum) > Len(queue))
      <4>1. /\ queue' = SubSeq(queue, Covered(q.acknum) + 1, Len(queue))
            /\ base' = q.acknum + 1
            /\ net' = k
            /\ UNCHANGED status
        BY <3>1, <3>3 DEF AcceptAck, k
      <4>2. Untimed(net') = AnyTime!Restart(v, q.acknum)
        BY <2>4, <4>1
      <4> QED BY <3>3, <4>1, <4>2, SameEntities DEF AnyTime!AcceptAck
    <3> QED BY <3>2, <3>3
  <2>7. AnyTime!A_input(q, v)
    <3>1. net' = n => Untimed(net') = v
      BY <2>2
    <3> HIDE DEF q, v, k
    <3> QED BY <2>5, <2>6, <3>1, SameEntities DEF AnyTime!A_input
  <2> QED BY <2>1, <2>2, <2>7, SameServices
          DEF AnyTime!FromLayer3AtA, AnyTime!Simulating, u
<1>8. ASSUME NEW how \in Ways, FromLayer3AtB(how) PROVE AnyTime!FromLayer3AtB(how.fate)
  <2>1. /\ status = "running" /\ nsim # nsimmax /\ nsim' = nsim
        /\ InTransit(h, B)
        /\ B_input(h.pkt, n, how)
    BY <1>8 DEF FromLayer3AtB, Takes, InTransit, h, n
  <2> DEFINE q == h.pkt
             v == PacketTaken(u, B)
             s == make_pkt(0, expectedseqnum, NoData)
  <2>2. u.chan[B] # << >> /\ q = Head(u.chan[B]) /\ Untimed(n) = v
    BY <1>4, <2>1, Kinds
  <2>3. Len(u.chan[A]) < ListCap + 2 * nsimmax + 1
    <3>1. nsim < nsimmax
      BY <1>2, <2>1
    <3>2. Len(u.chan[A]) \in Nat /\ Len(u.chan[A]) <= Len(net)
      BY <1>3, Kinds
    <3> QED BY <1>1, <1>2, <3>1, <3>2
  <2>4. s \in Pkt /\ B_sndpkt \in Pkt
    BY <1>2, PacketTypes DEF Types
  <2>5. \A p \in Pkt : Untimed(tolayer3(n, B, p, how)) = Transmit(v, B, p, how.fate)
    BY <1>1, <2>2, Kinds, PacketSent
  <2>6. AnyTime!B_input(q, v, how.fate)
    <3> HIDE DEF q, v, s
    <3>1. UNCHANGED <<base, nextseqnum, queue, status, accepted>>
      BY <2>1 DEF B_input
    <3>2. CASE /\ corrupt(q)
               /\ net' = n
               /\ UNCHANGED <<expectedseqnum, B_sndpkt, delivered>>
      <4>1. Untimed(net') = v
        BY <2>2, <3>2
      <4> QED BY <3>1, <3>2, <4>1, SameEntities DEF AnyTime!B_input
    <3>3. CASE /\ ~corrupt(q) /\ ~IsExpected(q)
               /\ net' = tolayer3(n, B, B_sndpkt, how)
               /\ UNCHANGED <<expectedseqnum, B_sndpkt, delivered>>
      <4>1. Untimed(net') = Transmit(v, B, B_sndpkt, how.fate)
        BY <2>4, <2>5, <3>3
      <4> QED BY <3>1, <3>3, <4>1, SameServices, SameEntities DEF AnyTime!B_input
    <3>4. CASE /\ ~corrupt(q) /\ IsExpected(q)
               /\ delivered' = Append(delivered, q.payload)
               /\ B_sndpkt' = s
               /\ net' = tolayer3(n, B, s, how)
               /\ expectedseqnum' = expectedseqnum + 1
      <4>1. Untimed(net') = Transmit(v, B, s, how.fate)
        BY <2>4, <2>5, <3>4
      <4>2. s = AnyTime!make_pkt(0, expectedseqnum, AnyTime!NoData)
        BY SameEntities DEF s
      <4> QED BY <3>1, <3>4, <4>1, <4>2, SameServices, SameEntities
              DEF AnyTime!B_input
    <3> QED BY <2>1, <3>2, <3>3, <3>4 DEF B_input, q, s
  <2> QED BY <2>1, <2>2, <2>3, <2>6, SameServices
          DEF AnyTime!FromLayer3AtB, AnyTime!Simulating, u
<1>9. ASSUME NEW hows \in [1..Len(queue) -> Ways], TimerInterrupt(hows)
      PROVE  \E s \in Survivals(Len(queue)) : AnyTime!TimerInterrupt(s)
  <2>1. /\ status = "running" /\ nsim # nsimmax /\ nsim' = nsim
        /\ h.evtype = TIMER_INTERRUPT /\ IsTimer(h, A)
        /\ Len(net) + Len(queue) <= ListCap
        /\ net' = Resend(n, hows)
        /\ UNCHANGED <<base, nextseqnum, queue, expectedseqnum, B_sndpkt, status,
                       accepted, delivered>>
    BY <1>9 DEF TimerInterrupt, Takes, IsTimer, A_timerinterrupt, h, n
  <2> DEFINE v == TimerTaken(u, A)
  <2>2. u.timer[A] /\ Untimed(n) = v
    BY <1>4, <2>1, Kinds
  <2>3. ArrivalLeft(n) /\ queue \in Seq(Pkt) /\ Len(queue) \in Nat
    BY <1>1, <1>2, <2>1, Kinds DEF Types
  <2>4. PICK s \in Survivals(Len(queue)) :
          Untimed(Resend(n, hows)) = TransmitEach(SetTimer(v, A, TIMEOUT), A, queue, s)
    BY <2>2, <2>3, Resent
  <2>5. Len(u.chan[B]) + Len(s) <= ListCap + 2 * nsimmax + 1
    <3>1. Len(s) \in Nat /\ Len(s) <= Len(queue)
      BY <2>3, SurvivorsCounted
    <3>2. Len(u.chan[B]) \in Nat /\ Len(u.chan[B]) <= Len(net)
      BY <1>3, Kinds
    <3> QED BY <1>1, <1>2, <2>1, <2>3, <3>1, <3>2
  <2>6. AnyTime!A_timerinterrupt(v, s)
    <3> HIDE DEF v
    <3> QED BY <2>1, <2>4, SameServices DEF AnyTime!A_timerinterrupt, AnyTime!Resend
  <2>7. AnyTime!TimerInterrupt(s)
    BY <2>1, <2>2, <2>5, <2>6, SameServices
       DEF AnyTime!TimerInterrupt, AnyTime!Simulating, u
  <2> QED BY <2>7
<1>10. ASSUME Terminate PROVE AnyTime!Terminate
  <2>1. Untimed(net') = Untimed(net)
    BY <1>10 DEF Terminate
  <2> QED BY <1>1, <1>10, <2>1 DEF Terminate, NothingToDo, AnyTime!Terminate
<1>11. ASSUME UNCHANGED vars PROVE UNCHANGED AnyTime!vars
  <2>1. Untimed(net') = Untimed(net)
    BY <1>11 DEF vars
  <2> QED BY <1>11, <2>1 DEF vars, AnyTime!vars
<1>12. ASSUME Next PROVE AnyTime!Next
  <2>1. CASE \E how \in Ways, gap \in Gaps : FromLayer5(how, gap)
    <3>1. \E fate \in AnyTime!Fates : AnyTime!FromLayer5(fate)
      BY <1>5, <1>6, <2>1, SameServices
    <3> QED BY <3>1 DEF AnyTime!Next
  <2>2. CASE \E how \in Ways : FromLayer3AtB(how)
    <3>1. \E fate \in AnyTime!Fates : AnyTime!FromLayer3AtB(fate)
      BY <1>5, <1>8, <2>2, SameServices
    <3> QED BY <3>1 DEF AnyTime!Next
  <2>3. CASE \E hows \in [1..Len(queue) -> Ways] : TimerInterrupt(hows)
    <3>1. \E s \in AnyTime!Survivals(Len(queue)) : AnyTime!TimerInterrupt(s)
      BY <1>9, <2>3, SameServices
    <3> QED BY <3>1 DEF AnyTime!Next
  <2>4. CASE FromLayer3AtA \/ Terminate
    BY <1>7, <1>10, <2>4 DEF AnyTime!Next
  <2> QED BY <1>12, <2>1, <2>2, <2>3, <2>4 DEF Next
<1> QED BY <1>11, <1>12

\* Every behaviour of the program with its clock is one of Gbn.tla, time-outs
\* that come too early included, so what Gbn_proofs.tla proves for a medium
\* that may take any time holds at the times main.c computes.
THEOREM ClockRefines == Spec => ImplementsGbn
  BY InitIInv, StepIInv, InitAnyTime, StepAnyTime, PTL
     DEF Spec, ImplementsGbn, AnyTime!Spec
=============================================================================

----------------------------- MODULE Abp_proofs -----------------------------
(***************************************************************************)
(* Proofs about the alternating-bit program, for every number of messages, *)
(* every set of kinds of damage and every bound on the channels: the type  *)
(* invariant and the safety properties of Abp.tla.                         *)
(*                                                                         *)
(* InOrderOnce is not inductive: that B never takes an old packet for a    *)
(* new one rests on what the two channels may hold (DataChannelOrdered,    *)
(* AckChannelOrdered), on how far A, B and the counters can be apart       *)
(* (Progress) and on the packet A keeps for retransmission (KeptPacket).   *)
(***************************************************************************)
EXTENDS Abp, EventList_proofs

\* How far apart the two entities and the histories are: A has sent one
\* message more than it saw acknowledged while it waits and none otherwise;
\* B is ahead of A's count exactly when its acknowledgement is under way.
Progress ==
  /\ Len(accepted) = received + IF A_state \in Waiting THEN 1 ELSE 0
  /\ A_state \notin Waiting => Bit(B_state) = Bit(A_state)
  /\ Len(delivered) = received + IF Bit(B_state) = Bit(A_state) THEN 0 ELSE 1

\* What A resends is the message it sent last.
KeptPacket ==
  A_state \in Waiting =>
    unacked_packet = make_pkt(Bit(A_state), 0, accepted[Len(accepted)])

IInv == /\ TypeOK
        /\ Progress
        /\ KeptPacket
        /\ InOrderOnce
        /\ TimerIffWaiting
        /\ DataChannelOrdered
        /\ AckChannelOrdered

-----------------------------------------------------------------------------
\* What the channels hold, as a property of a sequence of packets: sb is the
\* bit of the message acc ends with, ab the bit of B's last acknowledgement.
DataOrdered(c, acc, sb, ab) ==
  \A i \in 1..Len(c) : ~corrupt(c[i]) =>
     /\ acc # << >>
     /\ c[i].seqnum \in {0, 1}
     /\ c[i].seqnum = sb => c[i].payload = acc[Len(acc)]
     /\ ab = sb => c[i].seqnum = sb
     /\ \A j \in i..Len(c) :
          ~corrupt(c[j]) /\ c[i].seqnum = sb => c[j].seqnum = sb

AcksOrdered(c, bit, ab) ==
  \A i \in 1..Len(c) : ~corrupt(c[i]) =>
     /\ c[i].acknum \in {0, 1}
     /\ c[i].acknum = bit => ab = bit
     /\ \A j \in i..Len(c) :
          ~corrupt(c[j]) /\ c[i].acknum = ab => c[j].acknum = ab

LEMMA DataSent ==
  ASSUME NEW c \in Seq(Pkt), NEW acc, acc # << >>, NEW sb \in {0, 1}, NEW ab,
         DataOrdered(c, acc, sb, ab),
         NEW p \in Pkt, p.seqnum = sb, p.payload = acc[Len(acc)],
         NEW d \in AfterSend(c, p)
  PROVE  DataOrdered(d, acc, sb, ab)
<1>1. CASE d = c
  BY <1>1
<1>2. ASSUME NEW q \in Pkt, d = Append(c, q), q = p \/ corrupt(q)
      PROVE  DataOrdered(d, acc, sb, ab)
  <2>1. /\ Len(d) = Len(c) + 1
        /\ \A i \in 1..Len(c) : d[i] = c[i]
        /\ d[Len(d)] = q
        /\ Len(c) \in Nat
    BY <1>2
  <2> QED BY <2>1, <1>2 DEF DataOrdered
<1> QED BY <1>1, <1>2 DEF AfterSend

LEMMA AckSent ==
  ASSUME NEW c \in Seq(Pkt), NEW bit, NEW ab \in {0, 1},
         AcksOrdered(c, bit, ab),
         NEW p \in Pkt, p.acknum = ab,
         NEW d \in AfterSend(c, p)
  PROVE  AcksOrdered(d, bit, ab)
<1>1. CASE d = c
  BY <1>1
<1>2. ASSUME NEW q \in Pkt, d = Append(c, q), q = p \/ corrupt(q)
      PROVE  AcksOrdered(d, bit, ab)
  <2>1. /\ Len(d) = Len(c) + 1
        /\ \A i \in 1..Len(c) : d[i] = c[i]
        /\ d[Len(d)] = q
        /\ Len(c) \in Nat
    BY <1>2
  <2> QED BY <2>1, <1>2 DEF AcksOrdered
<1> QED BY <1>1, <1>2 DEF AfterSend

LEMMA AllAcksCurrent ==
  ASSUME NEW c \in Seq(Pkt), NEW ab \in {0, 1},
         \A i \in 1..Len(c) : ~corrupt(c[i]) => c[i].acknum = ab
  PROVE  AcksOrdered(c, 1 - ab, ab)
  BY DEF AcksOrdered

LEMMA DataTaken ==
  ASSUME NEW c \in Seq(Pkt), c # << >>, NEW acc, NEW sb, NEW ab,
         DataOrdered(c, acc, sb, ab)
  PROVE  DataOrdered(Tail(c), acc, sb, ab)
<1>1. /\ Len(c) \in Nat \ {0}
      /\ Len(Tail(c)) = Len(c) - 1
      /\ \A i \in 1..Len(Tail(c)) : Tail(c)[i] = c[i + 1]
  OBVIOUS
<1> QED BY <1>1 DEF DataOrdered

LEMMA AckTaken ==
  ASSUME NEW c \in Seq(Pkt), c # << >>, NEW bit, NEW ab,
         AcksOrdered(c, bit, ab)
  PROVE  AcksOrdered(Tail(c), bit, ab)
<1>1. /\ Len(c) \in Nat \ {0}
      /\ Len(Tail(c)) = Len(c) - 1
      /\ \A i \in 1..Len(Tail(c)) : Tail(c)[i] = c[i + 1]
  OBVIOUS
<1> QED BY <1>1 DEF AcksOrdered

-----------------------------------------------------------------------------
\* The inductive invariant.

LEMMA Facts ==
  ASSUME IInv
  PROVE  /\ net \in Medium
         /\ net.chan[A] \in Seq(Pkt)
         /\ net.chan[B] \in Seq(Pkt)
         /\ A_state \in Stat
         /\ B_state \in {"WAIT_0", "WAIT_1"}
         /\ Bit(A_state) \in {0, 1}
         /\ Bit(B_state) \in {0, 1}
         /\ received \in Nat
         /\ accepted \in Seq(Letters)
         /\ delivered \in Seq(Letters)
         /\ DataOrdered(net.chan[B], accepted, SentBit, AckBit)
         /\ AcksOrdered(net.chan[A], Bit(A_state), AckBit)
  BY DEF IInv, TypeOK, Medium, Entity, A, B, Stat, Bit, Waiting,
         DataChannelOrdered, AckChannelOrdered, DataOrdered, AcksOrdered

LEMMA InitIInv == Init => IInv
<1> SUFFICES ASSUME Init PROVE IInv
  OBVIOUS
<1> USE DEF Init, EntitiesInit, EmptyMedium
<1>1. net \in Medium
  BY DEF Medium
<1>2. net.chan[A] = << >> /\ net.chan[B] = << >> /\ net.timer[A] = FALSE
  BY DEF Entity, A, B
<1>3. TypeOK
  BY <1>1, LettersAreLetters, AbpAssumption DEF TypeOK, Stat, Pkt
<1>4. Progress /\ KeptPacket /\ InOrderOnce /\ TimerIffWaiting
  BY <1>2 DEF Progress, KeptPacket, InOrderOnce, TimerIffWaiting, Waiting, Bit
<1>5. DataChannelOrdered /\ AckChannelOrdered
  BY <1>2 DEF DataChannelOrdered, AckChannelOrdered
<1> QED BY <1>3, <1>4, <1>5 DEF IInv

LEMMA FromLayer5Step ==
  ASSUME IInv, NEW fate \in Fates, FromLayer5(fate)
  PROVE  IInv'
<1> DEFINE message == LayerFiveData(nsim)
           b == Bit(A_state)
           p == make_pkt(b, 0, message)
<1>1. /\ message \in Letters
      /\ nsim' = nsim + 1 /\ nsim' \in 0..nsimmax
      /\ A_output(message, net, fate)
  BY LettersAreLetters, AbpAssumption DEF IInv, TypeOK, FromLayer5, Simulating
<1>2. CASE A_state \notin Waiting
  <2>1. /\ net' = SetTimer(Transmit(net, A, p, fate), A, TIMEOUT)
        /\ unacked_packet' = p
        /\ A_state' = IF A_state = "WAIT_0" THEN "WAIT_ACK_0" ELSE "WAIT_ACK_1"
        /\ accepted' = Append(accepted, message)
        /\ UNCHANGED <<B_state, received, status, delivered>>
    BY <1>1, <1>2 DEF A_output
  <2>2. /\ A_state' \in Waiting /\ A_state' \in Stat
        /\ Bit(A_state') = b
        /\ SentBit' = b /\ SentBit = 1 - b
        /\ AckBit' = AckBit /\ AckBit = 1 - b
        /\ b \in {0, 1}
    BY <1>2, <2>1, Facts DEF IInv, Progress, Bit, Waiting, Stat, SentBit, AckBit
  <2>3. /\ p \in Sent /\ p \in Pkt
        /\ p.seqnum = b /\ p.payload = message
    BY <1>1, <2>2, Fields
  <2>4. /\ net' \in Medium
        /\ net'.timer[A]
        /\ net'.chan[A] = net.chan[A]
        /\ net'.chan[B] \in AfterSend(net.chan[B], p)
    <3>1. A \in Entity /\ Peer(A) = B
      BY DEF Entity, Peer, A, B
    <3> DEFINE m == Transmit(net, A, p, fate)
    <3>2. /\ m \in Medium
          /\ m.chan[A] = net.chan[A]
          /\ m.chan[B] \in AfterSend(net.chan[B], p)
      BY <2>3, <3>1, Send, Facts
    <3> QED BY <2>1, <3>1, <3>2, Timers
  <2>5. /\ accepted' \in Seq(Letters) /\ accepted' # << >>
        /\ Len(accepted') = Len(accepted) + 1
        /\ accepted'[Len(accepted')] = message
        /\ \A i \in 1..Len(accepted) : accepted'[i] = accepted[i]
    BY <1>1, <2>1, Facts, SMTT(30)
  <2>6. TypeOK'
    BY <1>1, <2>1, <2>2, <2>3, <2>4, <2>5 DEF IInv, TypeOK
  <2>7. Progress' /\ KeptPacket'
    BY <1>2, <2>1, <2>2, <2>5, Facts DEF IInv, Progress, KeptPacket
  <2>8. InOrderOnce' /\ TimerIffWaiting'
    BY <2>1, <2>2, <2>4, <2>5, Facts DEF IInv, InOrderOnce, TimerIffWaiting
  <2>9. DataChannelOrdered'
    <3>1. DataOrdered(net.chan[B], accepted', b, AckBit)
      BY <2>2, <2>5, Facts DEF DataOrdered
    <3>2. DataOrdered(net'.chan[B], accepted', b, AckBit)
      BY <2>2, <2>3, <2>4, <2>5, <3>1, Facts, DataSent
    <3> QED BY <2>2, <3>2 DEF DataChannelOrdered, DataOrdered
  <2>10. AckChannelOrdered'
    BY <2>2, <2>4, Facts DEF AckChannelOrdered, AcksOrdered
  <2> QED BY <2>6, <2>7, <2>8, <2>9, <2>10 DEF IInv
<1>3. CASE A_state \in Waiting
  <2>1. UNCHANGED <<A_state, B_state, unacked_packet, received, net, status,
                    accepted, delivered>>
    BY <1>1, <1>3 DEF A_output
  <2> QED BY <1>1, <2>1 DEF IInv, TypeOK, Progress, KeptPacket, InOrderOnce,
        TimerIffWaiting, DataChannelOrdered, AckChannelOrdered, SentBit, AckBit
<1> QED BY <1>2, <1>3
LEMMA FromLayer3AtAStep ==
  ASSUME IInv, FromLayer3AtA
  PROVE  IInv'
<1> DEFINE packet == Head(net.chan[A])
           n == PacketTaken(net, A)
<1>1. /\ net.chan[A] # << >>
      /\ nsim' = nsim
      /\ A_input(packet, n)
  BY DEF FromLayer3AtA
<1>2. /\ A \in Entity /\ B \in Entity \ {A}
      /\ n \in Medium /\ n.timer = net.timer
      /\ n.chan[A] = Tail(net.chan[A])
      /\ n.chan[B] = net.chan[B]
      /\ packet = net.chan[A][1]
  <2>1. A \in Entity /\ B \in Entity \ {A}
    BY DEF Entity, A, B
  <2> QED BY <1>1, <2>1, Facts, PacketOff
<1>3. AcksOrdered(n.chan[A], Bit(A_state), AckBit)
  BY <1>1, <1>2, Facts, AckTaken
<1>4. CASE IsAwaitedAck(packet)
  <2>1. /\ net' = ClearTimer(n, A)
        /\ A_state' = IF A_state = "WAIT_ACK_0" THEN "WAIT_1" ELSE "WAIT_0"
        /\ received' = received + 1
        /\ status' \in {"exited", status}
        /\ UNCHANGED <<B_state, unacked_packet, accepted, delivered>>
    BY <1>1, <1>4 DEF A_input
  <2>2. net' \in Medium /\ net'.chan = n.chan /\ ~ net'.timer[A]
    BY <1>2, <2>1, Timers
  <2>3. /\ A_state \in Waiting /\ A_state' \in Stat \ Waiting
        /\ Bit(A_state') = 1 - Bit(A_state)
        /\ SentBit = Bit(A_state) /\ SentBit' = Bit(A_state)
        /\ AckBit' = AckBit
    BY <1>4, <2>1, Facts DEF IsAwaitedAck, Stat, Waiting, Bit, SentBit, AckBit
  <2>4. /\ 1 \in 1..Len(net.chan[A])
        /\ ~ corrupt(net.chan[A][1])
        /\ net.chan[A][1].acknum = Bit(A_state)
    BY <1>1, <1>2, <1>4, Facts DEF IsAwaitedAck
  <2>5. AckBit = Bit(A_state)
    BY <2>4, Facts DEF AcksOrdered
  <2>6. TypeOK'
    BY <1>1, <2>1, <2>2, <2>3 DEF IInv, TypeOK
  <2>7. Progress' /\ KeptPacket'
    BY <2>1, <2>3, <2>5, Facts DEF IInv, Progress, KeptPacket, AckBit
  <2>8. InOrderOnce' /\ TimerIffWaiting'
    BY <2>1, <2>2, <2>3 DEF IInv, InOrderOnce, TimerIffWaiting
  <2>9. DataChannelOrdered'
    <3>1. DataOrdered(net'.chan[B], accepted', SentBit', AckBit')
      BY <1>2, <2>1, <2>2, <2>3, Facts
    <3> QED BY <3>1 DEF DataChannelOrdered, DataOrdered
  <2>10. AckChannelOrdered'
    <3>1. \A i \in 1..Len(net.chan[A]) :
             ~corrupt(net.chan[A][i]) => net.chan[A][i].acknum = AckBit
      BY <2>4, <2>5, Facts DEF AcksOrdered
    <3>2. /\ Len(net.chan[A]) \in Nat \ {0}
          /\ Len(n.chan[A]) = Len(net.chan[A]) - 1
          /\ \A i \in 1..Len(n.chan[A]) : n.chan[A][i] = net.chan[A][i + 1]
      BY <1>1, <1>2, Facts
    <3>3. \A i \in 1..Len(n.chan[A]) :
             ~corrupt(n.chan[A][i]) => n.chan[A][i].acknum = AckBit
      BY <3>1, <3>2, SMTT(30)
    <3>4. AckBit \in {0, 1}
      BY <2>5, Facts
    <3> HIDE DEF n
    <3>5. AcksOrdered(n.chan[A], 1 - AckBit, AckBit)
      <4>1. n.chan[A] \in Seq(Pkt)
        BY <1>1, <1>2, Facts, HeadTailProperties
      <4> QED BY <3>3, <3>4, <4>1, AllAcksCurrent
    <3>6. AcksOrdered(net'.chan[A], Bit(A_state'), AckBit')
      BY <2>2, <2>3, <2>5, <3>5
    <3> QED BY <3>6 DEF AckChannelOrdered, AcksOrdered
  <2> QED BY <2>6, <2>7, <2>8, <2>9, <2>10 DEF IInv
<1>5. CASE ~ IsAwaitedAck(packet)
  <2>1. /\ net' = n
        /\ UNCHANGED <<A_state, B_state, unacked_packet, received, status,
                       accepted, delivered>>
    BY <1>1, <1>5 DEF A_input
  <2>2. TypeOK' /\ Progress' /\ KeptPacket' /\ InOrderOnce' /\ TimerIffWaiting'
    BY <1>1, <1>2, <2>1 DEF IInv, TypeOK, Progress, KeptPacket, InOrderOnce,
                            TimerIffWaiting
  <2>3. SentBit' = SentBit /\ AckBit' = AckBit
    BY <2>1 DEF SentBit, AckBit
  <2>4. DataChannelOrdered'
    <3>1. DataOrdered(net'.chan[B], accepted', SentBit', AckBit')
      BY <1>2, <2>1, <2>3, Facts
    <3> QED BY <3>1 DEF DataChannelOrdered, DataOrdered
  <2>5. AckChannelOrdered'
    BY <1>3, <2>1, <2>3 DEF AckChannelOrdered, AcksOrdered
  <2> QED BY <2>2, <2>4, <2>5 DEF IInv
<1> QED BY <1>4, <1>5

LEMMA TimerInterruptStep ==
  ASSUME IInv, NEW fate \in Fates, TimerInterrupt(fate)
  PROVE  IInv'
<1> DEFINE n == TimerTaken(net, A)
           b == Bit(A_state)
           p == unacked_packet
<1>1. /\ net.timer[A]
      /\ nsim' = nsim
      /\ A_timerinterrupt(n, fate)
  BY DEF TimerInterrupt
<1>2. A_state \in Waiting
  BY <1>1 DEF IInv, TimerIffWaiting
<1>3. /\ net' = Resend(n, fate)
      /\ UNCHANGED <<A_state, B_state, unacked_packet, received, status,
                     accepted, delivered>>
  BY <1>1, <1>2 DEF A_timerinterrupt
<1>4. A \in Entity /\ Peer(A) = B
  BY DEF Entity, Peer, A, B
<1>5. n \in Medium /\ n.chan = net.chan
  BY <1>4, Facts, Timers
<1>6. /\ Len(accepted) \in 1..Len(accepted)
      /\ accepted # << >>
      /\ accepted[Len(accepted)] \in Letters
  BY <1>2, Facts DEF IInv, Progress
<1>7. p \in Sent /\ p \in Pkt /\ p.seqnum = b /\ p.payload = accepted[Len(accepted)]
  <2>1. p = make_pkt(b, 0, accepted[Len(accepted)])
    BY <1>2 DEF IInv, KeptPacket
  <2> QED BY <1>6, <2>1, Facts, Fields
<1>8. /\ net' \in Medium
      /\ net'.timer[A]
      /\ net'.chan[A] = net.chan[A]
      /\ net'.chan[B] \in AfterSend(net.chan[B], p)
  <2> DEFINE m == Transmit(n, A, p, fate)
  <2>1. /\ m \in Medium
        /\ m.chan[A] = net.chan[A]
        /\ m.chan[B] \in AfterSend(net.chan[B], p)
    BY <1>4, <1>5, <1>7, Send
  <2> QED BY <1>3, <1>4, <2>1, Timers DEF Resend
<1>9. SentBit = b /\ SentBit' = SentBit /\ AckBit' = AckBit
  BY <1>2, <1>3 DEF SentBit, AckBit
<1>10. TypeOK' /\ Progress' /\ KeptPacket' /\ InOrderOnce' /\ TimerIffWaiting'
  BY <1>1, <1>2, <1>3, <1>8 DEF IInv, TypeOK, Progress, KeptPacket, InOrderOnce,
                                TimerIffWaiting
<1>11. DataChannelOrdered'
  <2>1. DataOrdered(net'.chan[B], accepted, SentBit, AckBit)
    BY <1>6, <1>7, <1>8, <1>9, Facts, DataSent
  <2> QED BY <1>3, <1>9, <2>1 DEF DataChannelOrdered, DataOrdered
<1>12. AckChannelOrdered'
  BY <1>3, <1>8, <1>9, Facts DEF AckChannelOrdered, AcksOrdered
<1> QED BY <1>10, <1>11, <1>12 DEF IInv
LEMMA FromLayer3AtBStep ==
  ASSUME IInv, NEW fate \in Fates, FromLayer3AtB(fate)
  PROVE  IInv'
<1> DEFINE packet == Head(net.chan[B])
           n == PacketTaken(net, B)
           b == Bit(B_state)
<1>1. /\ net.chan[B] # << >>
      /\ nsim' = nsim
      /\ B_input(packet, n, fate)
      /\ UNCHANGED <<A_state, unacked_packet, received, status, accepted>>
  BY DEF FromLayer3AtB, B_input
<1>2. /\ B \in Entity /\ A \in Entity \ {B} /\ Peer(B) = A
  BY DEF Entity, Peer, A, B
<1>3. /\ n \in Medium /\ n.timer = net.timer
      /\ n.chan[B] = Tail(net.chan[B])
      /\ n.chan[A] = net.chan[A]
      /\ packet \in Pkt /\ packet = net.chan[B][1]
  BY <1>1, <1>2, Facts, PacketOff
<1>4. b \in {0, 1} /\ AckBit = 1 - b /\ SentBit' = SentBit /\ SentBit \in {0, 1}
  BY <1>1, Facts DEF AckBit, SentBit
<1>5. ASSUME NEW k \in {0, 1}
      PROVE  LET m == Transmit(n, B, AckPkt(k), fate)
             IN  /\ m \in Medium
                 /\ m.timer = net.timer
                 /\ m.chan[B] = Tail(net.chan[B])
                 /\ m.chan[A] \in AfterSend(net.chan[A], AckPkt(k))
  <2>1. AckPkt(k) \in Sent
    BY Fields DEF AckPkt
  <2> QED BY <1>2, <1>3, <2>1, Send
<1>6. \A k \in {0, 1} : AckPkt(k) \in Pkt /\ AckPkt(k).acknum = k
  BY Fields DEF AckPkt
<1>7. DataOrdered(Tail(net.chan[B]), accepted, SentBit, AckBit)
  BY <1>1, Facts, DataTaken
<1> HIDE DEF n, packet, b
<1>8. CASE corrupt(packet) \/ packet.seqnum = 1 - b
  <2>1. /\ net' = Transmit(n, B, AckPkt(1 - b), fate)
        /\ UNCHANGED <<B_state, delivered>>
    BY <1>1, <1>4, <1>8 DEF B_input, b
  <2>2. /\ net' \in Medium
        /\ net'.timer = net.timer
        /\ net'.chan[B] = Tail(net.chan[B])
        /\ net'.chan[A] \in AfterSend(net.chan[A], AckPkt(AckBit))
        /\ AckBit \in {0, 1}
    BY <1>4, <1>5, <2>1
  <2>3. AckBit' = AckBit
    BY <2>1 DEF AckBit
  <2>4. TypeOK' /\ Progress' /\ KeptPacket' /\ InOrderOnce' /\ TimerIffWaiting'
    BY <1>1, <2>1, <2>2 DEF IInv, TypeOK, Progress, KeptPacket, InOrderOnce,
                            TimerIffWaiting
  <2>5. DataChannelOrdered'
    <3>1. DataOrdered(net'.chan[B], accepted', SentBit', AckBit')
      BY <1>1, <1>4, <1>7, <2>2, <2>3
    <3> QED BY <3>1 DEF DataChannelOrdered, DataOrdered
  <2>6. AckChannelOrdered'
    <3>1. AcksOrdered(net'.chan[A], Bit(A_state), AckBit)
      BY <1>6, <2>2, Facts, AckSent
    <3> QED BY <1>1, <2>3, <3>1 DEF AckChannelOrdered, AcksOrdered
  <2> QED BY <2>4, <2>5, <2>6 DEF IInv
<1>9. CASE ~corrupt(packet) /\ packet.seqnum = b
  <2>1. /\ delivered' = Append(delivered, packet.payload)
        /\ net' = Transmit(n, B, AckPkt(b), fate)
        /\ B_state' = IF B_state = "WAIT_0" THEN "WAIT_1" ELSE "WAIT_0"
    BY <1>1, <1>4, <1>9 DEF B_input, b
  <2>2. /\ net' \in Medium
        /\ net'.timer = net.timer
        /\ net'.chan[B] = Tail(net.chan[B])
        /\ net'.chan[A] \in AfterSend(net.chan[A], AckPkt(b))
    BY <1>4, <1>5, <2>1
  <2>3. B_state' \in {"WAIT_0", "WAIT_1"} /\ Bit(B_state') = 1 - b /\ AckBit' = b
    BY <2>1, Facts DEF Bit, AckBit, b
  <2>4. /\ 1 \in 1..Len(net.chan[B])
        /\ ~ corrupt(net.chan[B][1])
        /\ net.chan[B][1].seqnum = b
    BY <1>1, <1>3, <1>9, Facts
  \* B cannot have the newest message yet: only copies of it would remain.
  <2>5. SentBit = b /\ packet.payload = accepted[Len(accepted)]
    <3>1. /\ packet.seqnum = SentBit => packet.payload = accepted[Len(accepted)]
          /\ AckBit = SentBit => packet.seqnum = SentBit
      <4>1. DataOrdered(net.chan[B], accepted, SentBit, AckBit)
        BY Facts
      <4> QED BY <1>3, <2>4, <4>1 DEF DataOrdered
    <3>2. b = SentBit
      BY <1>3, <1>4, <2>4, <3>1
    <3> QED BY <1>9, <3>1, <3>2
  <2>6. A_state \in Waiting /\ Bit(A_state) = b
    BY <1>4, <2>5, Facts DEF IInv, Progress, SentBit, b
  <2>7. /\ Len(delivered) = received
        /\ Len(accepted) = received + 1
    BY <2>6, Facts DEF IInv, Progress, b
  <2>8. /\ accepted[Len(accepted)] \in Letters
        /\ delivered' \in Seq(Letters)
        /\ Len(delivered') = received + 1
        /\ delivered'[received + 1] = accepted[received + 1]
        /\ \A i \in 1..received : delivered'[i] = delivered[i]
    BY <2>1, <2>5, <2>7, Facts
  <2>9. TypeOK'
    BY <1>1, <2>2, <2>3, <2>8 DEF IInv, TypeOK
  <2>10. Progress' /\ KeptPacket'
    BY <1>1, <1>4, <2>3, <2>6, <2>7, <2>8 DEF IInv, Progress, KeptPacket
  <2>11. InOrderOnce' /\ TimerIffWaiting'
    BY <1>1, <2>2, <2>7, <2>8, Facts DEF IInv, InOrderOnce, TimerIffWaiting
  <2>12. DataChannelOrdered'
    <3>1. \A i \in 1..Len(net.chan[B]) :
             ~corrupt(net.chan[B][i]) => net.chan[B][i].seqnum = SentBit
      BY <2>4, <2>5, Facts DEF DataOrdered
    <3>2. \A i \in 1..Len(Tail(net.chan[B])) :
             Tail(net.chan[B])[i] = net.chan[B][i + 1]
      BY <1>1, Facts
    <3>3. \A i \in 1..Len(Tail(net.chan[B])) :
             ~corrupt(Tail(net.chan[B])[i]) => Tail(net.chan[B])[i].seqnum = SentBit
      BY <1>1, <3>1, <3>2, Facts
    <3>4. DataOrdered(Tail(net.chan[B]), accepted, SentBit, b)
      BY <1>7, <3>3, Facts, HeadTailProperties, <1>1 DEF DataOrdered
    <3>5. DataOrdered(net'.chan[B], accepted', SentBit', AckBit')
      BY <1>1, <1>4, <2>2, <2>3, <3>4
    <3> QED BY <3>5 DEF DataChannelOrdered, DataOrdered
  <2>13. AckChannelOrdered'
    <3>1. AcksOrdered(net.chan[A], b, b)
      BY <1>4, <2>6, Facts DEF AcksOrdered
    <3>2. AcksOrdered(net'.chan[A], b, b)
      BY <1>4, <1>6, <2>2, <3>1, Facts, AckSent
    <3> QED BY <1>1, <2>3, <2>6, <3>2 DEF AckChannelOrdered, AcksOrdered
  <2> QED BY <2>9, <2>10, <2>11, <2>12, <2>13 DEF IInv
<1>10. CASE ~corrupt(packet) /\ packet.seqnum \notin {0, 1}
  BY <1>1, <1>3, <1>10, Facts DEF DataOrdered
<1> QED BY <1>4, <1>8, <1>9, <1>10

LEMMA TerminateStep ==
  ASSUME IInv, Terminate
  PROVE  IInv'
  BY DEF Terminate, IInv, TypeOK, Progress, KeptPacket, InOrderOnce,
     TimerIffWaiting, DataChannelOrdered, AckChannelOrdered, SentBit, AckBit

LEMMA StutterStep ==
  ASSUME IInv, UNCHANGED vars
  PROVE  IInv'
  BY DEF vars, IInv, TypeOK, Progress, KeptPacket, InOrderOnce,
     TimerIffWaiting, DataChannelOrdered, AckChannelOrdered, SentBit, AckBit

LEMMA NextIInv == IInv /\ [Next]_vars => IInv'
  BY FromLayer5Step, FromLayer3AtAStep, FromLayer3AtBStep, TimerInterruptStep,
     TerminateStep, StutterStep DEF Next

LEMMA Invariance == Spec => []IInv
  BY InitIInv, NextIInv, PTL DEF Spec

-----------------------------------------------------------------------------
(***************************************************************************)
(* The results.                                                            *)
(***************************************************************************)

\* Every variable of abp.c and of its medium keeps its type; in particular
\* layer 5 at B is never given a payload the medium damaged.
THEOREM TypeCorrect == Spec => []TypeOK
<1>1. IInv => TypeOK
  BY DEF IInv
<1> QED BY <1>1, Invariance, PTL

\* Layer 5 at B gets what A sent, in order and each message once, whatever
\* the medium loses or damages and whenever the timer goes off.
THEOREM DeliveredInOrderOnce == Spec => []InOrderOnce
<1>1. IInv => InOrderOnce
  BY DEF IInv
<1> QED BY <1>1, Invariance, PTL

\* What A counts as acknowledged was handed over at B, and A is at most one
\* message ahead of its count: the stop-and-wait discipline of A_output.
THEOREM AcknowledgedWasDelivered == Spec => []AckedWasDelivered
<1>1. IInv => AckedWasDelivered
  BY Facts DEF IInv, Progress, AckedWasDelivered
<1> QED BY <1>1, Invariance, PTL

\* A's timer is pending exactly while A waits, so neither warning of
\* starttimer and stoptimer is ever printed and a lost packet is retried.
THEOREM TimerDiscipline == Spec => []TimerIffWaiting
<1>1. IInv => TimerIffWaiting
  BY DEF IInv
<1> QED BY <1>1, Invariance, PTL

\* No old packet or acknowledgement comes after a newer one in a channel.
THEOREM OrderKept == Spec => []ChannelsOrdered
<1>1. IInv => ChannelsOrdered
  BY DEF IInv, ChannelsOrdered
<1> QED BY <1>1, Invariance, PTL

-----------------------------------------------------------------------------
LEMMA InitTransfer == Init => Transfer!Init
  BY DEF Init, EntitiesInit, Transfer!Init

LEMMA NextTransfer == IInv /\ [Next]_vars => [Transfer!Next]_Transfer!rtvars
<1> SUFFICES ASSUME IInv, [Next]_vars
             PROVE  [Transfer!Next]_Transfer!rtvars
  OBVIOUS
<1> USE DEF Transfer!Next, Transfer!rtvars
<1>1. ASSUME NEW fate \in Fates, FromLayer5(fate)
      PROVE  [Transfer!Next]_Transfer!rtvars
  <2>1. status = "running" /\ A_output(LayerFiveData(nsim), net, fate)
    BY <1>1 DEF FromLayer5, Simulating
  <2>2. CASE A_state \in Waiting
    BY <2>1, <2>2 DEF A_output
  <2>3. CASE A_state \notin Waiting
    <3>1. LayerFiveData(nsim) \in Letters
      BY LettersAreLetters DEF IInv, TypeOK
    <3>2. Len(accepted) - received = 0
      BY <2>3, Facts DEF IInv, Progress
    <3>3. Transfer!Accept
      BY <2>1, <2>3, <3>1, <3>2 DEF A_output, Transfer!Accept
    <3> QED BY <3>3
  <2> QED BY <2>2, <2>3
<1>2. ASSUME FromLayer3AtA
      PROVE  [Transfer!Next]_Transfer!rtvars
  <2> DEFINE packet == Head(net.chan[A])
  <2>1. status = "running" /\ A_input(packet, PacketTaken(net, A))
    BY <1>2 DEF FromLayer3AtA, Simulating
  <2>2. CASE ~ IsAwaitedAck(packet)
    BY <2>1, <2>2 DEF A_input
  <2>3. CASE IsAwaitedAck(packet)
    <3>1. /\ received' = received + 1
          /\ (status' = "running") \in BOOLEAN
          /\ UNCHANGED <<accepted, delivered>>
      BY <2>1, <2>3 DEF A_input
    <3>2. /\ 1 \in 1..Len(net.chan[A])
          /\ ~ corrupt(net.chan[A][1])
          /\ net.chan[A][1].acknum = Bit(A_state)
      BY <1>2, <2>3, Facts DEF FromLayer3AtA, IsAwaitedAck
    <3>3. AckBit = Bit(A_state)
      BY <3>2, Facts DEF AcksOrdered
    <3>4. Len(delivered) = received + 1
      BY <3>3, Facts DEF IInv, Progress, AckBit
    <3>5. Transfer!Ack
      BY <2>1, <3>1, <3>4, Facts DEF Transfer!Ack
    <3> QED BY <3>5
  <2> QED BY <2>2, <2>3
<1>3. ASSUME NEW fate \in Fates, FromLayer3AtB(fate)
      PROVE  [Transfer!Next]_Transfer!rtvars
  <2>1. /\ status = "running"
        /\ UNCHANGED <<accepted, received, status>>
    BY <1>3 DEF FromLayer3AtB, Simulating, B_input
  <2>2. CASE UNCHANGED delivered
    BY <2>1, <2>2
  <2>3. CASE delivered' # delivered
    <3>1. PICK payload : delivered' = Append(delivered, payload)
      BY <1>3, <2>3 DEF FromLayer3AtB, B_input
    <3>2. IInv'
      BY <1>3, FromLayer3AtBStep
    <3>3. /\ delivered' \in Seq(Letters)
          /\ Len(delivered') <= Len(accepted')
          /\ \A i \in 1..Len(delivered') : delivered'[i] = accepted'[i]
      BY <3>2 DEF IInv, TypeOK, InOrderOnce
    <3>4. /\ Len(delivered') = Len(delivered) + 1
          /\ delivered'[Len(delivered) + 1] = payload
          /\ Len(delivered) \in Nat
      BY <3>1, Facts
    <3>5. payload = accepted[Len(delivered) + 1] /\ Len(delivered) < Len(accepted)
      BY <2>1, <3>3, <3>4, Facts
    <3>6. Transfer!Deliver
      BY <2>1, <3>1, <3>5 DEF Transfer!Deliver
    <3> QED BY <3>6
  <2> QED BY <2>2, <2>3
<1>4. ASSUME NEW fate \in Fates, TimerInterrupt(fate)
      PROVE  [Transfer!Next]_Transfer!rtvars
  BY <1>4 DEF TimerInterrupt, A_timerinterrupt
<1>5. ASSUME Terminate
      PROVE  [Transfer!Next]_Transfer!rtvars
  BY <1>5 DEF Terminate, Transfer!Stop
<1>6. ASSUME UNCHANGED vars
      PROVE  [Transfer!Next]_Transfer!rtvars
  BY <1>6 DEF vars
<1> QED BY <1>1, <1>2, <1>3, <1>4, <1>5, <1>6 DEF Next

\* The alternating-bit program implements reliable transfer with a window of
\* one message: every step of abp.c and its emulator is a step of
\* ReliableTransfer or leaves sent, recvd, acked and running as they are.
THEOREM Refinement == Spec => Transfer!Spec
  BY InitTransfer, NextTransfer, Invariance, PTL DEF Spec, Transfer!Spec
=============================================================================

----------------------------- MODULE Gbn_proofs -----------------------------
(***************************************************************************)
(* Proofs about the go-back-N program, for every window size, every number *)
(* of messages, every set of kinds of damage and every bound on the        *)
(* channels: the safety properties of Gbn.tla, and that the program        *)
(* implements reliable transfer with a window of N.                        *)
(*                                                                         *)
(* The properties lean on one another: that A never slides the window too  *)
(* far rests on the acknowledgements in the channel, those on what B has   *)
(* delivered, that on the packets in the channel to B being genuine, and   *)
(* those on the queue being the window.                                    *)
(***************************************************************************)
EXTENDS Gbn, EventList_proofs

\* The sequence numbers count the messages.
Counters ==
  /\ nextseqnum = Len(accepted) + 1
  /\ expectedseqnum = Len(delivered) + 1
  /\ B_sndpkt = make_pkt(0, Len(delivered), NoData)

\* An undamaged packet in the channel to B carries the message its sequence
\* number says.
DataGenuine ==
  \A i \in 1..Len(net.chan[B]) : ~corrupt(net.chan[B][i]) =>
     /\ net.chan[B][i].seqnum \in 1..Len(accepted)
     /\ net.chan[B][i].payload = accepted[net.chan[B][i].seqnum]

IInv == /\ TypeOK
        /\ Counters
        /\ InOrderOnce
        /\ AckedWasDelivered
        /\ QueueIsWindow
        /\ NeverCrashes
        /\ ExitMeansTransferred
        /\ TimerIffOutstanding
        /\ DataGenuine
        /\ AcksNeverGoBack

-----------------------------------------------------------------------------
\* What the channels hold, as a property of a sequence of packets.
Genuine(c, acc) ==
  \A i \in 1..Len(c) : ~corrupt(c[i]) =>
     c[i].seqnum \in 1..Len(acc) /\ c[i].payload = acc[c[i].seqnum]

AcksBetween(c, low, high) ==
  \A i \in 1..Len(c) : ~corrupt(c[i]) =>
     /\ c[i].acknum \in low..high
     /\ \A j \in i..Len(c) : ~corrupt(c[j]) => c[i].acknum <= c[j].acknum

LEMMA GenuineSent ==
  ASSUME NEW c \in Seq(Pkt), NEW acc, Genuine(c, acc),
         NEW p \in Pkt, p.seqnum \in 1..Len(acc), p.payload = acc[p.seqnum],
         NEW d \in AfterSend(c, p)
  PROVE  Genuine(d, acc)
<1>1. CASE d = c
  BY <1>1
<1>2. ASSUME NEW q \in Pkt, d = Append(c, q), q = p \/ corrupt(q)
      PROVE  Genuine(d, acc)
  <2>1. /\ Len(d) = Len(c) + 1
        /\ \A i \in 1..Len(c) : d[i] = c[i]
        /\ d[Len(d)] = q
        /\ Len(c) \in Nat
    BY <1>2
  <2> QED BY <2>1, <1>2 DEF Genuine
<1> QED BY <1>1, <1>2 DEF AfterSend

LEMMA GenuineResent ==
  ASSUME NEW c \in Seq(Pkt), NEW acc, Genuine(c, acc),
         NEW packets \in Seq(Pkt), Genuine(packets, acc),
         \A k \in 1..Len(packets) : ~corrupt(packets[k]),
         NEW t \in Arrivals(packets)
  PROVE  Genuine(c \o t, acc)
<1>1. /\ t \in Seq(Pkt)
      /\ \A i \in 1..Len(t) :
            corrupt(t[i]) \/ \E k \in 1..Len(packets) : t[i] = packets[k]
  BY DEF Arrivals
<1>2. Genuine(t, acc)
  BY <1>1 DEF Genuine
<1>3. /\ Len(c \o t) = Len(c) + Len(t)
      /\ Len(c) \in Nat /\ Len(t) \in Nat
      /\ \A i \in 1..Len(c) : (c \o t)[i] = c[i]
      /\ \A i \in (Len(c) + 1)..(Len(c) + Len(t)) : (c \o t)[i] = t[i - Len(c)]
  BY <1>1
<1>4. ASSUME NEW i \in 1..(Len(c) + Len(t))
      PROVE  i \in 1..Len(c) \/ i - Len(c) \in 1..Len(t)
  BY <1>3
<1> QED BY <1>2, <1>3, <1>4 DEF Genuine

LEMMA GenuineTaken ==
  ASSUME NEW c \in Seq(Pkt), c # << >>, NEW acc, Genuine(c, acc)
  PROVE  Genuine(Tail(c), acc)
<1>1. /\ Len(c) \in Nat \ {0}
      /\ Len(Tail(c)) = Len(c) - 1
      /\ \A i \in 1..Len(Tail(c)) : Tail(c)[i] = c[i + 1]
  OBVIOUS
<1> QED BY <1>1 DEF Genuine

LEMMA GenuineLonger ==
  ASSUME NEW c \in Seq(Pkt), NEW S, NEW acc \in Seq(S), NEW m, Genuine(c, acc)
  PROVE  Genuine(c, Append(acc, m))
<1>1. /\ Len(Append(acc, m)) = Len(acc) + 1
      /\ Len(acc) \in Nat
      /\ \A i \in 1..Len(acc) : Append(acc, m)[i] = acc[i]
  OBVIOUS
<1> QED BY <1>1 DEF Genuine

LEMMA AcksSent ==
  ASSUME NEW c \in Seq(Pkt), NEW low \in Int, NEW high \in Int, low <= high,
         AcksBetween(c, low, high),
         NEW p \in Pkt, p.acknum = high,
         NEW d \in AfterSend(c, p)
  PROVE  AcksBetween(d, low, high)
<1>1. CASE d = c
  BY <1>1
<1>2. ASSUME NEW q \in Pkt, d = Append(c, q), q = p \/ corrupt(q)
      PROVE  AcksBetween(d, low, high)
  <2>1. /\ Len(d) = Len(c) + 1
        /\ \A i \in 1..Len(c) : d[i] = c[i]
        /\ d[Len(d)] = q
        /\ Len(c) \in Nat
    BY <1>2
  <2> QED BY <2>1, <1>2 DEF AcksBetween
<1> QED BY <1>1, <1>2 DEF AfterSend

LEMMA AcksTaken ==
  ASSUME NEW c \in Seq(Pkt), c # << >>, NEW low \in Int, NEW high \in Int,
         AcksBetween(c, low, high)
  PROVE  /\ AcksBetween(Tail(c), low, high)
         /\ ~corrupt(c[1]) => /\ c[1].acknum \in low..high
                              /\ AcksBetween(Tail(c), c[1].acknum, high)
<1>1. /\ Len(c) \in Nat \ {0}
      /\ Len(Tail(c)) = Len(c) - 1
      /\ \A i \in 1..Len(Tail(c)) : Tail(c)[i] = c[i + 1]
  OBVIOUS
<1>2. \A i \in 1..Len(c) : c[i].acknum \in Int
  <2>1. \A i \in 1..Len(c) : c[i] \in Pkt
    BY ElementOfSeq
  <2> QED BY <2>1 DEF Pkt
<1> QED BY <1>1, <1>2 DEF AcksBetween

LEMMA AcksHigher ==
  ASSUME NEW c \in Seq(Pkt), NEW low \in Int, NEW high \in Int,
         AcksBetween(c, low, high)
  PROVE  AcksBetween(c, low, high + 1)
  BY DEF AcksBetween

-----------------------------------------------------------------------------
\* The inductive invariant.

LEMMA Facts ==
  ASSUME IInv
  PROVE  /\ net \in Medium
         /\ net.chan[A] \in Seq(Pkt)
         /\ net.chan[B] \in Seq(Pkt)
         /\ queue \in Seq(Pkt)
         /\ base \in Nat \ {0} /\ nextseqnum \in Nat /\ expectedseqnum \in Nat
         /\ base - 1 <= Len(delivered)
         /\ Len(delivered) <= Len(accepted)
         /\ Len(accepted) \in Nat /\ Len(delivered) \in Nat
         /\ accepted \in Seq(Letters)
         /\ delivered \in Seq(Letters)
         /\ Genuine(net.chan[B], accepted)
         /\ AcksBetween(net.chan[A], base - 1, Len(delivered))
<1> USE DEF IInv
<1>1. /\ net \in Medium /\ queue \in Seq(Pkt)
      /\ base \in Nat \ {0} /\ nextseqnum \in Nat /\ expectedseqnum \in Nat
      /\ accepted \in Seq(Letters) /\ delivered \in Seq(Letters)
  BY DEF TypeOK
<1>2. net.chan[A] \in Seq(Pkt) /\ net.chan[B] \in Seq(Pkt)
  BY <1>1 DEF Medium, Entity, A, B
<1>3. base - 1 <= Len(delivered) /\ Len(delivered) <= Len(accepted)
  BY DEF AckedWasDelivered, InOrderOnce
<1>4. Genuine(net.chan[B], accepted)
  BY DEF DataGenuine, Genuine
<1>5. AcksBetween(net.chan[A], base - 1, Len(delivered))
  BY DEF AcksNeverGoBack, AcksBetween
<1> QED BY <1>1, <1>2, <1>3, <1>4, <1>5

LEMMA InitIInv == Init => IInv
<1> SUFFICES ASSUME Init PROVE IInv
  OBVIOUS
<1> USE DEF Init, EntitiesInit, EmptyMedium
<1>1. net \in Medium
  BY DEF Medium
<1>2. net.chan[A] = << >> /\ net.chan[B] = << >> /\ net.timer[A] = FALSE
  BY DEF Entity, A, B
<1>3. B_sndpkt \in Pkt
  BY Fields
<1>4. TypeOK
  BY <1>1, <1>3, GbnAssumption DEF TypeOK
<1>5. Counters /\ InOrderOnce /\ AckedWasDelivered /\ NeverCrashes
  BY DEF Counters, InOrderOnce, AckedWasDelivered, NeverCrashes
<1>6. QueueIsWindow /\ ExitMeansTransferred /\ TimerIffOutstanding
  BY <1>2, GbnAssumption DEF QueueIsWindow, ExitMeansTransferred, TimerIffOutstanding
<1>7. DataGenuine /\ AcksNeverGoBack
  BY <1>2 DEF DataGenuine, AcksNeverGoBack
<1> QED BY <1>4, <1>5, <1>6, <1>7 DEF IInv
LEMMA FromLayer5Step ==
  ASSUME IInv, NEW fate \in Fates, FromLayer5(fate)
  PROVE  IInv'
<1> DEFINE message == LayerFiveData(nsim)
           p == make_pkt(nextseqnum, 0, message)
           m == Transmit(net, A, p, fate)
<1>1. /\ message \in Letters
      /\ nsim' = nsim + 1 /\ nsim' \in 0..nsimmax
      /\ A_output(message, net, fate)
      /\ UNCHANGED <<base, expectedseqnum, B_sndpkt, status, delivered>>
  BY LettersAreLetters, GbnAssumption, SMTT(30)
     DEF IInv, TypeOK, FromLayer5, Simulating, A_output
<1>2. CASE WindowOpen
  <2>1. /\ queue' = Append(queue, p)
        /\ net' = IF base = nextseqnum THEN SetTimer(m, A, TIMEOUT) ELSE m
        /\ nextseqnum' = nextseqnum + 1
        /\ accepted' = Append(accepted, message)
    BY <1>1, <1>2 DEF A_output
  <2>2. /\ p \in Sent /\ p \in Pkt
        /\ p.seqnum = nextseqnum /\ p.payload = message
    BY <1>1, Facts, Fields
  <2>3. A \in Entity /\ Peer(A) = B
    BY DEF Entity, Peer, A, B
  <2>4. /\ m \in Medium
        /\ m.timer = net.timer
        /\ m.chan[A] = net.chan[A]
        /\ m.chan[B] \in AfterSend(net.chan[B], p)
    BY <2>2, <2>3, Send, Facts
  <2>5. /\ net' \in Medium
        /\ net'.timer[A] <=> (net.timer[A] \/ base = nextseqnum)
        /\ net'.chan[A] = net.chan[A]
        /\ net'.chan[B] \in AfterSend(net.chan[B], p)
    <3>1. CASE base = nextseqnum
      BY <2>1, <2>3, <2>4, <3>1, Timers
    <3>2. CASE base # nextseqnum
      BY <2>1, <2>4, <3>2
    <3> QED BY <3>1, <3>2
  <2>6. /\ accepted' \in Seq(Letters)
        /\ Len(accepted') = Len(accepted) + 1
        /\ accepted'[Len(accepted) + 1] = message
        /\ \A i \in 1..Len(accepted) : accepted'[i] = accepted[i]
        /\ nextseqnum = Len(accepted) + 1
    BY <1>1, <2>1, Facts DEF IInv, Counters
  <2>7. TypeOK'
    <3>1. queue' \in Seq(Pkt)
      BY <2>1, <2>2, Facts
    <3> QED BY <1>1, <2>1, <2>5, <2>6, <3>1, Facts DEF IInv, TypeOK
  <2>8. Counters' /\ InOrderOnce' /\ AckedWasDelivered' /\ NeverCrashes'
           /\ ExitMeansTransferred'
    BY <1>1, <2>1, <2>6, Facts DEF IInv, Counters, InOrderOnce,
       AckedWasDelivered, NeverCrashes, ExitMeansTransferred
  <2>9. QueueIsWindow'
    <3>1. /\ Len(queue') = Len(queue) + 1
          /\ \A i \in 1..Len(queue) : queue'[i] = queue[i]
          /\ queue'[Len(queue) + 1] = p
      BY <2>1, <2>2, Facts
    <3>2. /\ Len(queue) = nextseqnum - base
          /\ \A i \in 1..Len(queue) :
               queue[i] = make_pkt(base + i - 1, 0, accepted[base + i - 1])
      BY DEF IInv, QueueIsWindow
    <3>3. Len(queue') = nextseqnum' - base' /\ Len(queue') <= N
      <4>1. /\ N \in Nat /\ base \in Nat /\ nextseqnum \in Nat
            /\ nextseqnum < base + N
            /\ base' = base /\ nextseqnum' = nextseqnum + 1
        BY <1>1, <1>2, <2>1, Facts, GbnAssumption DEF WindowOpen
      <4> QED BY <3>1, <3>2, <4>1
    <3>4. ASSUME NEW i \in 1..Len(queue')
          PROVE  queue'[i] = make_pkt(base + i - 1, 0, accepted'[base + i - 1])
      <4>1. CASE i \in 1..Len(queue)
        <5>1. base + i - 1 \in 1..Len(accepted)
          BY <2>6, <3>2, <4>1, Facts, SMTT(30)
        <5> QED BY <2>6, <3>1, <3>2, <4>1, <5>1
      <4>2. CASE i = Len(queue) + 1
        <5>1. base + i - 1 = nextseqnum
          BY <3>2, <4>2, Facts, SMTT(30)
        <5> QED BY <2>6, <3>1, <4>2, <5>1
      <4> QED BY <3>1, <4>1, <4>2, Facts
    <3> QED BY <1>1, <3>3, <3>4 DEF QueueIsWindow
  <2>10. TimerIffOutstanding'
    BY <1>1, <2>1, <2>5, <2>6, Facts DEF IInv, TimerIffOutstanding
  <2>11. DataGenuine'
    <3>1. Genuine(net.chan[B], accepted')
      BY <2>1, Facts, GenuineLonger
    <3>2. Genuine(net'.chan[B], accepted')
      <4>1. p.seqnum \in 1..Len(accepted') /\ p.payload = accepted'[p.seqnum]
        BY <2>2, <2>6, Facts
      <4> HIDE DEF p
      <4> QED BY <2>2, <2>5, <3>1, <4>1, Facts, GenuineSent
    <3> QED BY <3>2 DEF DataGenuine, Genuine
  <2>12. AcksNeverGoBack'
    BY <1>1, <2>5, Facts DEF AcksNeverGoBack, AcksBetween
  <2> QED BY <2>7, <2>8, <2>9, <2>10, <2>11, <2>12 DEF IInv
<1>3. CASE ~WindowOpen
  <2>1. UNCHANGED <<queue, net, nextseqnum, accepted>>
    BY <1>1, <1>3 DEF A_output
  <2> QED BY <1>1, <2>1 DEF IInv, TypeOK, Counters, InOrderOnce,
        AckedWasDelivered, QueueIsWindow, NeverCrashes, ExitMeansTransferred,
        TimerIffOutstanding, DataGenuine, AcksNeverGoBack
<1> QED BY <1>2, <1>3

LEMMA FromLayer3AtAStep ==
  ASSUME IInv, FromLayer3AtA
  PROVE  IInv'
<1> DEFINE packet == Head(net.chan[A])
           n == PacketTaken(net, A)
           ack == packet.acknum
<1>1. /\ net.chan[A] # << >>
      /\ nsim' = nsim
      /\ A_input(packet, n)
      /\ UNCHANGED <<nextseqnum, expectedseqnum, B_sndpkt, accepted, delivered>>
  BY DEF FromLayer3AtA, A_input
<1>2. /\ A \in Entity /\ B \in Entity \ {A}
      /\ n \in Medium /\ n.timer = net.timer
      /\ n.chan[A] = Tail(net.chan[A])
      /\ n.chan[B] = net.chan[B]
      /\ packet = net.chan[A][1]
  <2>1. A \in Entity /\ B \in Entity \ {A}
    BY DEF Entity, A, B
  <2> QED BY <1>1, <2>1, Facts, PacketOff
<1>3. /\ AcksBetween(n.chan[A], base - 1, Len(delivered))
      /\ ~corrupt(packet) => /\ ack \in (base - 1)..Len(delivered)
                             /\ AcksBetween(n.chan[A], ack, Len(delivered))
  BY <1>1, <1>2, Facts, AcksTaken
<1> HIDE DEF n, packet
<1>4. CASE /\ net' = n
           /\ UNCHANGED <<queue, base>>
           /\ status' \in {status, "exited"}
           /\ status' = "exited" => Len(delivered) >= AckLimit
  <2>1. TypeOK' /\ Counters' /\ InOrderOnce' /\ AckedWasDelivered'
        /\ QueueIsWindow' /\ NeverCrashes' /\ ExitMeansTransferred'
        /\ TimerIffOutstanding'
    BY <1>1, <1>2, <1>4 DEF IInv, TypeOK, Counters, InOrderOnce,
       AckedWasDelivered, QueueIsWindow, NeverCrashes, ExitMeansTransferred,
       TimerIffOutstanding
  <2>2. DataGenuine'
    <3>1. Genuine(net'.chan[B], accepted')
      BY <1>1, <1>2, <1>4, Facts
    <3> QED BY <3>1 DEF DataGenuine, Genuine
  <2>3. AcksNeverGoBack'
    <3>1. AcksBetween(net'.chan[A], base' - 1, Len(delivered'))
      BY <1>1, <1>3, <1>4
    <3> QED BY <3>1 DEF AcksNeverGoBack, AcksBetween
  <2> QED BY <2>1, <2>2, <2>3 DEF IInv
<1>5. CASE corrupt(packet)
  <2>1. net' = n /\ UNCHANGED <<queue, base, status>>
    BY <1>1, <1>5 DEF A_input
  <2> QED BY <1>4, <2>1 DEF IInv, ExitMeansTransferred
<1>6. CASE ~corrupt(packet) /\ ack >= AckLimit
  <2>1. net' = n /\ UNCHANGED <<queue, base>> /\ status' = "exited"
    BY <1>1, <1>6, GbnAssumption, Facts, <1>3 DEF A_input
  <2> QED BY <1>3, <1>4, <1>6, <2>1, Facts, GbnAssumption
<1>7. CASE ~corrupt(packet) /\ ack < AckLimit
  <2>1. AcceptAck(ack, n)
    BY <1>1, <1>7, <1>3, Facts, GbnAssumption DEF A_input
  <2> DEFINE k == Covered(ack)
  <2>2. ack \in Int /\ base - 1 <= ack /\ ack <= Len(delivered)
    BY <1>3, <1>7, Facts
  <2>3. k = ack - base + 1 /\ k \in Nat
    BY <2>2, Facts DEF Covered
  <2>4. /\ nextseqnum = Len(accepted) + 1
        /\ Len(queue) = nextseqnum - base
        /\ Len(queue) <= N
        /\ k <= Len(queue)
    BY <2>2, <2>3, Facts, SMTT(30) DEF IInv, Counters, QueueIsWindow
  <2>5. /\ queue' = SubSeq(queue, k + 1, Len(queue))
        /\ base' = ack + 1
        /\ net' = Restart(n, ack)
        /\ status' = status
    BY <2>1, <2>3, <2>4, Facts DEF AcceptAck
  <2> HIDE DEF k, ack
  <2>6. /\ net' \in Medium /\ net'.chan = n.chan
        /\ net'.timer[A] <=> ack + 1 # nextseqnum
    <3> DEFINE s == ClearTimer(n, A)
    <3>1. s \in Medium /\ s.chan = n.chan /\ ~ s.timer[A]
      BY <1>2, Timers
    <3>2. CASE ack + 1 = nextseqnum
      BY <2>5, <3>1, <3>2 DEF Restart
    <3>3. CASE ack + 1 # nextseqnum
      <4>1. net' = SetTimer(s, A, TIMEOUT)
        BY <2>5, <3>3 DEF Restart
      <4> HIDE DEF s
      <4> QED BY <1>2, <3>1, <3>3, <4>1, Timers
    <3> QED BY <3>2, <3>3
  <2>7. /\ queue' \in Seq(Pkt)
        /\ Len(queue') = Len(queue) - k
        /\ \A i \in 1..Len(queue') : queue'[i] = queue[i + k]
    <3>1. Len(queue) \in Nat
      BY Facts
    <3>2. \A i \in (k + 1)..Len(queue) : queue[i] \in Pkt
      BY <2>3, <3>1, Facts, ElementOfSeq
    <3>3. /\ queue' \in Seq(Pkt)
          /\ Len(queue') = IF k + 1 <= Len(queue) THEN Len(queue) - (k + 1) + 1 ELSE 0
          /\ \A i \in 1..(Len(queue) - (k + 1) + 1) : queue'[i] = queue[(k + 1) + i - 1]
      <4>1. k + 1 \in Int /\ Len(queue) \in Int
        BY <2>3, <3>1
      <4>2. \A i \in 1..(Len(queue) - (k + 1) + 1) :
               SubSeq(queue, k + 1, Len(queue))[i] = queue[(k + 1) + i - 1]
        BY <3>2, <4>1, SubSeqProperties
      <4>3. /\ SubSeq(queue, k + 1, Len(queue)) \in Seq(Pkt)
            /\ Len(SubSeq(queue, k + 1, Len(queue)))
                 = IF k + 1 <= Len(queue) THEN Len(queue) - (k + 1) + 1 ELSE 0
        BY <3>2, <4>1, SubSeqProperties
      <4> QED BY <2>5, <4>2, <4>3
    <3>4. Len(queue') = Len(queue) - k
      BY <2>3, <2>4, <3>1, <3>3
    <3>5. ASSUME NEW i \in 1..Len(queue')
          PROVE  i \in 1..(Len(queue) - (k + 1) + 1) /\ (k + 1) + i - 1 = i + k
      BY <2>3, <3>1, <3>4
    <3> QED BY <3>3, <3>4, <3>5
  <2>8. TypeOK'
    BY <1>1, <2>2, <2>5, <2>6, <2>7, Facts, SMTT(30) DEF IInv, TypeOK
  <2>9. Counters' /\ InOrderOnce' /\ NeverCrashes' /\ ExitMeansTransferred'
    BY <1>1, <2>5 DEF IInv, Counters, InOrderOnce, NeverCrashes,
                      ExitMeansTransferred
  <2>10. AckedWasDelivered' /\ TimerIffOutstanding'
    BY <1>1, <2>2, <2>4, <2>5, <2>6, Facts, SMTT(30)
       DEF IInv, AckedWasDelivered, TimerIffOutstanding
  <2>11. QueueIsWindow'
    <3>1. Len(queue') = nextseqnum' - base' /\ Len(queue') <= N
      <4>1. N \in Nat /\ base \in Nat /\ nextseqnum \in Nat /\ Len(queue) \in Nat
        BY Facts, GbnAssumption
      <4> QED BY <1>1, <2>2, <2>3, <2>4, <2>5, <2>7, <4>1
    <3>2. ASSUME NEW i \in 1..Len(queue')
          PROVE  queue'[i] = make_pkt(base' + i - 1, 0, accepted[base' + i - 1])
      <4>1. i + k \in 1..Len(queue) /\ base + (i + k) - 1 = base' + i - 1
        <5>1. base \in Nat /\ Len(queue) \in Nat
          BY Facts
        <5> QED BY <2>2, <2>3, <2>4, <2>5, <2>7, <5>1
      <4> QED BY <2>7, <4>1 DEF IInv, QueueIsWindow
    <3> QED BY <1>1, <3>1, <3>2 DEF QueueIsWindow
  <2>12. DataGenuine'
    <3>1. Genuine(net'.chan[B], accepted')
      BY <1>1, <1>2, <2>6, Facts
    <3> QED BY <3>1 DEF DataGenuine, Genuine
  <2>13. AcksNeverGoBack'
    <3>1. AcksBetween(net'.chan[A], base' - 1, Len(delivered'))
      <4>1. base' - 1 = ack
        BY <2>2, <2>5
      <4> QED BY <1>1, <1>3, <1>7, <2>6, <4>1 DEF ack
    <3> QED BY <3>1 DEF AcksNeverGoBack, AcksBetween
  <2> QED BY <2>8, <2>9, <2>10, <2>11, <2>12, <2>13 DEF IInv
<1> QED BY <1>1, <1>5, <1>6, <1>7, Facts, GbnAssumption DEF A_input
LEMMA FromLayer3AtBStep ==
  ASSUME IInv, NEW fate \in Fates, FromLayer3AtB(fate)
  PROVE  IInv'
<1> DEFINE packet == Head(net.chan[B])
           n == PacketTaken(net, B)
           c == Tail(net.chan[B])
<1>1. /\ net.chan[B] # << >>
      /\ nsim' = nsim
      /\ B_input(packet, n, fate)
      /\ UNCHANGED <<base, nextseqnum, queue, status, accepted>>
  BY DEF FromLayer3AtB, B_input
<1>2. /\ B \in Entity /\ A \in Entity \ {B} /\ Peer(B) = A
  BY DEF Entity, Peer, A, B
<1>3. /\ n \in Medium /\ n.timer = net.timer
      /\ n.chan[B] = c
      /\ n.chan[A] = net.chan[A]
      /\ packet \in Pkt /\ packet = net.chan[B][1]
  BY <1>1, <1>2, Facts, PacketOff
<1>4. ASSUME NEW k \in Nat
      PROVE  LET p == make_pkt(0, k, NoData)
                 m == Transmit(n, B, p, fate)
             IN  /\ p \in Pkt /\ p.acknum = k
                 /\ m \in Medium
                 /\ m.timer = net.timer
                 /\ m.chan[B] = c
                 /\ m.chan[A] \in AfterSend(net.chan[A], p)
  <2>1. make_pkt(0, k, NoData) \in Sent
    BY Fields
  <2>2. make_pkt(0, k, NoData) \in Pkt /\ make_pkt(0, k, NoData).acknum = k
    BY Fields
  <2> QED BY <1>2, <1>3, <2>1, <2>2, Send
<1>5. Genuine(c, accepted)
  BY <1>1, Facts, GenuineTaken
<1>6. /\ B_sndpkt = make_pkt(0, Len(delivered), NoData)
      /\ expectedseqnum = Len(delivered) + 1
      /\ nextseqnum = Len(accepted) + 1
  BY DEF IInv, Counters
<1> HIDE DEF n, packet, c
<1>7. CASE /\ UNCHANGED <<expectedseqnum, B_sndpkt, delivered>>
           /\ net' \in Medium
           /\ net'.timer = net.timer
           /\ net'.chan[B] = c
           /\ net'.chan[A] \in AfterSend(net.chan[A], B_sndpkt) \cup {net.chan[A]}
  <2>1. TypeOK' /\ Counters' /\ InOrderOnce' /\ AckedWasDelivered'
        /\ QueueIsWindow' /\ NeverCrashes' /\ ExitMeansTransferred'
        /\ TimerIffOutstanding'
    BY <1>1, <1>7 DEF IInv, TypeOK, Counters, InOrderOnce,
       AckedWasDelivered, QueueIsWindow, NeverCrashes, ExitMeansTransferred,
       TimerIffOutstanding
  <2>2. DataGenuine'
    <3>1. Genuine(net'.chan[B], accepted')
      BY <1>1, <1>5, <1>7
    <3> QED BY <3>1 DEF DataGenuine, Genuine
  <2>3. AcksNeverGoBack'
    <3>1. AcksBetween(net'.chan[A], base - 1, Len(delivered))
      <4>1. B_sndpkt \in Pkt /\ B_sndpkt.acknum = Len(delivered)
        BY <1>4, <1>6, Facts
      <4>2. base - 1 \in Int /\ Len(delivered) \in Int /\ base - 1 <= Len(delivered)
        BY Facts
      <4> QED BY <1>7, <4>1, <4>2, Facts, AcksSent
    <3>2. AcksBetween(net'.chan[A], base' - 1, Len(delivered'))
      BY <1>1, <1>7, <3>1
    <3> QED BY <3>2 DEF AcksNeverGoBack, AcksBetween
  <2> QED BY <2>1, <2>2, <2>3 DEF IInv
<1>8. CASE corrupt(packet)
  <2>1. net' = n /\ UNCHANGED <<expectedseqnum, B_sndpkt, delivered>>
    BY <1>1, <1>8 DEF B_input
  <2> QED BY <1>3, <1>7, <2>1
<1>9. CASE ~corrupt(packet) /\ ~IsExpected(packet)
  <2>1. /\ net' = Transmit(n, B, B_sndpkt, fate)
        /\ UNCHANGED <<expectedseqnum, B_sndpkt, delivered>>
    BY <1>1, <1>9 DEF B_input
  <2>2. /\ net' \in Medium
        /\ net'.timer = net.timer
        /\ net'.chan[B] = c
        /\ net'.chan[A] \in AfterSend(net.chan[A], B_sndpkt)
    BY <1>4, <1>6, <2>1, Facts
  <2> QED BY <1>7, <2>1, <2>2
<1>10. CASE ~corrupt(packet) /\ IsExpected(packet)
  <2>1. /\ delivered' = Append(delivered, packet.payload)
        /\ B_sndpkt' = make_pkt(0, expectedseqnum, NoData)
        /\ net' = Transmit(n, B, B_sndpkt', fate)
        /\ expectedseqnum' = expectedseqnum + 1
    BY <1>1, <1>10 DEF B_input
  <2>2. /\ B_sndpkt' \in Pkt /\ B_sndpkt'.acknum = Len(delivered) + 1
        /\ net' \in Medium
        /\ net'.timer = net.timer
        /\ net'.chan[B] = c
        /\ net'.chan[A] \in AfterSend(net.chan[A], B_sndpkt')
    BY <1>4, <1>6, <2>1, Facts
  <2>3. /\ Len(delivered) + 1 \in 1..Len(accepted)
        /\ packet.payload = accepted[Len(delivered) + 1]
    <3>1. 1 \in 1..Len(net.chan[B]) /\ packet.seqnum = Len(delivered) + 1
      BY <1>1, <1>6, <1>10, Facts DEF IsExpected
    <3> QED BY <1>3, <1>10, <3>1, Facts DEF Genuine
  <2>4. /\ packet.payload \in Letters
        /\ delivered' \in Seq(Letters)
        /\ Len(delivered') = Len(delivered) + 1
        /\ delivered'[Len(delivered) + 1] = accepted[Len(delivered) + 1]
        /\ \A i \in 1..Len(delivered) : delivered'[i] = delivered[i]
    BY <2>1, <2>3, Facts
  <2>5. TypeOK'
    BY <1>1, <2>1, <2>2, <2>4, Facts DEF IInv, TypeOK
  <2>6. Counters'
    <3>1. B_sndpkt' = make_pkt(0, Len(delivered'), NoData)
      BY <1>6, <2>1, <2>4
    <3> QED BY <1>1, <1>6, <2>1, <2>4, <3>1 DEF Counters
  <2>7. InOrderOnce'
    BY <1>1, <2>3, <2>4, Facts DEF IInv, InOrderOnce
  <2>8. AckedWasDelivered' /\ ExitMeansTransferred'
    BY <1>1, <1>6, <2>3, <2>4, Facts, GbnAssumption
       DEF IInv, AckedWasDelivered, ExitMeansTransferred
  <2>9. QueueIsWindow' /\ NeverCrashes' /\ TimerIffOutstanding'
    BY <1>1, <2>2 DEF IInv, QueueIsWindow, NeverCrashes, TimerIffOutstanding
  <2>10. DataGenuine'
    <3>1. Genuine(net'.chan[B], accepted')
      BY <1>1, <1>5, <2>2
    <3> QED BY <3>1 DEF DataGenuine, Genuine
  <2>11. AcksNeverGoBack'
    <3>1. /\ base - 1 \in Int /\ Len(delivered) \in Int
          /\ Len(delivered) + 1 \in Int /\ base - 1 <= Len(delivered) + 1
      BY Facts
    <3>2. AcksBetween(net.chan[A], base - 1, Len(delivered) + 1)
      BY <3>1, Facts, AcksHigher
    <3>3. AcksBetween(net'.chan[A], base - 1, Len(delivered) + 1)
      BY <2>2, <3>1, <3>2, Facts, AcksSent
    <3>4. AcksBetween(net'.chan[A], base' - 1, Len(delivered'))
      BY <1>1, <2>4, <3>3
    <3> QED BY <3>4 DEF AcksNeverGoBack, AcksBetween
  <2> QED BY <2>5, <2>6, <2>7, <2>8, <2>9, <2>10, <2>11 DEF IInv
<1> QED BY <1>8, <1>9, <1>10

LEMMA TimerInterruptStep ==
  ASSUME IInv, NEW s \in Survivals(Len(queue)), TimerInterrupt(s)
  PROVE  IInv'
<1> DEFINE n == SetTimer(TimerTaken(net, A), A, TIMEOUT)
<1>1. /\ net.timer[A]
      /\ net' = TransmitEach(n, A, queue, s)
      /\ UNCHANGED <<base, nextseqnum, queue, expectedseqnum, B_sndpkt, status,
                     accepted, delivered, nsim>>
  BY DEF TimerInterrupt, A_timerinterrupt, Resend
<1>2. A \in Entity /\ Peer(A) = B
  BY DEF Entity, Peer, A, B
<1>3. n \in Medium /\ n.chan = net.chan /\ n.timer[A]
  <2> DEFINE l == TimerTaken(net, A)
  <2>1. l \in Medium /\ l.chan = net.chan
    BY <1>2, Facts, Timers
  <2>2. n = SetTimer(l, A, TIMEOUT)
    OBVIOUS
  <2> HIDE DEF l, n
  <2> QED BY <1>2, <2>1, <2>2, Timers
<1>4. /\ Len(queue) = nextseqnum - base
      /\ nextseqnum = Len(accepted) + 1
      /\ \A i \in 1..Len(queue) :
           queue[i] = make_pkt(base + i - 1, 0, accepted[base + i - 1])
  BY DEF IInv, QueueIsWindow, Counters
<1>5. ASSUME NEW i \in 1..Len(queue)
      PROVE  /\ queue[i] \in Sent
             /\ ~corrupt(queue[i])
             /\ queue[i].seqnum \in 1..Len(accepted)
             /\ queue[i].payload = accepted[queue[i].seqnum]
  <2>1. base + i - 1 \in 1..Len(accepted)
    BY <1>4, Facts, SMTT(30)
  <2>2. accepted[base + i - 1] \in Letters
    BY <2>1, Facts, ElementOfSeq
  <2>3. base + i - 1 \in Int
    BY <2>1
  <2> QED BY <1>4, <2>1, <2>2, <2>3, Fields
<1>6. queue \in Seq(Sent) /\ Genuine(queue, accepted)
  <2>1. queue \in [1..Len(queue) -> Sent] /\ Len(queue) \in Nat
    BY <1>5, Facts, LenProperties
  <2> QED BY <1>5, <2>1 DEF Genuine
<1> HIDE DEF n
<1>7. /\ net' \in Medium
      /\ net'.timer[A]
      /\ net'.chan[A] = net.chan[A]
      /\ \E t \in Arrivals(queue) : net'.chan[B] = net.chan[B] \o t
  <2> DEFINE m == TransmitEach(n, A, queue, s)
  <2>1. /\ m \in Medium
        /\ m.timer = n.timer
        /\ m.chan[A] = n.chan[A]
        /\ \E t \in Arrivals(queue) : m.chan[Peer(A)] = n.chan[Peer(A)] \o t
    BY <1>2, <1>3, <1>6, SendEach
  <2>2. net' = m
    BY <1>1
  <2> HIDE DEF m
  <2> QED BY <1>2, <1>3, <2>1, <2>2
<1>8. TypeOK' /\ Counters' /\ InOrderOnce' /\ AckedWasDelivered'
      /\ QueueIsWindow' /\ NeverCrashes' /\ ExitMeansTransferred'
      /\ TimerIffOutstanding'
  BY <1>1, <1>7 DEF IInv, TypeOK, Counters, InOrderOnce,
     AckedWasDelivered, QueueIsWindow, NeverCrashes, ExitMeansTransferred,
     TimerIffOutstanding
<1>9. DataGenuine'
  <2>1. Genuine(net'.chan[B], accepted)
    BY <1>5, <1>6, <1>7, Facts, GenuineResent
  <2> QED BY <1>1, <2>1 DEF DataGenuine, Genuine
<1>10. AcksNeverGoBack'
  BY <1>1, <1>7, Facts DEF AcksNeverGoBack, AcksBetween
<1> QED BY <1>8, <1>9, <1>10 DEF IInv

LEMMA TerminateStep ==
  ASSUME IInv, Terminate
  PROVE  IInv'
  BY DEF Terminate, IInv, TypeOK, Counters, InOrderOnce, AckedWasDelivered,
     QueueIsWindow, NeverCrashes, ExitMeansTransferred, TimerIffOutstanding,
     DataGenuine, AcksNeverGoBack

LEMMA StutterStep ==
  ASSUME IInv, UNCHANGED vars
  PROVE  IInv'
  BY DEF vars, IInv, TypeOK, Counters, InOrderOnce, AckedWasDelivered,
     QueueIsWindow, NeverCrashes, ExitMeansTransferred, TimerIffOutstanding,
     DataGenuine, AcksNeverGoBack

LEMMA NextIInv == IInv /\ [Next]_vars => IInv'
<1> SUFFICES ASSUME IInv, [Next]_vars PROVE IInv'
  OBVIOUS
<1>1. CASE \E fate \in Fates : FromLayer5(fate)
  BY <1>1, FromLayer5Step
<1>2. CASE \E fate \in Fates : FromLayer3AtB(fate)
  BY <1>2, FromLayer3AtBStep
<1>3. CASE \E s \in Survivals(Len(queue)) : TimerInterrupt(s)
  BY <1>3, TimerInterruptStep
<1>4. CASE FromLayer3AtA
  BY <1>4, FromLayer3AtAStep
<1>5. CASE Terminate
  BY <1>5, TerminateStep
<1>6. CASE UNCHANGED vars
  BY <1>6, StutterStep
<1> QED BY <1>1, <1>2, <1>3, <1>4, <1>5, <1>6 DEF Next

LEMMA Invariance == Spec => []IInv
  BY InitIInv, NextIInv, PTL DEF Spec
-----------------------------------------------------------------------------
(***************************************************************************)
(* The results.                                                            *)
(***************************************************************************)

\* Every variable of gbn.c and of its medium keeps its type; in particular
\* layer 5 at B is never given a payload the medium damaged.
THEOREM TypeCorrect == Spec => []TypeOK
<1>1. IInv => TypeOK
  BY DEF IInv
<1> QED BY <1>1, Invariance, PTL

\* Layer 5 at B gets what A took, in order and each message once, however
\* often A sends the window again.
THEOREM DeliveredInOrderOnce == Spec => []InOrderOnce
<1>1. IInv => InOrderOnce
  BY DEF IInv
<1> QED BY <1>1, Invariance, PTL

\* A slides its window only over messages B has handed over.
THEOREM AcknowledgedWasDelivered == Spec => []AckedWasDelivered
<1>1. IInv => AckedWasDelivered
  BY DEF IInv
<1> QED BY <1>1, Invariance, PTL

\* The queue holds exactly the packets of the window, and at most N.
THEOREM WindowQueue == Spec => []QueueIsWindow
<1>1. IInv => QueueIsWindow
  BY DEF IInv
<1> QED BY <1>1, Invariance, PTL

\* A_input never removes the head of an empty queue.
THEOREM NoCrash == Spec => []NeverCrashes
<1>1. IInv => NeverCrashes
  BY DEF IInv
<1> QED BY <1>1, Invariance, PTL

\* When A exits with "20 messages were successfully transfered", they were.
THEOREM ExitIsTruthful == Spec => []ExitMeansTransferred
<1>1. IInv => ExitMeansTransferred
  BY DEF IInv
<1> QED BY <1>1, Invariance, PTL

\* A's timer is pending exactly while a packet is unacknowledged.
THEOREM TimerDiscipline == Spec => []TimerIffOutstanding
<1>1. IInv => TimerIffOutstanding
  BY DEF IInv
<1> QED BY <1>1, Invariance, PTL

\* The acknowledgements under way are in order, none below what A knows.
THEOREM AcksOrdered == Spec => []AcksNeverGoBack
<1>1. IInv => AcksNeverGoBack
  BY DEF IInv
<1> QED BY <1>1, Invariance, PTL

-----------------------------------------------------------------------------
\* What A_input does to the window, when the first acknowledgement is taken.
LEMMA AckEffect ==
  ASSUME IInv, FromLayer3AtA
  PROVE  \/ UNCHANGED <<base, status, accepted, delivered>>
         \/ /\ base' \in (base + 1)..(Len(delivered) + 1)
            /\ UNCHANGED <<status, accepted, delivered>>
         \/ status' = "exited" /\ UNCHANGED <<base, accepted, delivered>>
<1> DEFINE packet == Head(net.chan[A])
           n == PacketTaken(net, A)
<1>1. /\ net.chan[A] # << >>
      /\ A_input(packet, n)
      /\ UNCHANGED <<accepted, delivered>>
  BY DEF FromLayer3AtA, A_input
<1>2. ~corrupt(packet) => packet.acknum \in (base - 1)..Len(delivered)
  <2>1. A \in Entity
    BY DEF Entity, A
  <2>2. packet = net.chan[A][1]
    BY <1>1, <2>1, Facts, PacketOff
  <2>3. base - 1 \in Int /\ Len(delivered) \in Int
    BY Facts
  <2> QED BY <1>1, <2>2, <2>3, Facts, AcksTaken
<1> HIDE DEF packet, n
<1>3. CASE corrupt(packet)
  BY <1>1, <1>3 DEF A_input
<1>4. CASE ~corrupt(packet) /\ packet.acknum >= AckLimit
  BY <1>1, <1>2, <1>4, Facts, GbnAssumption DEF A_input
<1>5. CASE ~corrupt(packet) /\ packet.acknum < AckLimit
  <2>1. AcceptAck(packet.acknum, n)
    BY <1>1, <1>2, <1>5, Facts, GbnAssumption DEF A_input
  <2>2. status' = "crashed" \/ (base' = packet.acknum + 1 /\ UNCHANGED status)
    BY <2>1 DEF AcceptAck
  <2>3. status' # "crashed"
    BY FromLayer3AtAStep DEF IInv, NeverCrashes
  <2> QED BY <1>1, <1>2, <1>5, <2>2, <2>3, Facts
<1> QED BY <1>1, <1>3, <1>4, <1>5 DEF A_input

\* Whatever the order of acknowledgements and time-outs, neither end of the
\* window nor B's next expected number ever moves back.
THEOREM WindowMonotone == Spec => WindowNeverMovesBack
<1> DEFINE Forward == /\ base' >= base /\ nextseqnum' >= nextseqnum
                      /\ expectedseqnum' >= expectedseqnum
<1>1. IInv /\ [Next]_vars => [Forward]_vars
  <2> SUFFICES ASSUME IInv, Next PROVE Forward
    OBVIOUS
  <2>1. base \in Nat /\ nextseqnum \in Nat /\ expectedseqnum \in Nat
    BY Facts
  <2>2. ASSUME NEW fate \in Fates, FromLayer5(fate) PROVE Forward
    BY <2>1, <2>2 DEF FromLayer5, A_output
  <2>3. ASSUME NEW fate \in Fates, FromLayer3AtB(fate) PROVE Forward
    BY <2>1, <2>3 DEF FromLayer3AtB, B_input
  <2>4. ASSUME NEW s \in Survivals(Len(queue)), TimerInterrupt(s) PROVE Forward
    BY <2>1, <2>4 DEF TimerInterrupt, A_timerinterrupt
  <2>5. ASSUME FromLayer3AtA PROVE Forward
    <3>1. UNCHANGED <<nextseqnum, expectedseqnum>>
      BY <2>5 DEF FromLayer3AtA, A_input
    <3>2. base' = base \/ base' \in (base + 1)..(Len(delivered) + 1)
      BY <2>5, AckEffect
    <3> QED BY <2>1, <3>1, <3>2
  <2>6. ASSUME Terminate PROVE Forward
    BY <2>1, <2>6 DEF Terminate
  <2> QED BY <2>2, <2>3, <2>4, <2>5, <2>6 DEF Next
<1> QED BY <1>1, Invariance, PTL DEF Spec, WindowNeverMovesBack

LEMMA InitTransfer == Init => Transfer!Init
  BY DEF Init, EntitiesInit, Transfer!Init

LEMMA NextTransfer == IInv /\ [Next]_vars => [Transfer!Next]_Transfer!rtvars
<1> SUFFICES ASSUME IInv, [Next]_vars
             PROVE  [Transfer!Next]_Transfer!rtvars
  OBVIOUS
<1> USE DEF Transfer!Next, Transfer!rtvars
<1>1. ASSUME NEW fate \in Fates, FromLayer5(fate)
      PROVE  [Transfer!Next]_Transfer!rtvars
  <2>1. /\ status = "running" /\ A_output(LayerFiveData(nsim), net, fate)
        /\ UNCHANGED <<base, status, delivered>>
    BY <1>1 DEF FromLayer5, Simulating, A_output
  <2>2. CASE ~WindowOpen
    BY <2>1, <2>2 DEF A_output
  <2>3. CASE WindowOpen
    <3>1. LayerFiveData(nsim) \in Letters
      BY LettersAreLetters DEF IInv, TypeOK
    <3>2. Len(accepted) - (base - 1) < N
      <4>1. nextseqnum = Len(accepted) + 1 /\ nextseqnum < base + N /\ N \in Nat
        BY <2>3, GbnAssumption DEF IInv, Counters, WindowOpen
      <4> QED BY <4>1, Facts
    <3>3. Transfer!Accept
      BY <2>1, <2>3, <3>1, <3>2 DEF A_output, Transfer!Accept
    <3> QED BY <3>3
  <2> QED BY <2>2, <2>3
<1>2. ASSUME FromLayer3AtA
      PROVE  [Transfer!Next]_Transfer!rtvars
  <2>1. status = "running"
    BY <1>2 DEF FromLayer3AtA, Simulating
  <2>2. CASE UNCHANGED <<base, status, accepted, delivered>>
    BY <2>2
  <2>3. CASE /\ base' \in (base + 1)..(Len(delivered) + 1)
             /\ UNCHANGED <<status, accepted, delivered>>
    <3>1. Transfer!Ack
      BY <2>1, <2>3, Facts DEF Transfer!Ack
    <3> QED BY <3>1
  <2>4. CASE status' = "exited" /\ UNCHANGED <<base, accepted, delivered>>
    BY <2>1, <2>4 DEF Transfer!Stop
  <2> QED BY <1>2, <2>2, <2>3, <2>4, AckEffect
<1>3. ASSUME NEW fate \in Fates, FromLayer3AtB(fate)
      PROVE  [Transfer!Next]_Transfer!rtvars
  <2>1. /\ status = "running"
        /\ UNCHANGED <<base, accepted, status>>
    BY <1>3 DEF FromLayer3AtB, Simulating, B_input
  <2>2. CASE UNCHANGED delivered
    BY <2>1, <2>2
  <2>3. CASE delivered' # delivered
    <3>1. PICK payload : delivered' = Append(delivered, payload)
      BY <1>3, <2>3 DEF FromLayer3AtB, B_input
    <3>2. IInv'
      BY <1>3, FromLayer3AtBStep
    <3>3. /\ delivered' \in Seq(Letters)
          /\ Len(delivered') <= Len(accepted')
          /\ \A i \in 1..Len(delivered') : delivered'[i] = accepted'[i]
      BY <3>2 DEF IInv, TypeOK, InOrderOnce
    <3>4. /\ Len(delivered') = Len(delivered) + 1
          /\ delivered'[Len(delivered) + 1] = payload
          /\ Len(delivered) \in Nat
      BY <3>1, Facts
    <3>5. payload = accepted[Len(delivered) + 1] /\ Len(delivered) < Len(accepted)
      BY <2>1, <3>3, <3>4, Facts
    <3>6. Transfer!Deliver
      BY <2>1, <3>1, <3>5 DEF Transfer!Deliver
    <3> QED BY <3>6
  <2> QED BY <2>2, <2>3
<1>4. ASSUME NEW s \in Survivals(Len(queue)), TimerInterrupt(s)
      PROVE  [Transfer!Next]_Transfer!rtvars
  BY <1>4 DEF TimerInterrupt, A_timerinterrupt
<1>5. ASSUME Terminate
      PROVE  [Transfer!Next]_Transfer!rtvars
  BY <1>5 DEF Terminate, Transfer!Stop
<1>6. ASSUME UNCHANGED vars
      PROVE  [Transfer!Next]_Transfer!rtvars
  BY <1>6 DEF vars
<1> QED BY <1>1, <1>2, <1>3, <1>4, <1>5, <1>6 DEF Next

\* The go-back-N program implements reliable transfer with a window of N
\* messages: every step of gbn.c and its emulator is a step of
\* ReliableTransfer or leaves sent, recvd, acked and running as they are.
THEOREM Refinement == Spec => Transfer!Spec
  BY InitTransfer, NextTransfer, Invariance, PTL DEF Spec, Transfer!Spec
=============================================================================

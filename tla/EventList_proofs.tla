-------------------------- MODULE EventList_proofs --------------------------
(***************************************************************************)
(* What the services of main.c do to a medium, without the clock           *)
(* (FifoMedium.tla) and with it (EventList.tla), that the second is the    *)
(* first, and that the checksum shows whatever the medium does to a        *)
(* packet: the lemmas the proofs about abp.c and gbn.c share.              *)
(***************************************************************************)
EXTENDS FifoMedium, EventList, SequenceTheorems, WellFoundedInduction, TLAPS

\* The packets the entities of abp.c and gbn.c ever hand to Transmit.
Sent == {make_pkt(s, a, d) : s \in Int, a \in Int, d \in Letters \cup {NoData}}

LEMMA LettersAreLetters ==
  /\ \A k \in Nat : LayerFiveData(k) \in Letters
  /\ \A d \in Letters : d.first \in 97..122 /\ d.rest = d.first
  /\ \A d \in Letters : d = [first |-> d.first, rest |-> d.rest]
  /\ Letters \subseteq [first : Int, rest : Int]
  /\ NoData \in [first : Int, rest : Int]
<1>1. ASSUME NEW k \in Nat PROVE LayerFiveData(k) \in Letters
  <2>1. /\ k % 26 \in 0..25
        /\ (k % 26) % 26 = k % 26
    OBVIOUS
  <2>2. LayerFiveData(k) = LayerFiveData(k % 26)
    BY <2>1 DEF LayerFiveData
  <2> QED BY <2>1, <2>2 DEF Letters
<1>2. ASSUME NEW d \in Letters
      PROVE /\ d.first \in 97..122
            /\ d.rest = d.first
            /\ d = [first |-> d.first, rest |-> d.rest]
            /\ d \in [first : Int, rest : Int]
  BY DEF Letters, LayerFiveData
<1> QED BY <1>1, <1>2 DEF NoData

\* The checksum shows every damage the medium does to a packet of these
\* protocols (it would not show, say, two payload bytes swapped).
LEMMA SentPackets ==
  ASSUME NEW p \in Sent
  PROVE  /\ p \in Pkt
         /\ ~corrupt(p)
         /\ \A f \in Fates : Damage(p, f) = p \/ corrupt(Damage(p, f))
         /\ \A f \in Fates : Damage(p, f) \in Pkt
<1>1. PICK s \in Int, a \in Int, d \in Letters \cup {NoData} :
         p = make_pkt(s, a, d)
  BY DEF Sent
<1>2. /\ d \in [first : Int, rest : Int]
      /\ d = [first |-> d.first, rest |-> d.rest]
      /\ d.first # 90
      /\ d.first \in Int /\ d.rest \in Int
  BY LettersAreLetters DEF NoData
<1>3. p = [seqnum |-> s, acknum |-> a,
           checksum |-> d.first + 19 * d.rest + s + a, payload |-> d]
  BY <1>1 DEF make_pkt, calc_checksum
<1>4. p \in Pkt /\ ~corrupt(p)
  BY <1>2, <1>3 DEF Pkt, corrupt, calc_checksum
<1>5. ASSUME NEW f \in Fates
      PROVE  /\ Damage(p, f) = p \/ corrupt(Damage(p, f))
             /\ Damage(p, f) \in Pkt
  <2>1. CASE f = "payload"
    <3>1. Damage(p, f) = [p EXCEPT !.payload.first = 90]
      BY <2>1 DEF Damage
    <3> QED BY <3>1, <1>2, <1>3 DEF corrupt, calc_checksum, Pkt
  <2>2. CASE f = "seqnum"
    <3>1. Damage(p, f) = [p EXCEPT !.seqnum = 999999]
      BY <2>2 DEF Damage
    <3> QED BY <3>1, <1>2, <1>3 DEF corrupt, calc_checksum, Pkt
  <2>3. CASE f = "acknum"
    <3>1. Damage(p, f) = [p EXCEPT !.acknum = 999999]
      BY <2>3 DEF Damage
    <3> QED BY <3>1, <1>2, <1>3 DEF corrupt, calc_checksum, Pkt
  <2>4. CASE f \notin {"payload", "seqnum", "acknum"}
    BY <2>4, <1>4 DEF Damage
  <2> QED BY <2>1, <2>2, <2>3, <2>4
<1> QED BY <1>4, <1>5

LEMMA Fields ==
  ASSUME NEW s \in Int, NEW a \in Int, NEW d \in Letters \cup {NoData}
  PROVE  /\ make_pkt(s, a, d) \in Sent
         /\ make_pkt(s, a, d) \in Pkt
         /\ ~corrupt(make_pkt(s, a, d))
         /\ make_pkt(s, a, d).seqnum = s
         /\ make_pkt(s, a, d).acknum = a
         /\ make_pkt(s, a, d).payload = d
<1>1. make_pkt(s, a, d) \in Sent
  <2>1. \E s1 \in Int, a1 \in Int, d1 \in Letters \cup {NoData} :
           make_pkt(s, a, d) = make_pkt(s1, a1, d1)
    BY Zenon
  <2> QED BY <2>1, SMT DEF Sent
<1>2. /\ make_pkt(s, a, d) \in Pkt
      /\ ~corrupt(make_pkt(s, a, d))
  BY <1>1, SentPackets
<1>3. /\ make_pkt(s, a, d).seqnum = s
      /\ make_pkt(s, a, d).acknum = a
      /\ make_pkt(s, a, d).payload = d
  BY DEF make_pkt
<1> QED BY <1>1, <1>2, <1>3

-----------------------------------------------------------------------------
\* The medium.

\* What a channel holding c may hold after p was sent on it.
AfterSend(c, p) ==
  {c, Append(c, p)} \cup {Append(c, q) : q \in {r \in Pkt : corrupt(r)}}

LEMMA ChannelsReplaced ==
  ASSUME NEW n \in Medium
  PROVE  \A v : [n EXCEPT !.chan = v] = [chan |-> v, timer |-> n.timer]
  BY DEF Medium

LEMMA ChannelReplaced ==
  ASSUME NEW n \in Medium
  PROVE  \A d, u : [n EXCEPT !.chan[d] = u]
                      = [chan |-> [n.chan EXCEPT ![d] = u], timer |-> n.timer]
  BY ChannelsReplaced, Zenon

LEMMA TransmitIs ==
  ASSUME NEW n \in Medium, NEW e, NEW p, NEW f, f # "lost"
  PROVE  Transmit(n, e, p, f)
           = [chan |-> [n.chan EXCEPT ![Peer(e)] = Append(n.chan[Peer(e)], Damage(p, f))],
              timer |-> n.timer]
<1> DEFINE c == [n.chan EXCEPT ![Peer(e)] = Append(n.chan[Peer(e)], Damage(p, f))]
<1>1. Transmit(n, e, p, f) = [n EXCEPT !.chan = c]
  BY Zenon DEF Transmit
<1> HIDE DEF c
<1>2. [n EXCEPT !.chan = c] = [chan |-> c, timer |-> n.timer]
  BY DEF Medium
<1>3. Transmit(n, e, p, f) = [chan |-> c, timer |-> n.timer]
  BY <1>1, <1>2
<1> QED BY <1>3 DEF c

LEMMA Send ==
  ASSUME NEW n \in Medium, NEW e \in Entity, NEW p \in Sent, NEW f \in Fates
  PROVE  LET m == Transmit(n, e, p, f)
         IN  /\ m \in Medium
             /\ m.timer = n.timer
             /\ m.chan[e] = n.chan[e]
             /\ m.chan[Peer(e)] \in AfterSend(n.chan[Peer(e)], p)
<1>1. Peer(e) \in Entity /\ Peer(e) # e
  BY DEF Peer, Entity, A, B
<1>2. /\ p \in Pkt
      /\ Damage(p, f) = p \/ corrupt(Damage(p, f))
      /\ Damage(p, f) \in Pkt
  BY SentPackets
<1>3. /\ n.chan \in [Entity -> Seq(Pkt)]
      /\ n.timer \in [Entity -> BOOLEAN]
      /\ n = [chan |-> n.chan, timer |-> n.timer]
  BY DEF Medium
<1>4. CASE f = "lost"
  BY <1>1, <1>2, <1>4 DEF Transmit, AfterSend
<1>5. CASE f # "lost"
  <2> DEFINE c == [n.chan EXCEPT ![Peer(e)] = Append(n.chan[Peer(e)], Damage(p, f))]
  <2>1. Transmit(n, e, p, f) = [chan |-> c, timer |-> n.timer]
    BY <1>3, <1>5 DEF Transmit
  <2>2. n.chan[Peer(e)] \in Seq(Pkt)
    BY <1>1, <1>3
  <2>3. Append(n.chan[Peer(e)], Damage(p, f)) \in Seq(Pkt)
    BY <2>2, <1>2, AppendProperties
  <2>4. c \in [Entity -> Seq(Pkt)]
    BY <2>3, <1>1, <1>3
  <2>5. c[e] = n.chan[e] /\ c[Peer(e)] = Append(n.chan[Peer(e)], Damage(p, f))
    BY <1>1, <1>3
  <2>6. Append(n.chan[Peer(e)], Damage(p, f)) \in AfterSend(n.chan[Peer(e)], p)
    BY <1>2 DEF AfterSend
  <2>7. [chan |-> c, timer |-> n.timer] \in Medium
    BY <2>4, <1>3 DEF Medium
  <2>8. Transmit(n, e, p, f).chan = c /\ Transmit(n, e, p, f).timer = n.timer
    BY <2>1
  <2>9. Transmit(n, e, p, f) \in Medium
    BY <2>1, <2>7
  <2> HIDE DEF c
  <2> QED BY <2>5, <2>6, <2>8, <2>9
<1> QED BY <1>4, <1>5

\* What a channel may receive of packets sent one after the other.
Arrivals(packets) ==
  {t \in Seq(Pkt) : \A i \in 1..Len(t) :
      corrupt(t[i]) \/ \E k \in 1..Len(packets) : t[i] = packets[k]}

LEMMA SendEach ==
  ASSUME NEW n \in Medium, NEW e \in Entity, NEW packets \in Seq(Sent),
         NEW s \in Survivals(Len(packets))
  PROVE  LET m == TransmitEach(n, e, packets, s)
         IN  /\ m \in Medium
             /\ m.timer = n.timer
             /\ m.chan[e] = n.chan[e]
             /\ \E t \in Arrivals(packets) : m.chan[Peer(e)] = n.chan[Peer(e)] \o t
<1>1. Peer(e) \in Entity /\ Peer(e) # e
  BY DEF Peer, Entity, A, B
<1>2. PICK len \in 0..Len(packets) :
        s \in [1..len -> (1..Len(packets)) \X (Fates \ {"lost"})]
  BY DEF Survivals
<1>3. DOMAIN s = 1..len /\ len \in Nat
  BY <1>2
<1> DEFINE t == [k \in 1..len |-> Damage(packets[s[k][1]], s[k][2])]
<1>4. ASSUME NEW k \in 1..len
      PROVE  /\ s[k][1] \in 1..Len(packets)
             /\ t[k] \in Pkt
             /\ corrupt(t[k]) \/ t[k] = packets[s[k][1]]
  <2>1. s[k] \in (1..Len(packets)) \X (Fates \ {"lost"})
    BY <1>2
  <2>2. s[k][1] \in 1..Len(packets) /\ s[k][2] \in Fates
    BY <2>1
  <2>3. packets[s[k][1]] \in Sent
    BY <2>2, ElementOfSeq
  <2>4. t[k] = Damage(packets[s[k][1]], s[k][2])
    OBVIOUS
  <2> HIDE DEF t
  <2> QED BY <2>2, <2>3, <2>4, SentPackets
<1>5. t \in Seq(Pkt) /\ Len(t) = len
  <2>1. t \in [1..len -> Pkt]
    BY <1>4
  <2> QED BY <1>3, <2>1
<1>6. t \in Arrivals(packets)
  <2> HIDE DEF t
  <2> QED BY <1>4, <1>5 DEF Arrivals
<1> DEFINE c == [n.chan EXCEPT ![Peer(e)] = n.chan[Peer(e)] \o t]
<1>7. n.chan \in [Entity -> Seq(Pkt)] /\ n.timer \in [Entity -> BOOLEAN]
  BY DEF Medium
<1>8. TransmitEach(n, e, packets, s) = [chan |-> c, timer |-> n.timer]
  <2>1. TransmitEach(n, e, packets, s)
          = [n EXCEPT !.chan[Peer(e)] = n.chan[Peer(e)] \o t]
    BY <1>3, Zenon DEF TransmitEach
  <2> QED BY <2>1, ChannelReplaced, Zenon
<1>9. /\ c \in [Entity -> Seq(Pkt)]
      /\ c[e] = n.chan[e]
      /\ c[Peer(e)] = n.chan[Peer(e)] \o t
  <2> HIDE DEF t
  <2>1. n.chan[Peer(e)] \o t \in Seq(Pkt)
    BY <1>1, <1>5, <1>7
  <2> QED BY <1>1, <1>7, <2>1
<1>10. [chan |-> c, timer |-> n.timer] \in Medium
  BY <1>7, <1>9 DEF Medium
<1> HIDE DEF c
<1>11. /\ TransmitEach(n, e, packets, s).chan = c
       /\ TransmitEach(n, e, packets, s).timer = n.timer
  BY <1>8
<1> QED BY <1>6, <1>8, <1>9, <1>10, <1>11

LEMMA Timers ==
  ASSUME NEW n \in Medium, NEW e \in Entity, NEW t
  PROVE  /\ SetTimer(n, e, t) \in Medium
         /\ SetTimer(n, e, t).chan = n.chan
         /\ SetTimer(n, e, t).timer[e]
         /\ ClearTimer(n, e) \in Medium
         /\ ClearTimer(n, e).chan = n.chan
         /\ ~ ClearTimer(n, e).timer[e]
         /\ TimerTaken(n, e) \in Medium
         /\ TimerTaken(n, e).chan = n.chan
         /\ ~ TimerTaken(n, e).timer[e]
  BY DEF SetTimer, ClearTimer, TimerTaken, Medium

LEMMA PacketOff ==
  ASSUME NEW n \in Medium, NEW e \in Entity, n.chan[e] # << >>
  PROVE  /\ PacketTaken(n, e) \in Medium
         /\ PacketTaken(n, e).timer = n.timer
         /\ PacketTaken(n, e).chan[e] = Tail(n.chan[e])
         /\ \A d \in Entity \ {e} : PacketTaken(n, e).chan[d] = n.chan[d]
         /\ Head(n.chan[e]) \in Pkt
         /\ Head(n.chan[e]) = n.chan[e][1]
<1>1. /\ n.chan \in [Entity -> Seq(Pkt)]
      /\ n.timer \in [Entity -> BOOLEAN]
      /\ n = [chan |-> n.chan, timer |-> n.timer]
  BY DEF Medium
<1>2. n.chan[e] \in Seq(Pkt)
  BY <1>1
<1>3. Tail(n.chan[e]) \in Seq(Pkt) /\ Head(n.chan[e]) \in Pkt
  BY <1>2, HeadTailProperties
<1> DEFINE c == [n.chan EXCEPT ![e] = Tail(n.chan[e])]
<1>4. PacketTaken(n, e) = [chan |-> c, timer |-> n.timer]
  <2>1. PacketTaken(n, e) = [n EXCEPT !.chan[e] = Tail(n.chan[e])]
    BY DEF PacketTaken
  <2> QED BY <2>1, ChannelReplaced, Zenon
<1>5. /\ c \in [Entity -> Seq(Pkt)]
      /\ c[e] = Tail(n.chan[e])
      /\ \A d \in Entity \ {e} : c[d] = n.chan[d]
  BY <1>1, <1>3
<1>6. [chan |-> c, timer |-> n.timer] \in Medium
  BY <1>1, <1>5 DEF Medium
<1>7. PacketTaken(n, e).chan = c /\ PacketTaken(n, e).timer = n.timer
  BY <1>4
<1>8. Head(n.chan[e]) = n.chan[e][1]
  BY <1>2
<1> HIDE DEF c
<1> QED BY <1>3, <1>4, <1>5, <1>6, <1>7, <1>8
-----------------------------------------------------------------------------
\* The event list.

LEMMA MinIsLeast ==
  ASSUME NEW S, S \subseteq Nat, S # {}
  PROVE  Min(S) \in S /\ \A x \in S : Min(S) <= x
<1>1. PICK x \in S : \A y \in S : ~ (<<y, x>> \in OpToRel(<, Nat))
  <2> HIDE DEF OpToRel
  <2> QED BY NatLessThanWellFounded, WFMin
<1>2. \A y \in S : ~ (y < x)
  BY <1>1 DEF OpToRel
<1>3. \A y \in S : x <= y
  BY <1>2
<1> QED BY <1>3 DEF Min

LEMMA MaxIsGreatest ==
  ASSUME NEW len \in Nat, NEW S, S \subseteq 1..len, S # {}
  PROVE  Max(S) \in S /\ \A x \in S : x <= Max(S)
<1> DEFINE T == {d \in Nat : len - d \in S}
<1>1. T # {}
  <2>1. PICK x \in S : TRUE
    OBVIOUS
  <2>2. len - x \in Nat /\ len - (len - x) = x
    BY <2>1
  <2> QED BY <2>1, <2>2
<1>2. Min(T) \in T /\ \A d \in T : Min(T) <= d
  BY <1>1, MinIsLeast
<1> DEFINE m == len - Min(T)
<1>3. m \in S
  BY <1>2
<1>4. ASSUME NEW x \in S PROVE x <= m
  <2>1. len - x \in T
    <3>1. len - x \in Nat /\ len - (len - x) = x
      OBVIOUS
    <3> QED BY <3>1
  <2>2. Min(T) <= len - x
    BY <1>2, <2>1
  <2>3. Min(T) \in Nat
    BY <1>2
  <2> QED BY <2>2, <2>3
<1> HIDE DEF m
<1> QED BY <1>3, <1>4 DEF Max

\* An event x of a type and for one of some entities.
Of(x, t, S) == x.evtype = t /\ x.eventity \in S

Absent(n, t, S) == \A i \in 1..Len(n) : ~Of(n[i], t, S)

AtMostOne(n, t, S) ==
  \A i, j \in 1..Len(n) : Of(n[i], t, S) /\ Of(n[j], t, S) => i = j

Sorted(n) == \A i, j \in 1..Len(n) : i < j => n[i].evtime <= n[j].evtime

\* The packets to an entity are due one after the other.
Apart(n) ==
  \A e \in Entity : \A i, j \in 1..Len(n) :
     i < j /\ InTransit(n[i], e) /\ InTransit(n[j], e)
     => n[j].evtime >= n[i].evtime + 1

\* What tolayer3, starttimer and stoptimer rely on and keep.
Orderly(n) ==
  /\ n \in Seq(Event)
  /\ Sorted(n)
  /\ Apart(n)
  /\ \A e \in Entity : AtMostOne(n, TIMER_INTERRUPT, {e})

\* m is n with p put in at k.
Inserted(n, k, p, m) ==
  /\ k \in 1..(Len(n) + 1)
  /\ m \in Seq(Event) /\ Len(m) = Len(n) + 1
  /\ m[k] = p
  /\ \A i \in 1..Len(n) : i < k => m[i] = n[i]
  /\ \A i \in 1..Len(n) : i >= k => m[i + 1] = n[i]

\* m is n without the event at k.
Removed(n, k, m) ==
  /\ k \in 1..Len(n)
  /\ m \in Seq(Event) /\ Len(m) = Len(n) - 1
  /\ \A i \in 1..Len(m) : i < k => m[i] = n[i]
  /\ \A i \in 1..Len(m) : i >= k => m[i] = n[i + 1]

LEMMA Joined ==
  ASSUME NEW S, NEW s \in Seq(S), NEW t \in Seq(S), NEW a, NEW b,
         Len(s) = a, Len(t) = b
  PROVE  /\ s \o t \in Seq(S) /\ Len(s \o t) = a + b
         /\ \A i \in 1..(a + b) : (s \o t)[i] = IF i <= a THEN s[i] ELSE t[i - a]
  BY ConcatProperties

LEMMA InsertAtInserts ==
  ASSUME NEW n \in Seq(Event), NEW p \in Event, NEW k \in 1..(Len(n) + 1)
  PROVE  Inserted(n, k, p, InsertAt(n, k, p))
<1> DEFINE s == SubSeq(n, 1, k - 1)
           t == SubSeq(n, k, Len(n))
           m == s \o <<p>> \o t
<1>1. /\ s \in Seq(Event) /\ Len(s) = k - 1
      /\ \A i \in 1..(k - 1) : s[i] = n[i]
  OBVIOUS
<1>2. /\ t \in Seq(Event) /\ Len(t) = Len(n) - k + 1
      /\ \A i \in 1..(Len(n) - k + 1) : t[i] = n[i + k - 1]
  OBVIOUS
<1> HIDE DEF s, t
<1>3. /\ m \in Seq(Event) /\ Len(m) = Len(n) + 1
      /\ \A i \in 1..(k - 1) : m[i] = s[i]
      /\ m[k] = p
      /\ \A i \in (k + 1)..(Len(n) + 1) : m[i] = t[i - k]
  <2> DEFINE u == s \o <<p>>
  <2>1. <<p>> \in Seq(Event) /\ Len(<<p>>) = 1 /\ <<p>>[1] = p
    OBVIOUS
  <2>2. /\ u \in Seq(Event) /\ Len(u) = k
        /\ \A i \in 1..k : u[i] = IF i <= k - 1 THEN s[i] ELSE <<p>>[i - (k - 1)]
    BY <1>1, <2>1, Joined
  <2>3. u[k] = p
    BY <2>1, <2>2
  <2> HIDE DEF u
  <2>4. /\ u \o t \in Seq(Event) /\ Len(u \o t) = k + (Len(n) - k + 1)
        /\ \A i \in 1..(k + (Len(n) - k + 1)) :
             (u \o t)[i] = IF i <= k THEN u[i] ELSE t[i - k]
    BY <1>2, <2>2, Joined
  <2> DEFINE v == u \o t
  <2>5. v = m
    BY DEF u
  <2>6. /\ v \in Seq(Event) /\ Len(v) = Len(n) + 1
        /\ \A i \in 1..(Len(n) + 1) : v[i] = IF i <= k THEN u[i] ELSE t[i - k]
    BY <2>4
  <2> HIDE DEF v, m
  <2> QED BY <2>2, <2>3, <2>5, <2>6
<1>4. InsertAt(n, k, p) = m
  BY DEF InsertAt, s, t
<1> HIDE DEF m
<1>5. ASSUME NEW i \in 1..Len(n), i >= k PROVE m[i + 1] = n[i]
  <2>1. i + 1 \in (k + 1)..(Len(n) + 1) /\ (i + 1) - k \in 1..(Len(n) - k + 1)
        /\ ((i + 1) - k) + k - 1 = i
    BY <1>5
  <2> QED BY <1>2, <1>3, <2>1
<1> QED BY <1>1, <1>3, <1>4, <1>5 DEF Inserted

LEMMA RemoveAtRemoves ==
  ASSUME NEW n \in Seq(Event), NEW k \in 1..Len(n)
  PROVE  Removed(n, k, RemoveAt(n, k))
<1> DEFINE s == SubSeq(n, 1, k - 1)
           t == SubSeq(n, k + 1, Len(n))
           m == s \o t
<1>1. /\ s \in Seq(Event) /\ Len(s) = k - 1
      /\ \A i \in 1..(k - 1) : s[i] = n[i]
  OBVIOUS
<1>2. /\ t \in Seq(Event) /\ Len(t) = Len(n) - k
      /\ \A i \in 1..(Len(n) - k) : t[i] = n[i + k]
  OBVIOUS
<1> HIDE DEF s, t
<1>3. /\ m \in Seq(Event) /\ Len(m) = Len(n) - 1
      /\ \A i \in 1..(k - 1) : m[i] = s[i]
      /\ \A i \in k..(Len(n) - 1) : m[i] = t[i - k + 1]
  <2>1. PICK a, b : a = k - 1 /\ b = Len(n) - k
    OBVIOUS
  <2>2. /\ m \in Seq(Event) /\ Len(m) = a + b
        /\ \A i \in 1..(a + b) : m[i] = IF i <= a THEN s[i] ELSE t[i - a]
    <3>1. s \in Seq(Event) /\ t \in Seq(Event) /\ Len(s) = a /\ Len(t) = b
      BY <1>1, <1>2, <2>1
    <3> QED BY <3>1, Joined
  <2> HIDE DEF m
  <2>3. a + b = Len(n) - 1 /\ k \in Nat /\ Len(n) \in Nat /\ a \in Nat
    BY <2>1
  <2>4. \A i \in k..(Len(n) - 1) : m[i] = t[i - k + 1]
    <3> TAKE i \in k..(Len(n) - 1)
    <3>1. i \in 1..(a + b) /\ ~(i <= a) /\ i - a = i - k + 1
      BY <2>1, <2>3
    <3> QED BY <2>2, <3>1
  <2>5. \A i \in 1..(k - 1) : m[i] = s[i]
    <3> TAKE i \in 1..(k - 1)
    <3>1. i \in 1..(a + b) /\ i <= a
      BY <2>1, <2>3
    <3> QED BY <2>2, <3>1
  <2>6. m \in Seq(Event) /\ Len(m) = Len(n) - 1
    BY <2>2, <2>3
  <2> QED BY <2>4, <2>5, <2>6
<1>4. RemoveAt(n, k) = m
  BY DEF RemoveAt, s, t
<1> HIDE DEF m
<1>5. ASSUME NEW i \in 1..Len(m), i >= k PROVE m[i] = n[i + 1]
  <2>1. i \in k..(Len(n) - 1) /\ i - k + 1 \in 1..(Len(n) - k)
        /\ (i - k + 1) + k = i + 1
    BY <1>3, <1>5
  <2> QED BY <1>2, <1>3, <2>1
<1>6. ASSUME NEW i \in 1..Len(m), i < k PROVE m[i] = n[i]
  BY <1>1, <1>3, <1>6
<1> QED BY <1>3, <1>4, <1>5, <1>6 DEF Removed

\* insertevent finds the place of the event in the order of time.
LEMMA InsertEventInserts ==
  ASSUME NEW n \in Seq(Event), NEW p \in Event
  PROVE  \E k \in 1..(Len(n) + 1) :
           /\ Inserted(n, k, p, insertevent(n, p))
           /\ \A i \in 1..Len(n) : i < k => n[i].evtime < p.evtime
           /\ k <= Len(n) => p.evtime <= n[k].evtime
<1> DEFINE S == {k \in 1..(Len(n) + 1) : k > Len(n) \/ p.evtime <= n[k].evtime}
           k == Min(S)
<1>1. Len(n) \in Nat /\ p.evtime \in Nat /\ \A i \in 1..Len(n) : n[i].evtime \in Nat
  <2>1. ASSUME NEW i \in 1..Len(n) PROVE n[i].evtime \in Nat
    <3>1. n[i] \in Event
      BY ElementOfSeq
    <3> QED BY <3>1 DEF Event
  <2> QED BY <2>1 DEF Event
<1>2. Len(n) + 1 \in S /\ S \subseteq Nat
  BY <1>1
<1>3. k \in S /\ \A x \in S : k <= x
  <2> HIDE DEF S
  <2> QED BY <1>2, MinIsLeast
<1>4. insertevent(n, p) = InsertAt(n, k, p)
  BY DEF insertevent
<1>5. ASSUME NEW i \in 1..Len(n), i < k PROVE n[i].evtime < p.evtime
  <2>1. i \notin S
    <3>1. k \in Nat
      BY <1>2, <1>3
    <3> HIDE DEF S, k
    <3> QED BY <1>3, <1>5, <3>1
  <2>2. ~(p.evtime <= n[i].evtime)
    BY <2>1, <1>1
  <2> QED BY <1>1, <2>2
<1>6. k \in 1..(Len(n) + 1) /\ (k <= Len(n) => p.evtime <= n[k].evtime)
  BY <1>1, <1>3
<1> HIDE DEF k
<1> QED BY <1>4, <1>5, <1>6, InsertAtInserts

LEMMA EventFacts ==
  ASSUME NEW n \in Seq(Event)
  PROVE  /\ Len(n) \in Nat /\ DOMAIN n = 1..Len(n)
         /\ \A i \in 1..Len(n) :
              /\ n[i] \in Event /\ n[i].evtime \in Nat
              /\ n[i].eventity \in Entity /\ n[i].pkt \in Pkt
<1>1. ASSUME NEW i \in 1..Len(n) PROVE n[i] \in Event
  BY ElementOfSeq
<1>2. ASSUME NEW i \in 1..Len(n)
      PROVE  n[i].evtime \in Nat /\ n[i].eventity \in Entity /\ n[i].pkt \in Pkt
  BY <1>1 DEF Event
<1> QED BY <1>1, <1>2

\* Where an event of the longer list is in the shorter one, and the reverse.
Before(k, i) == IF i < k THEN i ELSE i - 1
After(k, i) == IF i < k THEN i ELSE i + 1

LEMMA InsertedPlaces ==
  ASSUME NEW n \in Seq(Event), NEW k, NEW p, NEW m, Inserted(n, k, p, m)
  PROVE  /\ k \in 1..Len(m) /\ m[k] = p
         /\ \A i \in 1..Len(m) : i # k =>
              Before(k, i) \in 1..Len(n) /\ m[i] = n[Before(k, i)]
         /\ \A i, j \in 1..Len(m) : i # k /\ j # k /\ i < j =>
              Before(k, i) < Before(k, j)
         /\ \A i, j \in 1..Len(m) : i # k /\ j # k /\ Before(k, i) = Before(k, j) => i = j
         /\ \A i \in 1..Len(n) : After(k, i) \in 1..Len(m) /\ m[After(k, i)] = n[i]
<1>1. Len(n) \in Nat /\ k \in 1..(Len(n) + 1) /\ Len(m) = Len(n) + 1
  BY DEF Inserted
<1>2. ASSUME NEW i \in 1..Len(m), i # k
      PROVE  Before(k, i) \in 1..Len(n) /\ m[i] = n[Before(k, i)]
  <2>1. CASE i < k
    BY <1>1, <2>1 DEF Inserted, Before
  <2>2. CASE i > k
    <3>1. i - 1 \in 1..Len(n) /\ i - 1 >= k /\ (i - 1) + 1 = i
      BY <1>1, <2>2
    <3>2. m[i] = n[i - 1]
      BY <3>1 DEF Inserted
    <3> QED BY <1>1, <2>2, <3>1, <3>2 DEF Before
  <2> QED BY <1>1, <1>2, <2>1, <2>2
<1>3. ASSUME NEW i \in 1..Len(n)
      PROVE  After(k, i) \in 1..Len(m) /\ m[After(k, i)] = n[i]
  BY <1>1 DEF Inserted, After
<1>4. /\ \A i, j \in 1..Len(m) : i # k /\ j # k /\ i < j => Before(k, i) < Before(k, j)
      /\ \A i, j \in 1..Len(m) : i # k /\ j # k /\ Before(k, i) = Before(k, j) => i = j
  BY <1>1 DEF Before
<1>5. m[k] = p
  BY DEF Inserted
<1> QED BY <1>1, <1>2, <1>3, <1>4, <1>5

LEMMA InsertedKinds ==
  ASSUME NEW n \in Seq(Event), NEW k, NEW p, NEW m, Inserted(n, k, p, m)
  PROVE  /\ \A t, S : Absent(m, t, S) <=> Absent(n, t, S) /\ ~Of(p, t, S)
         /\ \A t, S : AtMostOne(n, t, S) /\ (Of(p, t, S) => Absent(n, t, S))
                        => AtMostOne(m, t, S)
         /\ Range(m) = Range(n) \cup {p}
<1>0. /\ k \in 1..Len(m) /\ m[k] = p
      /\ \A i \in 1..Len(m) : i # k =>
           Before(k, i) \in 1..Len(n) /\ m[i] = n[Before(k, i)]
      /\ \A i, j \in 1..Len(m) : i # k /\ j # k /\ Before(k, i) = Before(k, j) => i = j
      /\ \A i \in 1..Len(n) : After(k, i) \in 1..Len(m) /\ m[After(k, i)] = n[i]
  BY InsertedPlaces
<1>1. ASSUME NEW t, NEW S PROVE Absent(m, t, S) <=> Absent(n, t, S) /\ ~Of(p, t, S)
  <2>1. ASSUME Absent(m, t, S) PROVE Absent(n, t, S) /\ ~Of(p, t, S)
    BY <1>0, <2>1, Zenon DEF Absent
  <2>2. ASSUME Absent(n, t, S), ~Of(p, t, S) PROVE Absent(m, t, S)
    <3>1. \A i \in 1..Len(m) : m[i] = p \/ \E j \in 1..Len(n) : m[i] = n[j]
      BY <1>0, Zenon
    <3> QED BY <2>2, <3>1, Zenon DEF Absent
  <2> QED BY <2>1, <2>2
<1>2. ASSUME NEW t, NEW S, AtMostOne(n, t, S), Of(p, t, S) => Absent(n, t, S),
             NEW i \in 1..Len(m), NEW j \in 1..Len(m), Of(m[i], t, S), Of(m[j], t, S)
      PROVE  i = j
  <2>1. CASE i # k /\ j # k
    <3>1. /\ Before(k, i) \in 1..Len(n) /\ m[i] = n[Before(k, i)]
          /\ Before(k, j) \in 1..Len(n) /\ m[j] = n[Before(k, j)]
      BY <1>0, <2>1, Zenon
    <3>2. Before(k, i) = Before(k, j)
      BY <1>2, <3>1, Zenon DEF AtMostOne
    <3> QED BY <1>0, <2>1, <3>2, Zenon
  <2>2. ASSUME NEW a \in 1..Len(m), a # k, m[k] = p, Of(m[a], t, S), Of(p, t, S) PROVE FALSE
    <3>1. Before(k, a) \in 1..Len(n) /\ m[a] = n[Before(k, a)]
      BY <1>0, <2>2, Zenon
    <3> QED BY <1>2, <2>2, <3>1, Zenon DEF Absent
  <2> QED BY <1>0, <1>2, <2>1, <2>2, Zenon
<1>3. Range(m) = Range(n) \cup {p}
  <2>1. DOMAIN m = 1..Len(m) /\ DOMAIN n = 1..Len(n)
    BY EventFacts DEF Inserted
  <2>2. ASSUME NEW i \in 1..Len(m) PROVE m[i] \in Range(n) \cup {p}
    <3>1. CASE i = k
      BY <1>0, <3>1
    <3>2. CASE i # k
      BY <1>0, <2>1, <3>2 DEF Range
    <3> QED BY <3>1, <3>2
  <2>3. ASSUME NEW i \in 1..Len(n) PROVE n[i] \in Range(m)
    BY <1>0, <2>1 DEF Range
  <2>4. p \in Range(m)
    BY <1>0, <2>1 DEF Range
  <2> QED BY <2>1, <2>2, <2>3, <2>4 DEF Range
<1>4. ASSUME NEW t, NEW S, AtMostOne(n, t, S), Of(p, t, S) => Absent(n, t, S)
      PROVE  AtMostOne(m, t, S)
  BY <1>2, <1>4 DEF AtMostOne
<1> QED BY <1>1, <1>3, <1>4

LEMMA InsertedSorted ==
  ASSUME NEW n \in Seq(Event), NEW k, NEW p \in Event, NEW m, Inserted(n, k, p, m),
         Sorted(n),
         \A i \in 1..Len(n) : i < k => n[i].evtime < p.evtime,
         k <= Len(n) => p.evtime <= n[k].evtime
  PROVE  Sorted(m)
<1> SUFFICES ASSUME NEW i \in 1..Len(m), NEW j \in 1..Len(m), i < j
             PROVE  m[i].evtime <= m[j].evtime
  BY DEF Sorted
<1>1. Len(n) \in Nat /\ k \in 1..(Len(n) + 1) /\ Len(m) = Len(n) + 1
  BY DEF Inserted
<1>2. p.evtime \in Nat /\ \A l \in 1..Len(n) : n[l].evtime \in Nat
  BY EventFacts DEF Event
<1>3. CASE i # k /\ j # k
  <2>1. /\ m[i] = n[Before(k, i)] /\ m[j] = n[Before(k, j)]
        /\ Before(k, i) \in 1..Len(n) /\ Before(k, j) \in 1..Len(n)
        /\ Before(k, i) < Before(k, j)
    BY <1>3, InsertedPlaces
  <2> QED BY <2>1 DEF Sorted
<1>4. CASE i = k
  <2>1. j - 1 \in 1..Len(n) /\ k <= j - 1 /\ k \in 1..Len(n) /\ j # k
    BY <1>1, <1>4
  <2>2. m[i] = p /\ m[j] = n[j - 1]
    <3>1. Before(k, j) = j - 1
      BY <1>1, <1>4 DEF Before
    <3> QED BY <1>4, <2>1, <3>1, InsertedPlaces
  <2>3. n[k].evtime <= n[j - 1].evtime
    BY <1>2, <2>1 DEF Sorted
  <2> QED BY <1>2, <2>1, <2>2, <2>3
<1>5. CASE j = k
  <2>1. i \in 1..Len(n) /\ i < k /\ i # k
    BY <1>1, <1>5
  <2>2. m[j] = p /\ m[i] = n[i]
    BY <1>5, <2>1 DEF Inserted
  <2> QED BY <1>2, <2>1, <2>2
<1> QED BY <1>3, <1>4, <1>5

LEMMA InsertedApart ==
  ASSUME NEW n \in Seq(Event), NEW k, NEW p \in Event, NEW m, Inserted(n, k, p, m),
         Apart(n), Sorted(m),
         \A e \in Entity : InTransit(p, e) =>
           \A i \in 1..Len(n) : InTransit(n[i], e) => n[i].evtime + 1 <= p.evtime
  PROVE  /\ Apart(m)
         /\ \A e \in Entity : InTransit(p, e) =>
              \A i \in 1..Len(n) : i >= k => ~InTransit(n[i], e)
<1>1. Len(n) \in Nat /\ k \in 1..(Len(n) + 1) /\ Len(m) = Len(n) + 1
  BY DEF Inserted
<1>2. p.evtime \in Nat /\ \A l \in 1..Len(n) : n[l].evtime \in Nat
  BY EventFacts DEF Event
<1>3. ASSUME NEW e \in Entity, InTransit(p, e), NEW i \in 1..Len(n), i >= k,
             InTransit(n[i], e)
      PROVE  FALSE
  <2>1. m[i + 1] = n[i] /\ m[k] = p /\ k < i + 1 /\ i + 1 \in 1..Len(m) /\ k \in 1..Len(m)
    BY <1>1, <1>3 DEF Inserted
  <2>2. p.evtime <= n[i].evtime
    BY <2>1 DEF Sorted
  <2>3. n[i].evtime + 1 <= p.evtime
    BY <1>3
  <2> QED BY <1>2, <2>2, <2>3
<1>4. ASSUME NEW e \in Entity, NEW i \in 1..Len(m), NEW j \in 1..Len(m), i < j,
             InTransit(m[i], e), InTransit(m[j], e)
      PROVE  m[j].evtime >= m[i].evtime + 1
  <2>1. CASE i # k /\ j # k
    <3>1. /\ m[i] = n[Before(k, i)] /\ m[j] = n[Before(k, j)]
          /\ Before(k, i) \in 1..Len(n) /\ Before(k, j) \in 1..Len(n)
          /\ Before(k, i) < Before(k, j)
      BY <1>4, <2>1, InsertedPlaces
    <3> QED BY <1>4, <3>1 DEF Apart
  <2>2. CASE i = k
    <3>1. j - 1 \in 1..Len(n) /\ j - 1 >= k /\ Before(k, j) = j - 1 /\ j # k
      BY <1>1, <1>4, <2>2 DEF Before
    <3>2. m[j] = n[j - 1] /\ m[i] = p
      BY <2>2, <3>1, InsertedPlaces
    <3> QED BY <1>3, <1>4, <3>1, <3>2
  <2>3. CASE j = k
    <3>1. i \in 1..Len(n) /\ i < k
      BY <1>1, <1>4, <2>3
    <3>2. m[i] = n[i] /\ m[j] = p
      BY <2>3, <3>1 DEF Inserted
    <3> QED BY <1>2, <1>4, <3>1, <3>2
  <2> QED BY <2>1, <2>2, <2>3
<1> QED BY <1>3, <1>4 DEF Apart

-----------------------------------------------------------------------------
\* The packets on their way to an entity.

\* The packets of the first events of n, a function of their number.
Upto(n, e, len, f) ==
  f = [k \in 0..len |->
         IF k = 0 THEN << >>
         ELSE IF InTransit(n[k], e) THEN Append(f[k - 1], n[k].pkt)
         ELSE f[k - 1]]

\* The same, one step after the other.
Counts(n, e, f) ==
  /\ f[0] = << >>
  /\ \A k \in 1..Len(n) :
       f[k] = IF InTransit(n[k], e) THEN Append(f[k - 1], n[k].pkt) ELSE f[k - 1]

LEMMA UptoExists ==
  ASSUME NEW n, NEW e, NEW len \in Nat
  PROVE  \E f : Upto(n, e, len, f)
<1> DEFINE Without == {l \in Nat : ~ \E f : Upto(n, e, l, f)}
<1> SUFFICES ASSUME Without # {} PROVE FALSE
  OBVIOUS
<1>1. PICK m \in Without : \A l \in Without : m <= l
  <2>1. Without \subseteq Nat
    OBVIOUS
  <2> HIDE DEF Without
  <2> QED BY <2>1, MinIsLeast
<1>2. CASE m = 0
  <2> DEFINE f == [k \in 0..0 |-> << >>]
  <2>1. f = [k \in 0..0 |-> IF k = 0 THEN << >>
                            ELSE IF InTransit(n[k], e) THEN Append(f[k - 1], n[k].pkt)
                            ELSE f[k - 1]]
    OBVIOUS
  <2>2. Upto(n, e, m, f)
    BY <1>2, <2>1 DEF Upto
  <2> QED BY <1>1, <2>2
<1>3. CASE m # 0
  <2>1. m - 1 \in Nat /\ m - 1 \notin Without
    BY <1>1, <1>3
  <2>2. PICK g : Upto(n, e, m - 1, g)
    BY <2>1
  <2> DEFINE Next1(h, k) == IF InTransit(n[k], e) THEN Append(h[k - 1], n[k].pkt)
                            ELSE h[k - 1]
             f == [k \in 0..m |-> IF k < m THEN g[k] ELSE Next1(g, m)]
  <2>3. ASSUME NEW k \in 0..m
        PROVE  f[k] = IF k = 0 THEN << >> ELSE Next1(f, k)
    <3>1. CASE k = 0
      <4>1. g[0] = << >>
        BY <2>1, <2>2 DEF Upto
      <4> QED BY <1>3, <3>1, <4>1
    <3>2. CASE k # 0 /\ k < m
      <4>1. /\ k \in 0..(m - 1) /\ k - 1 \in 0..m /\ k - 1 < m
        BY <3>2, <1>1
      <4>2. g[k] = Next1(g, k)
        BY <2>2, <3>2, <4>1 DEF Upto
      <4>3. f[k - 1] = g[k - 1] /\ f[k] = g[k]
        BY <3>2, <4>1
      <4> HIDE DEF f
      <4> QED BY <3>2, <4>2, <4>3
    <3>3. CASE k = m
      <4>1. m - 1 \in 0..m /\ m - 1 < m
        BY <2>1
      <4>2. f[m - 1] = g[m - 1] /\ f[m] = Next1(g, m)
        BY <4>1
      <4> HIDE DEF f
      <4> QED BY <1>3, <3>3, <4>2
    <3> QED BY <1>1, <3>1, <3>2, <3>3
  <2>4. f = [k \in 0..m |-> IF k = 0 THEN << >> ELSE Next1(f, k)]
    <3>1. f = [k \in 0..m |-> f[k]]
      OBVIOUS
    <3> HIDE DEF f, Next1
    <3> QED BY <2>3, <3>1
  <2>5. Upto(n, e, m, f)
    <3> HIDE DEF f
    <3> QED BY <2>4 DEF Upto
  <2> QED BY <1>1, <2>5
<1> QED BY <1>2, <1>3

LEMMA ArrivingCounts ==
  ASSUME NEW n \in Seq(Event), NEW e
  PROVE  \E f : Counts(n, e, f) /\ Arriving(n, e) = f[Len(n)]
<1> DEFINE f == CHOOSE g : Upto(n, e, Len(n), g)
<1>1. Len(n) \in Nat
  BY EventFacts
<1>2. Upto(n, e, Len(n), f)
  BY <1>1, UptoExists
<1>3. Arriving(n, e) = f[Len(n)]
  BY DEF Arriving, Upto
<1> HIDE DEF f
<1>4. f[0] = << >>
  BY <1>1, <1>2 DEF Upto
<1>5. ASSUME NEW k \in 1..Len(n)
      PROVE  f[k] = IF InTransit(n[k], e) THEN Append(f[k - 1], n[k].pkt) ELSE f[k - 1]
  <2>1. k \in 0..Len(n) /\ k # 0
    BY <1>1
  <2> DEFINE v(h) == [l \in 0..Len(n) |->
                        IF l = 0 THEN << >>
                        ELSE IF InTransit(n[l], e) THEN Append(h[l - 1], n[l].pkt)
                        ELSE h[l - 1]]
  <2>2. v(f)[k] = IF InTransit(n[k], e) THEN Append(f[k - 1], n[k].pkt) ELSE f[k - 1]
    BY <2>1
  <2>3. f = v(f)
    BY <1>2 DEF Upto
  <2> HIDE DEF v
  <2>4. f[k] = v(f)[k]
    BY <2>3
  <2> QED BY <2>2, <2>4
<1> QED BY <1>3, <1>4, <1>5 DEF Counts

LEMMA CountsUnique ==
  ASSUME NEW n \in Seq(Event), NEW e, NEW f, NEW g, Counts(n, e, f), Counts(n, e, g)
  PROVE  \A k \in 0..Len(n) : f[k] = g[k]
<1> DEFINE Bad == {k \in 0..Len(n) : f[k] # g[k]}
<1> SUFFICES ASSUME Bad # {} PROVE FALSE
  OBVIOUS
<1>0. Len(n) \in Nat
  BY EventFacts
<1>1. PICK m \in Bad : \A l \in Bad : m <= l
  <2>1. Bad \subseteq Nat
    BY <1>0
  <2> HIDE DEF Bad
  <2> QED BY <2>1, MinIsLeast
<1>2. m # 0
  BY DEF Counts
<1>3. m \in 1..Len(n) /\ m - 1 \in 0..Len(n) /\ m - 1 < m
  BY <1>0, <1>2
<1>4. f[m - 1] = g[m - 1]
  BY <1>1, <1>3
<1> QED BY <1>3, <1>4 DEF Counts

LEMMA ArrivingIs ==
  ASSUME NEW n \in Seq(Event), NEW e, NEW f, Counts(n, e, f)
  PROVE  Arriving(n, e) = f[Len(n)]
<1>1. PICK g : Counts(n, e, g) /\ Arriving(n, e) = g[Len(n)]
  BY ArrivingCounts
<1>2. Len(n) \in 0..Len(n)
  BY EventFacts
<1> QED BY <1>1, <1>2, CountsUnique

LEMMA CountsPackets ==
  ASSUME NEW n \in Seq(Event), NEW e, NEW f, Counts(n, e, f)
  PROVE  \A k \in 0..Len(n) : f[k] \in Seq(Pkt) /\ Len(f[k]) <= k
<1> DEFINE Bad == {k \in 0..Len(n) : ~(f[k] \in Seq(Pkt) /\ Len(f[k]) <= k)}
<1> SUFFICES ASSUME Bad # {} PROVE FALSE
  OBVIOUS
<1>0. Len(n) \in Nat
  BY EventFacts
<1>1. PICK m \in Bad : \A l \in Bad : m <= l
  <2>1. Bad \subseteq Nat
    BY <1>0
  <2> HIDE DEF Bad
  <2> QED BY <2>1, MinIsLeast
<1>2. m # 0
  <2>1. f[0] = << >> /\ << >> \in Seq(Pkt) /\ Len(<< >>) = 0
    BY DEF Counts
  <2>2. f[0] \in Seq(Pkt) /\ Len(f[0]) <= 0
    BY <2>1
  <2>3. 0 \notin Bad
    BY <2>2
  <2> QED BY <1>1, <2>3
<1>3. m \in 1..Len(n) /\ m - 1 \in 0..Len(n) /\ m - 1 < m
  BY <1>0, <1>2
<1>4. f[m - 1] \in Seq(Pkt) /\ Len(f[m - 1]) <= m - 1
  BY <1>1, <1>3
<1>5. n[m].pkt \in Pkt
  BY <1>3, EventFacts
<1>6. f[m] = IF InTransit(n[m], e) THEN Append(f[m - 1], n[m].pkt) ELSE f[m - 1]
  BY <1>3 DEF Counts
<1>7. f[m] \in Seq(Pkt) /\ Len(f[m]) <= m
  <2>1. CASE InTransit(n[m], e)
    <3>1. /\ Append(f[m - 1], n[m].pkt) \in Seq(Pkt)
          /\ Len(Append(f[m - 1], n[m].pkt)) = Len(f[m - 1]) + 1
      BY <1>4, <1>5, AppendProperties
    <3>2. Len(f[m - 1]) \in Nat
      BY <1>4
    <3> QED BY <1>3, <1>4, <1>6, <2>1, <3>1, <3>2
  <2>2. CASE ~InTransit(n[m], e)
    <3>1. Len(f[m - 1]) \in Nat
      BY <1>4
    <3> QED BY <1>3, <1>4, <1>6, <2>2, <3>1
  <2> QED BY <2>1, <2>2
<1> QED BY <1>1, <1>7

LEMMA ArrivingType ==
  ASSUME NEW n \in Seq(Event), NEW e
  PROVE  Arriving(n, e) \in Seq(Pkt) /\ Len(Arriving(n, e)) <= Len(n)
<1>1. PICK f : Counts(n, e, f) /\ Arriving(n, e) = f[Len(n)]
  BY ArrivingCounts
<1> QED BY <1>1, CountsPackets, EventFacts

\* What arrives when p comes after everything on its way to e.
Extended(s, p, e) == IF InTransit(p, e) THEN Append(s, p.pkt) ELSE s

Latest(n, k, p, e) ==
  InTransit(p, e) => \A i \in 1..Len(n) : i >= k => ~InTransit(n[i], e)

LEMMA InsertedArriving ==
  ASSUME NEW n \in Seq(Event), NEW k, NEW p \in Event, NEW m, Inserted(n, k, p, m),
         NEW e, Latest(n, k, p, e)
  PROVE  Arriving(m, e) = Extended(Arriving(n, e), p, e)
<1> USE DEF Extended, Latest
<1> DEFINE End(s) == IF InTransit(p, e) THEN Append(s, p.pkt) ELSE s
           Step(x, s) == IF InTransit(x, e) THEN Append(s, x.pkt) ELSE s
<1>1. Len(n) \in Nat /\ k \in 1..(Len(n) + 1) /\ Len(m) = Len(n) + 1 /\ m \in Seq(Event)
  BY DEF Inserted
<1>2. PICK f : Counts(n, e, f) /\ Arriving(n, e) = f[Len(n)]
  BY ArrivingCounts
<1>3. f[0] = << >> /\ \A i \in 1..Len(n) : f[i] = Step(n[i], f[i - 1])
  BY <1>2 DEF Counts
<1> DEFINE h == [i \in 0..Len(m) |-> IF i < k THEN f[i] ELSE End(f[i - 1])]
<1>4. /\ \A i \in 0..Len(m) : i < k => h[i] = f[i]
      /\ \A i \in 0..Len(m) : i >= k => h[i] = End(f[i - 1])
  <2> HIDE DEF End
  <2> QED BY <1>1
<1> HIDE DEF h
<1>5. h[0] = << >>
  BY <1>1, <1>3, <1>4
<1>6. ASSUME NEW i \in 1..Len(m) PROVE h[i] = Step(m[i], h[i - 1])
  <2>1. CASE i < k
    <3>1. /\ i \in 1..Len(n) /\ i \in 0..Len(m) /\ i - 1 \in 0..Len(m) /\ i - 1 < k
      BY <1>1, <2>1
    <3>2. m[i] = n[i] /\ h[i] = f[i] /\ h[i - 1] = f[i - 1]
      BY <1>4, <2>1, <3>1 DEF Inserted
    <3> QED BY <1>3, <3>1, <3>2
  <2>2. CASE i = k
    <3>1. i \in 0..Len(m) /\ i - 1 \in 0..Len(m) /\ i - 1 < k /\ i >= k
      BY <1>1, <2>2
    <3>2. m[i] = p /\ h[i] = End(f[i - 1]) /\ h[i - 1] = f[i - 1]
      BY <1>4, <2>2, <3>1 DEF Inserted
    <3> QED BY <3>2
  <2>3. CASE i > k
    <3>1. /\ i - 1 \in 1..Len(n) /\ i \in 0..Len(m) /\ i - 1 \in 0..Len(m)
          /\ i >= k /\ i - 1 >= k /\ (i - 1) + 1 = i
      BY <1>1, <2>3
    <3>2. m[i] = n[i - 1] /\ h[i] = End(f[i - 1]) /\ h[i - 1] = End(f[(i - 1) - 1])
      <4>1. m[(i - 1) + 1] = n[i - 1]
        BY <3>1 DEF Inserted
      <4> QED BY <1>4, <3>1, <4>1
    <3>3. f[i - 1] = Step(n[i - 1], f[(i - 1) - 1])
      BY <1>3, <3>1
    <3>4. InTransit(p, e) => ~InTransit(n[i - 1], e)
      BY <3>1
    <3> QED BY <3>2, <3>3, <3>4
  <2> QED BY <1>1, <2>1, <2>2, <2>3
<1>7. Counts(m, e, h)
  BY <1>5, <1>6 DEF Counts
<1>8. Arriving(m, e) = h[Len(m)]
  BY <1>1, <1>7, ArrivingIs
<1>9. h[Len(m)] = End(f[Len(n)])
  <2>1. Len(m) \in 0..Len(m) /\ Len(m) >= k /\ Len(m) - 1 = Len(n)
    BY <1>1
  <2> QED BY <1>4, <2>1
<1> QED BY <1>2, <1>8, <1>9

LEMMA RemovedArriving ==
  ASSUME NEW n \in Seq(Event), NEW k, NEW m, Removed(n, k, m),
         NEW e, ~InTransit(n[k], e)
  PROVE  Arriving(m, e) = Arriving(n, e)
<1> DEFINE Step(x, s) == IF InTransit(x, e) THEN Append(s, x.pkt) ELSE s
<1>1. Len(n) \in Nat /\ k \in 1..Len(n) /\ Len(m) = Len(n) - 1 /\ m \in Seq(Event)
  BY EventFacts DEF Removed
<1>2. PICK f : Counts(n, e, f) /\ Arriving(n, e) = f[Len(n)]
  BY ArrivingCounts
<1>3. f[0] = << >> /\ \A i \in 1..Len(n) : f[i] = Step(n[i], f[i - 1])
  BY <1>2 DEF Counts
<1>4. f[k] = f[k - 1]
  BY <1>1, <1>3
<1> DEFINE h == [i \in 0..Len(m) |-> IF i < k THEN f[i] ELSE f[i + 1]]
<1>5. /\ \A i \in 0..Len(m) : i < k => h[i] = f[i]
      /\ \A i \in 0..Len(m) : i >= k => h[i] = f[i + 1]
  BY <1>1
<1> HIDE DEF h
<1>6. h[0] = << >>
  BY <1>1, <1>3, <1>5
<1>7. ASSUME NEW i \in 1..Len(m) PROVE h[i] = Step(m[i], h[i - 1])
  <2>1. CASE i < k
    <3>1. /\ i \in 1..Len(n) /\ i \in 0..Len(m) /\ i - 1 \in 0..Len(m) /\ i - 1 < k
      BY <1>1, <2>1
    <3>2. m[i] = n[i] /\ h[i] = f[i] /\ h[i - 1] = f[i - 1]
      BY <1>5, <2>1, <3>1 DEF Removed
    <3> QED BY <1>3, <3>1, <3>2
  <2>2. CASE i = k
    <3>1. /\ i \in 0..Len(m) /\ i - 1 \in 0..Len(m) /\ i - 1 < k /\ i >= k
          /\ i + 1 \in 1..Len(n) /\ (i + 1) - 1 = i
      BY <1>1, <2>2
    <3>2. m[i] = n[i + 1] /\ h[i] = f[i + 1] /\ h[i - 1] = f[i]
      BY <1>4, <1>5, <2>2, <3>1 DEF Removed
    <3>3. f[i + 1] = Step(n[i + 1], f[i])
      BY <1>3, <3>1
    <3> QED BY <3>2, <3>3
  <2>3. CASE i > k
    <3>1. /\ i \in 0..Len(m) /\ i - 1 \in 0..Len(m) /\ i >= k /\ i - 1 >= k
          /\ i + 1 \in 1..Len(n) /\ (i - 1) + 1 = i /\ (i + 1) - 1 = i
      BY <1>1, <2>3
    <3>2. m[i] = n[i + 1] /\ h[i] = f[i + 1] /\ h[i - 1] = f[i]
      <4>1. h[i - 1] = f[(i - 1) + 1]
        BY <1>5, <3>1
      <4> QED BY <1>5, <3>1, <4>1 DEF Removed
    <3>3. f[i + 1] = Step(n[i + 1], f[i])
      BY <1>3, <3>1
    <3> QED BY <3>2, <3>3
  <2> QED BY <1>1, <2>1, <2>2, <2>3
<1>8. Counts(m, e, h)
  BY <1>6, <1>7 DEF Counts
<1>9. Arriving(m, e) = h[Len(m)]
  BY <1>1, <1>8, ArrivingIs
<1>10. h[Len(m)] = f[Len(n)]
  <2>1. CASE Len(m) >= k
    <3>1. Len(m) \in 0..Len(m) /\ Len(m) + 1 = Len(n)
      BY <1>1
    <3> QED BY <1>5, <2>1, <3>1
  <2>2. CASE Len(m) < k
    <3>1. Len(m) \in 0..Len(m) /\ k = Len(n) /\ Len(m) = k - 1
      BY <1>1, <2>2
    <3> QED BY <1>4, <1>5, <2>2, <3>1
  <2> QED BY <1>1, <2>1, <2>2
<1> QED BY <1>2, <1>9, <1>10

LEMMA NothingArrives ==
  ASSUME NEW n \in Seq(Event), NEW e,
         \A i \in 1..Len(n) : ~InTransit(n[i], e)
  PROVE  Arriving(n, e) = << >>
<1> DEFINE f == [i \in 0..Len(n) |-> << >>]
<1>1. Len(n) \in Nat
  BY EventFacts
<1>2. Counts(n, e, f)
  <2>1. f[0] = << >> /\ \A i \in 1..Len(n) : f[i] = << >> /\ f[i - 1] = << >>
    BY <1>1
  <2> HIDE DEF f
  <2> QED BY <2>1 DEF Counts
<1>3. f[Len(n)] = << >>
  BY <1>1
<1> HIDE DEF f
<1> QED BY <1>2, <1>3, ArrivingIs

-----------------------------------------------------------------------------
\* The head of the list is taken.

LEMMA TakenEvents ==
  ASSUME NEW n \in Seq(Event), n # << >>, Sorted(n)
  PROVE  /\ Len(n) >= 1 /\ n[1] \in Event /\ Head(n) = n[1]
         /\ Taken(n) \in Seq(Event) /\ Len(Taken(n)) = Len(n) - 1
         /\ \A i \in 1..Len(Taken(n)) :
              /\ i + 1 \in 1..Len(n)
              /\ Taken(n)[i].evtime = n[i + 1].evtime - n[1].evtime
              /\ Taken(n)[i].evtype = n[i + 1].evtype
              /\ Taken(n)[i].eventity = n[i + 1].eventity
              /\ Taken(n)[i].pkt = n[i + 1].pkt
<1>1. Len(n) \in Nat /\ Len(n) >= 1 /\ Head(n) = n[1]
  BY EmptySeq
<1>2. \A i \in 1..Len(n) : n[i] \in Event
  BY EventFacts
<1> DEFINE x(i) == [n[i + 1] EXCEPT !.evtime = @ - n[1].evtime]
<1>3. ASSUME NEW i \in 1..(Len(n) - 1)
      PROVE  /\ i + 1 \in 1..Len(n)
             /\ x(i) \in Event
             /\ x(i).evtime = n[i + 1].evtime - n[1].evtime
             /\ x(i).evtype = n[i + 1].evtype
             /\ x(i).eventity = n[i + 1].eventity
             /\ x(i).pkt = n[i + 1].pkt
  <2>1. i + 1 \in 1..Len(n) /\ 1 \in 1..Len(n) /\ 1 < i + 1
    BY <1>1
  <2>2. n[i + 1] \in Event /\ n[1] \in Event
    BY <1>2, <2>1
  <2>3. n[1].evtime <= n[i + 1].evtime /\ n[1].evtime \in Nat /\ n[i + 1].evtime \in Nat
    BY <2>1, <2>2 DEF Sorted, Event
  <2>4. n[i + 1].evtime - n[1].evtime \in Nat
    BY <2>3
  <2> QED BY <2>1, <2>2, <2>4 DEF Event
<1>4. Taken(n) = [i \in 1..(Len(n) - 1) |-> x(i)]
  BY DEF Taken
<1>5. Taken(n) \in [1..(Len(n) - 1) -> Event]
  <2> HIDE DEF x
  <2> QED BY <1>3, <1>4
<1>6. Taken(n) \in Seq(Event) /\ Len(Taken(n)) = Len(n) - 1
  BY <1>1, <1>5
<1>7. \A i \in 1..(Len(n) - 1) : Taken(n)[i] = x(i)
  BY <1>4
<1> HIDE DEF x
<1> QED BY <1>1, <1>2, <1>3, <1>6, <1>7

\* The time that has passed is taken off every other event.
LEMMA TakenOrderly ==
  ASSUME NEW n \in Seq(Event), n # << >>, Sorted(n), Apart(n)
  PROVE  Sorted(Taken(n)) /\ Apart(Taken(n))
<1>1. /\ Len(n) >= 1 /\ n[1] \in Event
      /\ Taken(n) \in Seq(Event) /\ Len(Taken(n)) = Len(n) - 1
      /\ \A i \in 1..Len(Taken(n)) :
           /\ i + 1 \in 1..Len(n)
           /\ Taken(n)[i].evtime = n[i + 1].evtime - n[1].evtime
           /\ Taken(n)[i].evtype = n[i + 1].evtype
           /\ Taken(n)[i].eventity = n[i + 1].eventity
  BY TakenEvents
<1>2. n[1].evtime \in Nat /\ \A i \in 1..Len(n) : n[i].evtime \in Nat
  BY <1>1, EventFacts
<1>3. ASSUME NEW i \in 1..Len(Taken(n)), NEW j \in 1..Len(Taken(n)), i < j
      PROVE  /\ i + 1 \in 1..Len(n) /\ j + 1 \in 1..Len(n) /\ i + 1 < j + 1
             /\ Taken(n)[i].evtime <= Taken(n)[j].evtime
  <2>1. i + 1 \in 1..Len(n) /\ j + 1 \in 1..Len(n) /\ i + 1 < j + 1
    BY <1>1, <1>3
  <2>2. n[i + 1].evtime <= n[j + 1].evtime
    BY <2>1 DEF Sorted
  <2>3. /\ Taken(n)[i].evtime = n[i + 1].evtime - n[1].evtime
        /\ Taken(n)[j].evtime = n[j + 1].evtime - n[1].evtime
        /\ n[i + 1].evtime \in Nat /\ n[j + 1].evtime \in Nat
    BY <1>1, <1>2, <2>1
  <2>4. \A x, y, z \in Nat : x <= y => x - z <= y - z
    OBVIOUS
  <2> QED BY <1>2, <2>1, <2>2, <2>3, <2>4
<1>4. ASSUME NEW e \in Entity, NEW i \in 1..Len(Taken(n)), NEW j \in 1..Len(Taken(n)),
             i < j, InTransit(Taken(n)[i], e), InTransit(Taken(n)[j], e)
      PROVE  Taken(n)[j].evtime >= Taken(n)[i].evtime + 1
  <2>1. InTransit(n[i + 1], e) /\ InTransit(n[j + 1], e)
    BY <1>1, <1>4 DEF InTransit
  <2>2. n[j + 1].evtime >= n[i + 1].evtime + 1
    BY <1>3, <1>4, <2>1 DEF Apart
  <2>3. /\ Taken(n)[i].evtime = n[i + 1].evtime - n[1].evtime
        /\ Taken(n)[j].evtime = n[j + 1].evtime - n[1].evtime
        /\ n[i + 1].evtime \in Nat /\ n[j + 1].evtime \in Nat
    BY <1>1, <1>2, <1>3, <1>4
  <2>4. \A x, y, z \in Nat : y >= x + 1 => y - z >= (x - z) + 1
    OBVIOUS
  <2> QED BY <1>2, <2>2, <2>3, <2>4
<1> QED BY <1>3, <1>4 DEF Sorted, Apart

LEMMA TakenKinds ==
  ASSUME NEW n \in Seq(Event), n # << >>, Sorted(n), NEW t, NEW S
  PROVE  /\ Absent(n, t, S) => Absent(Taken(n), t, S)
         /\ AtMostOne(n, t, S) => AtMostOne(Taken(n), t, S)
         /\ AtMostOne(n, t, S) /\ Of(n[1], t, S) => Absent(Taken(n), t, S)
         /\ ~Absent(n, t, S) /\ ~Of(n[1], t, S) => ~Absent(Taken(n), t, S)
<1>1. /\ Len(n) \in Nat /\ Len(n) >= 1
      /\ Len(Taken(n)) = Len(n) - 1
      /\ \A i \in 1..Len(Taken(n)) :
           i + 1 \in 1..Len(n) /\ (Of(Taken(n)[i], t, S) <=> Of(n[i + 1], t, S))
  BY TakenEvents, EventFacts DEF Of
<1>2. Absent(n, t, S) => Absent(Taken(n), t, S)
  BY <1>1 DEF Absent
<1>3. AtMostOne(n, t, S) => AtMostOne(Taken(n), t, S)
  <2> SUFFICES ASSUME AtMostOne(n, t, S), NEW i \in 1..Len(Taken(n)),
                      NEW j \in 1..Len(Taken(n)),
                      Of(Taken(n)[i], t, S), Of(Taken(n)[j], t, S)
               PROVE  i = j
    BY DEF AtMostOne
  <2>1. /\ i + 1 \in 1..Len(n) /\ j + 1 \in 1..Len(n)
        /\ Of(n[i + 1], t, S) /\ Of(n[j + 1], t, S)
    BY <1>1
  <2>2. i + 1 = j + 1
    BY <2>1 DEF AtMostOne
  <2> QED BY <1>1, <2>2
<1>4. ASSUME AtMostOne(n, t, S), Of(n[1], t, S), NEW i \in 1..Len(Taken(n)),
             Of(Taken(n)[i], t, S)
      PROVE  FALSE
  <2>1. i + 1 \in 1..Len(n) /\ 1 \in 1..Len(n) /\ Of(n[i + 1], t, S)
    BY <1>1, <1>4
  <2>2. i + 1 = 1
    BY <1>4, <2>1 DEF AtMostOne
  <2> QED BY <1>1, <2>2
<1>5. ASSUME ~Absent(n, t, S), ~Of(n[1], t, S) PROVE ~Absent(Taken(n), t, S)
  <2>1. PICK i \in 1..Len(n) : Of(n[i], t, S)
    BY <1>5 DEF Absent
  <2>2. i - 1 \in 1..Len(Taken(n)) /\ (i - 1) + 1 = i
    BY <1>1, <1>5, <2>1
  <2>3. Of(Taken(n)[i - 1], t, S)
    BY <1>1, <2>1, <2>2
  <2> QED BY <2>2, <2>3 DEF Absent
<1> QED BY <1>2, <1>3, <1>4, <1>5 DEF Absent

\* A packet taken was the first on its way to its entity.
LEMMA TakenArriving ==
  ASSUME NEW n \in Seq(Event), n # << >>, Sorted(n), NEW e
  PROVE  /\ ~InTransit(n[1], e) => Arriving(Taken(n), e) = Arriving(n, e)
         /\ InTransit(n[1], e) =>
              /\ Arriving(n, e) # << >>
              /\ Arriving(Taken(n), e) = Tail(Arriving(n, e))
              /\ Head(Arriving(n, e)) = n[1].pkt
<1> DEFINE m == Taken(n)
           Step(x, s) == IF InTransit(x, e) THEN Append(s, x.pkt) ELSE s
<1>1. /\ Len(n) \in Nat /\ Len(n) >= 1 /\ 1 \in 1..Len(n) /\ n[1].pkt \in Pkt
      /\ m \in Seq(Event) /\ Len(m) = Len(n) - 1
  <2>1. /\ Len(n) \in Nat /\ Len(n) >= 1 /\ n[1] \in Event
        /\ m \in Seq(Event) /\ Len(m) = Len(n) - 1
    BY TakenEvents, EventFacts
  <2> HIDE DEF m
  <2>2. n[1].pkt \in Pkt
    BY <2>1 DEF Event
  <2> QED BY <2>1, <2>2
<1>2. \A i \in 1..Len(m) :
        /\ i + 1 \in 1..Len(n) /\ m[i].pkt = n[i + 1].pkt
        /\ InTransit(m[i], e) <=> InTransit(n[i + 1], e)
  BY TakenEvents DEF InTransit
<1>3. PICK f : Counts(n, e, f) /\ Arriving(n, e) = f[Len(n)]
  BY ArrivingCounts
<1>4. f[0] = << >> /\ \A i \in 1..Len(n) : f[i] = Step(n[i], f[i - 1])
  BY <1>3 DEF Counts
<1>5. f[1] = Step(n[1], << >>)
  <2>1. f[1] = Step(n[1], f[1 - 1])
    BY <1>1, <1>4
  <2>2. f[1 - 1] = << >>
    BY <1>4
  <2> QED BY <2>1, <2>2
<1> HIDE DEF m
<1>6. ASSUME ~InTransit(n[1], e) PROVE Arriving(m, e) = Arriving(n, e)
  <2> DEFINE h == [i \in 0..Len(m) |-> f[i + 1]]
  <2>1. /\ \A i \in 0..Len(m) : h[i] = f[i + 1]
        /\ \A i \in 1..Len(m) : i \in 0..Len(m) /\ i - 1 \in 0..Len(m) /\ (i - 1) + 1 = i
        /\ 0 \in 0..Len(m) /\ Len(m) \in 0..Len(m) /\ Len(m) + 1 = Len(n)
    BY <1>1
  <2> HIDE DEF h
  <2>2. h[0] = << >> /\ h[Len(m)] = f[Len(n)]
    BY <1>5, <1>6, <2>1
  <2>3. ASSUME NEW i \in 1..Len(m) PROVE h[i] = Step(m[i], h[i - 1])
    <3>1. i \in 0..Len(m) /\ i - 1 \in 0..Len(m) /\ (i - 1) + 1 = i /\ (i + 1) - 1 = i
      BY <1>1
    <3>2. h[i] = f[i + 1] /\ h[i - 1] = f[i]
      <4>1. h[i - 1] = f[(i - 1) + 1]
        BY <2>1, <3>1
      <4> QED BY <2>1, <3>1, <4>1
    <3>3. f[i + 1] = Step(n[i + 1], f[i])
      BY <1>2, <1>4, <3>1
    <3> QED BY <1>2, <3>2, <3>3
  <2>4. Counts(m, e, h)
    BY <2>2, <2>3 DEF Counts
  <2> QED BY <1>1, <1>3, <2>2, <2>4, ArrivingIs
<1>7. ASSUME InTransit(n[1], e)
      PROVE  /\ Arriving(n, e) # << >>
             /\ Arriving(m, e) = Tail(Arriving(n, e))
             /\ Head(Arriving(n, e)) = n[1].pkt
  <2> DEFINE Begins(s) == s \in Seq(Pkt) /\ s # << >> /\ Head(s) = n[1].pkt
             Bad == {i \in 1..Len(n) : ~Begins(f[i])}
  <2>1. ASSUME NEW s, NEW p \in Pkt, Begins(s)
        PROVE  Begins(Append(s, p)) /\ Tail(Append(s, p)) = Append(Tail(s), p)
    <3>1. s \in Seq(Pkt) /\ Len(s) \in Nat /\ Len(s) >= 1
      BY <2>1, EmptySeq
    <3>2. Append(s, p) \in Seq(Pkt) /\ Len(Append(s, p)) = Len(s) + 1
      BY <3>1, AppendProperties
    <3>3. Append(s, p)[1] = s[1] /\ Head(s) = s[1] /\ Head(Append(s, p)) = Append(s, p)[1]
      BY <3>1, <3>2
    <3>4. Tail(Append(s, p)) = Append(Tail(s), p)
      BY <3>1
    <3> QED BY <2>1, <3>1, <3>2, <3>3, <3>4
  <2>2. Begins(f[1])
    <3>1. f[1] = << n[1].pkt >>
      BY <1>5, <1>7
    <3> QED BY <1>1, <3>1
  <2>3. Bad = {}
    <3> SUFFICES ASSUME Bad # {} PROVE FALSE
      OBVIOUS
    <3>1. PICK l \in Bad : \A j \in Bad : l <= j
      <4>1. Bad \subseteq Nat
        BY <1>1
      <4> HIDE DEF Bad
      <4> QED BY <4>1, MinIsLeast
    <3> HIDE DEF Begins
    <3>2. l # 1
      BY <2>2
    <3>3. l \in 1..Len(n) /\ l - 1 \in 1..Len(n) /\ l - 1 < l
      BY <1>1, <3>2
    <3>4. Begins(f[l - 1])
      BY <3>1, <3>3
    <3>5. f[l] = Step(n[l], f[l - 1]) /\ n[l].pkt \in Pkt
      BY <1>4, <3>3, EventFacts
    <3>6. Begins(f[l])
      BY <2>1, <3>4, <3>5
    <3> QED BY <3>6
  <2>4. \A i \in 1..Len(n) : Begins(f[i])
    BY <2>3
  <2> HIDE DEF Bad
  <2> DEFINE h == [i \in 0..Len(m) |-> Tail(f[i + 1])]
  <2>5. /\ \A i \in 0..Len(m) : h[i] = Tail(f[i + 1])
        /\ 0 \in 0..Len(m) /\ Len(m) \in 0..Len(m) /\ Len(m) + 1 = Len(n)
    BY <1>1
  <2> HIDE DEF h
  <2>6. h[0] = << >> /\ h[Len(m)] = Tail(f[Len(n)])
    <3>1. f[1] = << n[1].pkt >>
      BY <1>5, <1>7
    <3>2. Tail(<< n[1].pkt >>) = << >>
      OBVIOUS
    <3>3. h[0] = Tail(f[1])
      <4>1. h[0] = Tail(f[0 + 1])
        BY <2>5
      <4> QED BY <4>1
    <3>4. h[Len(m)] = Tail(f[Len(n)])
      BY <2>5
    <3> QED BY <3>1, <3>2, <3>3, <3>4
  <2>7. ASSUME NEW i \in 1..Len(m) PROVE h[i] = Step(m[i], h[i - 1])
    <3>1. i \in 0..Len(m) /\ i - 1 \in 0..Len(m) /\ (i - 1) + 1 = i /\ (i + 1) - 1 = i
          /\ i \in 1..Len(n)
      BY <1>1
    <3>2. h[i] = Tail(f[i + 1]) /\ h[i - 1] = Tail(f[i])
      <4>1. h[i - 1] = Tail(f[(i - 1) + 1])
        BY <2>5, <3>1
      <4> QED BY <2>5, <3>1, <4>1
    <3>3. f[i + 1] = Step(n[i + 1], f[i])
      BY <1>2, <1>4, <3>1
    <3>4. Begins(f[i]) /\ n[i + 1].pkt \in Pkt
      BY <1>2, <2>4, <3>1, EventFacts
    <3> HIDE DEF Begins
    <3> QED BY <1>2, <2>1, <3>2, <3>3, <3>4
  <2>8. Counts(m, e, h)
    BY <2>6, <2>7 DEF Counts
  <2>9. Len(n) \in 1..Len(n)
    BY <1>1
  <2>10. Arriving(m, e) = Tail(f[Len(n)])
    BY <1>1, <2>6, <2>8, ArrivingIs
  <2> QED BY <1>3, <2>4, <2>9, <2>10
<1> QED BY <1>6, <1>7 DEF m

-----------------------------------------------------------------------------
\* What is left when an event is taken out.

LEMMA RemovedKeeps ==
  ASSUME NEW n \in Seq(Event), NEW k, NEW m, Removed(n, k, m)
  PROVE  /\ Sorted(n) => Sorted(m)
         /\ Apart(n) => Apart(m)
         /\ \A x \in Range(m) : x \in Range(n)
         /\ \A t, S : Absent(n, t, S) => Absent(m, t, S)
         /\ \A t, S : AtMostOne(n, t, S) => AtMostOne(m, t, S)
         /\ \A t, S : AtMostOne(n, t, S) /\ Of(n[k], t, S) => Absent(m, t, S)
         /\ \A t, S : ~Absent(n, t, S) /\ ~Of(n[k], t, S) => ~Absent(m, t, S)
<1>1. Len(n) \in Nat /\ k \in 1..Len(n) /\ Len(m) = Len(n) - 1 /\ DOMAIN m = 1..Len(m)
      /\ DOMAIN n = 1..Len(n)
  BY EventFacts DEF Removed
<1>2. ASSUME NEW i \in 1..Len(m)
      PROVE  After(k, i) \in 1..Len(n) /\ m[i] = n[After(k, i)] /\ After(k, i) # k
  BY <1>1 DEF Removed, After
<1>3. \A i, j \in 1..Len(m) : /\ i < j => After(k, i) < After(k, j)
                              /\ After(k, i) = After(k, j) => i = j
  BY <1>1 DEF After
<1>4. ASSUME NEW i \in 1..Len(n), i # k
      PROVE  Before(k, i) \in 1..Len(m) /\ m[Before(k, i)] = n[i]
  <2>1. Before(k, i) \in 1..Len(m)
    BY <1>1, <1>4 DEF Before
  <2>2. After(k, Before(k, i)) = i
    BY <1>1, <1>4 DEF Before, After
  <2> QED BY <1>2, <2>1, <2>2
<1>5. Sorted(n) => Sorted(m)
  BY <1>2, <1>3 DEF Sorted
<1>6. Apart(n) => Apart(m)
  BY <1>2, <1>3 DEF Apart
<1>7. \A x \in Range(m) : x \in Range(n)
  BY <1>1, <1>2 DEF Range
<1>8. ASSUME NEW t, NEW S
      PROVE  /\ Absent(n, t, S) => Absent(m, t, S)
             /\ AtMostOne(n, t, S) => AtMostOne(m, t, S)
             /\ AtMostOne(n, t, S) /\ Of(n[k], t, S) => Absent(m, t, S)
             /\ ~Absent(n, t, S) /\ ~Of(n[k], t, S) => ~Absent(m, t, S)
  <2>1. Absent(n, t, S) => Absent(m, t, S)
    BY <1>2 DEF Absent
  <2>2. AtMostOne(n, t, S) => AtMostOne(m, t, S)
    BY <1>2, <1>3 DEF AtMostOne
  <2>3. AtMostOne(n, t, S) /\ Of(n[k], t, S) => Absent(m, t, S)
    BY <1>1, <1>2 DEF AtMostOne, Absent
  <2>4. ~Absent(n, t, S) /\ ~Of(n[k], t, S) => ~Absent(m, t, S)
    BY <1>4 DEF Absent
  <2> QED BY <2>1, <2>2, <2>3, <2>4
<1> QED BY <1>5, <1>6, <1>7, <1>8

-----------------------------------------------------------------------------
\* The services with the clock are those without it.

LEMMA UntimedMedium ==
  ASSUME NEW n \in Seq(Event)
  PROVE  /\ Untimed(n) \in Medium
         /\ \A e \in Entity :
              /\ Untimed(n).chan[e] = Arriving(n, e)
              /\ Untimed(n).timer[e] <=> ~Absent(n, TIMER_INTERRUPT, {e})
              /\ Len(Untimed(n).chan[e]) <= Len(n)
<1>1. DOMAIN n = 1..Len(n)
  BY EventFacts
<1>2. \A e \in Entity : Arriving(n, e) \in Seq(Pkt) /\ Len(Arriving(n, e)) <= Len(n)
  BY ArrivingType
<1>3. \A e : (\E k \in DOMAIN n : IsTimer(n[k], e)) <=> ~Absent(n, TIMER_INTERRUPT, {e})
  BY <1>1 DEF IsTimer, Absent, Of
<1>4. /\ Untimed(n).chan = [e \in Entity |-> Arriving(n, e)]
      /\ Untimed(n).timer = [e \in Entity |-> \E k \in DOMAIN n : IsTimer(n[k], e)]
  BY DEF Untimed
<1>5. Untimed(n) \in Medium
  <2>1. [e \in Entity |-> Arriving(n, e)] \in [Entity -> Seq(Pkt)]
    BY <1>2
  <2>2. [e \in Entity |-> \E k \in DOMAIN n : IsTimer(n[k], e)] \in [Entity -> BOOLEAN]
    OBVIOUS
  <2> QED BY <2>1, <2>2, Zenon DEF Untimed, Medium
<1> QED BY <1>2, <1>3, <1>4, <1>5

LEMMA SameMedium ==
  ASSUME NEW n \in Medium, NEW m \in Medium,
         \A e \in Entity : n.chan[e] = m.chan[e],
         \A e \in Entity : n.timer[e] <=> m.timer[e]
  PROVE  n = m
<1>1. /\ n.chan \in [Entity -> Seq(Pkt)] /\ n.timer \in [Entity -> BOOLEAN]
      /\ m.chan \in [Entity -> Seq(Pkt)] /\ m.timer \in [Entity -> BOOLEAN]
      /\ n = [chan |-> n.chan, timer |-> n.timer]
      /\ m = [chan |-> m.chan, timer |-> m.timer]
  BY DEF Medium
<1>2. n.chan = m.chan
  BY <1>1
<1>3. n.timer = m.timer
  BY <1>1
<1> QED BY <1>1, <1>2, <1>3

\* insertevent for an event that comes after all of its kind.
LEMMA Scheduled ==
  ASSUME NEW n, Orderly(n), NEW p \in Event,
         \A e \in Entity : InTransit(p, e) =>
           \A i \in 1..Len(n) : InTransit(n[i], e) => n[i].evtime + 1 <= p.evtime,
         \A e \in Entity : Of(p, TIMER_INTERRUPT, {e}) => Absent(n, TIMER_INTERRUPT, {e})
  PROVE  LET m == insertevent(n, p)
         IN  /\ Orderly(m)
             /\ Len(m) = Len(n) + 1
             /\ Range(m) = Range(n) \cup {p}
             /\ \A e \in Entity : Arriving(m, e) = Extended(Arriving(n, e), p, e)
             /\ \A t, S : Absent(m, t, S) <=> Absent(n, t, S) /\ ~Of(p, t, S)
             /\ \A t, S : AtMostOne(n, t, S) /\ (Of(p, t, S) => Absent(n, t, S))
                            => AtMostOne(m, t, S)
<1> DEFINE m == insertevent(n, p)
<1>1. /\ n \in Seq(Event) /\ Sorted(n) /\ Apart(n)
      /\ \A e \in Entity : AtMostOne(n, TIMER_INTERRUPT, {e})
  BY DEF Orderly
<1>2. PICK k \in 1..(Len(n) + 1) :
        /\ Inserted(n, k, p, m)
        /\ \A i \in 1..Len(n) : i < k => n[i].evtime < p.evtime
        /\ k <= Len(n) => p.evtime <= n[k].evtime
  BY <1>1, InsertEventInserts
<1> HIDE DEF m
<1>3. Sorted(m)
  BY <1>1, <1>2, InsertedSorted
<1>4. /\ Apart(m)
      /\ \A e \in Entity : InTransit(p, e) =>
           \A i \in 1..Len(n) : i >= k => ~InTransit(n[i], e)
  BY <1>1, <1>2, <1>3, InsertedApart
<1>5. /\ \A t, S : Absent(m, t, S) <=> Absent(n, t, S) /\ ~Of(p, t, S)
      /\ \A t, S : AtMostOne(n, t, S) /\ (Of(p, t, S) => Absent(n, t, S))
                     => AtMostOne(m, t, S)
      /\ Range(m) = Range(n) \cup {p}
  BY <1>1, <1>2, InsertedKinds
<1>6. m \in Seq(Event) /\ Len(m) = Len(n) + 1
  BY <1>2 DEF Inserted
<1>7. ASSUME NEW e \in Entity PROVE Arriving(m, e) = Extended(Arriving(n, e), p, e)
  <2>1. Latest(n, k, p, e)
    BY <1>4 DEF Latest
  <2> QED BY <1>1, <1>2, <2>1, InsertedArriving
<1>8. Orderly(m)
  BY <1>1, <1>3, <1>4, <1>5, <1>6 DEF Orderly
<1> QED BY <1>5, <1>6, <1>7, <1>8 DEF m

\* The events the services put on the list.
Arrival(gap) == [evtime |-> gap, evtype |-> FROM_LAYER5, eventity |-> A, pkt |-> NoPkt]
Alarm(e, t) == [evtime |-> t, evtype |-> TIMER_INTERRUPT, eventity |-> e, pkt |-> NoPkt]
Delivery(n, e, p, how) ==
  [evtime |-> LastTime(n, Peer(e)) + how.delay, evtype |-> FROM_LAYER3,
   eventity |-> Peer(e), pkt |-> Damage(p, how.fate)]

LEMMA DamageType ==
  ASSUME NEW p \in Pkt, NEW f PROVE Damage(p, f) \in Pkt
<1>1. CASE f = "payload"
  <2>1. Damage(p, f) = [p EXCEPT !.payload.first = 90]
    BY <1>1 DEF Damage
  <2> QED BY <2>1 DEF Pkt
<1>2. CASE f = "seqnum"
  BY <1>2 DEF Damage, Pkt
<1>3. CASE f = "acknum"
  BY <1>3 DEF Damage, Pkt
<1>4. CASE f \notin {"payload", "seqnum", "acknum"}
  BY <1>4 DEF Damage
<1> QED BY <1>1, <1>2, <1>3, <1>4

LEMMA EventTypes ==
  /\ \A gap \in Nat : Arrival(gap) \in Event
  /\ \A e \in Entity, t \in Nat : Alarm(e, t) \in Event
  /\ \A gap, e : ~InTransit(Arrival(gap), e)
  /\ \A d, t, e : ~InTransit(Alarm(d, t), e)
  /\ \A gap, t, S : Of(Arrival(gap), t, S) <=> t = FROM_LAYER5 /\ A \in S
  /\ \A e, s, t, S : Of(Alarm(e, s), t, S) <=> t = TIMER_INTERRUPT /\ e \in S
<1>1. NoPkt \in Pkt
  BY DEF NoPkt, Pkt, NoData
<1> QED BY <1>1 DEF Arrival, Alarm, Event, Entity, InTransit, Of,
                    TIMER_INTERRUPT, FROM_LAYER5, FROM_LAYER3

LEMMA NextArrival ==
  ASSUME NEW n, Orderly(n), NEW gap \in Nat
  PROVE  LET m == generate_next_arrival(n, gap)
         IN  /\ Orderly(m)
             /\ Len(m) = Len(n) + 1
             /\ Untimed(m) = Untimed(n)
             /\ Range(m) = Range(n) \cup {Arrival(gap)}
             /\ \A t, S : t # FROM_LAYER5 =>
                  /\ Absent(m, t, S) <=> Absent(n, t, S)
                  /\ AtMostOne(n, t, S) => AtMostOne(m, t, S)
             /\ \A S : Absent(n, FROM_LAYER5, S) => AtMostOne(m, FROM_LAYER5, S)
             /\ ~Absent(m, FROM_LAYER5, {A})
<1> DEFINE m == generate_next_arrival(n, gap)
           p == Arrival(gap)
<1>1. m = insertevent(n, p)
  BY DEF generate_next_arrival, Arrival
<1>2. /\ p \in Event /\ \A e : ~InTransit(p, e)
      /\ \A t, S : Of(p, t, S) <=> t = FROM_LAYER5 /\ A \in S
      /\ TIMER_INTERRUPT # FROM_LAYER5
  BY EventTypes DEF TIMER_INTERRUPT, FROM_LAYER5
<1> HIDE DEF m, p
<1>3. /\ Orderly(m)
      /\ Len(m) = Len(n) + 1
      /\ Range(m) = Range(n) \cup {p}
      /\ \A e \in Entity : Arriving(m, e) = Extended(Arriving(n, e), p, e)
      /\ \A t, S : Absent(m, t, S) <=> Absent(n, t, S) /\ ~Of(p, t, S)
      /\ \A t, S : AtMostOne(n, t, S) /\ (Of(p, t, S) => Absent(n, t, S))
                     => AtMostOne(m, t, S)
  <2>1. /\ \A e \in Entity : InTransit(p, e) =>
             \A i \in 1..Len(n) : InTransit(n[i], e) => n[i].evtime + 1 <= p.evtime
        /\ \A e \in Entity : Of(p, TIMER_INTERRUPT, {e}) => Absent(n, TIMER_INTERRUPT, {e})
    BY <1>2
  <2> QED BY <1>1, <1>2, <2>1, Scheduled
<1>4. Untimed(m) = Untimed(n)
  <2>1. n \in Seq(Event) /\ m \in Seq(Event)
    BY <1>3 DEF Orderly
  <2>2. \A e \in Entity : Arriving(m, e) = Arriving(n, e)
    BY <1>2, <1>3 DEF Extended
  <2>3. \A e \in Entity : Absent(m, TIMER_INTERRUPT, {e}) <=> Absent(n, TIMER_INTERRUPT, {e})
    BY <1>2, <1>3
  <2> DEFINE u == Untimed(n)
             v == Untimed(m)
  <2>4. /\ v \in Medium /\ u \in Medium
        /\ \A e \in Entity : v.chan[e] = u.chan[e] /\ (v.timer[e] <=> u.timer[e])
    BY <2>1, <2>2, <2>3, UntimedMedium
  <2> HIDE DEF u, v
  <2>5. v = u
    BY <2>4, SameMedium
  <2> QED BY <2>5 DEF u, v
<1>5. ~Absent(m, FROM_LAYER5, {A})
  BY <1>2, <1>3
<1>6. \A t, S : t # FROM_LAYER5 => /\ Absent(m, t, S) <=> Absent(n, t, S)
                                   /\ AtMostOne(n, t, S) => AtMostOne(m, t, S)
  BY <1>2, <1>3
<1>7. \A S : Absent(n, FROM_LAYER5, S) => AtMostOne(m, FROM_LAYER5, S)
  BY <1>3 DEF Absent, AtMostOne
<1> QED BY <1>3, <1>4, <1>5, <1>6, <1>7 DEF m, p

LEMMA TimerStarted ==
  ASSUME NEW n, Orderly(n), NEW e \in Entity, NEW t \in Nat
  PROVE  LET m == starttimer(n, e, t)
         IN  /\ Orderly(m)
             /\ Len(m) <= Len(n) + 1
             /\ Untimed(m) = SetTimer(Untimed(n), e, t)
             /\ Range(m) \subseteq Range(n) \cup {Alarm(e, t)}
             /\ \A y, S : y # TIMER_INTERRUPT =>
                  /\ Absent(m, y, S) <=> Absent(n, y, S)
                  /\ AtMostOne(n, y, S) => AtMostOne(m, y, S)
             /\ ~Absent(m, TIMER_INTERRUPT, {e})
             /\ \A S : e \notin S => (Absent(m, TIMER_INTERRUPT, S)
                                        <=> Absent(n, TIMER_INTERRUPT, S))
<1> DEFINE m == starttimer(n, e, t)
           p == Alarm(e, t)
<1>1. /\ p \in Event /\ \A d : ~InTransit(p, d)
      /\ \A y, S : Of(p, y, S) <=> y = TIMER_INTERRUPT /\ e \in S
  BY EventTypes
<1>2. n \in Seq(Event) /\ Len(n) \in Nat /\ DOMAIN n = 1..Len(n)
  BY EventFacts DEF Orderly
<1>3. /\ ~Absent(n, TIMER_INTERRUPT, {e}) => m = n
      /\ Absent(n, TIMER_INTERRUPT, {e}) => m = insertevent(n, p)
  BY <1>2 DEF starttimer, Absent, Of, IsTimer, Alarm
<1> HIDE DEF m, p
<1>4. /\ \A d \in Entity : InTransit(p, d) =>
           \A i \in 1..Len(n) : InTransit(n[i], d) => n[i].evtime + 1 <= p.evtime
      /\ Absent(n, TIMER_INTERRUPT, {e}) =>
           \A d \in Entity : Of(p, TIMER_INTERRUPT, {d}) => Absent(n, TIMER_INTERRUPT, {d})
  BY <1>1
<1>5. /\ Orderly(m)
      /\ Len(m) <= Len(n) + 1
      /\ Range(m) \subseteq Range(n) \cup {p}
      /\ \A d \in Entity : Arriving(m, d) = Arriving(n, d)
      /\ \A y, S : y # TIMER_INTERRUPT =>
           /\ Absent(m, y, S) <=> Absent(n, y, S)
           /\ AtMostOne(n, y, S) => AtMostOne(m, y, S)
      /\ ~Absent(m, TIMER_INTERRUPT, {e})
      /\ \A S : e \notin S => (Absent(m, TIMER_INTERRUPT, S)
                                 <=> Absent(n, TIMER_INTERRUPT, S))
  <2>1. CASE ~Absent(n, TIMER_INTERRUPT, {e})
    BY <1>2, <1>3, <2>1
  <2>2. CASE Absent(n, TIMER_INTERRUPT, {e})
    <3>1. /\ Orderly(m)
          /\ Len(m) = Len(n) + 1
          /\ Range(m) = Range(n) \cup {p}
          /\ \A d \in Entity : Arriving(m, d) = Extended(Arriving(n, d), p, d)
          /\ \A y, S : Absent(m, y, S) <=> Absent(n, y, S) /\ ~Of(p, y, S)
          /\ \A y, S : AtMostOne(n, y, S) /\ (Of(p, y, S) => Absent(n, y, S))
                         => AtMostOne(m, y, S)
      <4>1. Orderly(n) /\ p \in Event /\ m = insertevent(n, p)
        BY <1>1, <1>3, <2>2
      <4>2. \A d \in Entity : InTransit(p, d) =>
               \A i \in 1..Len(n) : InTransit(n[i], d) => n[i].evtime + 1 <= p.evtime
        BY <1>1
      <4> QED BY <1>4, <2>2, <4>1, <4>2, Scheduled
    <3>2. \A d \in Entity : Arriving(m, d) = Arriving(n, d)
      BY <1>1, <3>1 DEF Extended
    <3>3. \A y, S : y # TIMER_INTERRUPT => /\ Absent(m, y, S) <=> Absent(n, y, S)
                                           /\ AtMostOne(n, y, S) => AtMostOne(m, y, S)
      BY <1>1, <3>1, Zenon
    <3>4. /\ ~Absent(m, TIMER_INTERRUPT, {e})
          /\ \A S : e \notin S => (Absent(m, TIMER_INTERRUPT, S)
                                     <=> Absent(n, TIMER_INTERRUPT, S))
      BY <1>1, <3>1
    <3> QED BY <1>2, <3>1, <3>2, <3>3, <3>4
  <2> QED BY <2>1, <2>2
<1>6. Untimed(m) = SetTimer(Untimed(n), e, t)
  <2>1. m \in Seq(Event)
    BY <1>5 DEF Orderly
  <2>2. \A d \in Entity : d # e =>
          (Absent(m, TIMER_INTERRUPT, {d}) <=> Absent(n, TIMER_INTERRUPT, {d}))
    BY <1>5
  <2> DEFINE u == Untimed(n)
             w == SetTimer(u, e, t)
  <2>3. u \in Medium /\ Untimed(m) \in Medium
    BY <1>2, <2>1, UntimedMedium
  <2>4. w \in Medium /\ w.chan = u.chan /\ w.timer[e]
        /\ \A d \in Entity : d # e => w.timer[d] = u.timer[d]
    BY <2>3 DEF SetTimer, Medium
  <2> HIDE DEF w
  <2>5. \A d \in Entity : /\ Untimed(m).chan[d] = u.chan[d]
                          /\ Untimed(m).timer[d] <=> (d = e \/ u.timer[d])
    BY <1>2, <1>5, <2>1, <2>2, UntimedMedium
  <2>6. \A d \in Entity : Untimed(m).chan[d] = w.chan[d] /\ (Untimed(m).timer[d] <=> w.timer[d])
    BY <2>4, <2>5
  <2>7. Untimed(m) = w
    BY <2>3, <2>4, <2>6, SameMedium
  <2> QED BY <2>7 DEF w
<1> QED BY <1>5, <1>6 DEF m, p

LEMMA TimerStopped ==
  ASSUME NEW n, Orderly(n), NEW e \in Entity
  PROVE  LET m == stoptimer(n, e)
         IN  /\ Orderly(m)
             /\ Len(m) <= Len(n)
             /\ Untimed(m) = ClearTimer(Untimed(n), e)
             /\ \A x \in Range(m) : x \in Range(n)
             /\ \A y, S : y # TIMER_INTERRUPT =>
                  /\ Absent(m, y, S) <=> Absent(n, y, S)
                  /\ AtMostOne(n, y, S) => AtMostOne(m, y, S)
             /\ Absent(m, TIMER_INTERRUPT, {e})
             /\ \A S : e \notin S => (Absent(m, TIMER_INTERRUPT, S)
                                        <=> Absent(n, TIMER_INTERRUPT, S))
<1> DEFINE m == stoptimer(n, e)
           timers == {k \in DOMAIN n : IsTimer(n[k], e)}
<1>1. /\ n \in Seq(Event) /\ Len(n) \in Nat /\ DOMAIN n = 1..Len(n)
      /\ Sorted(n) /\ Apart(n)
      /\ \A d \in Entity : AtMostOne(n, TIMER_INTERRUPT, {d})
  BY EventFacts DEF Orderly
<1>2. Absent(n, TIMER_INTERRUPT, {e}) => m = n
  BY <1>1 DEF stoptimer, Absent, Of, IsTimer
<1>3. ASSUME ~Absent(n, TIMER_INTERRUPT, {e})
      PROVE  \E k \in 1..Len(n) : Of(n[k], TIMER_INTERRUPT, {e}) /\ Removed(n, k, m)
  <2>1. timers # {} /\ timers \subseteq Nat
    BY <1>1, <1>3 DEF Absent, Of, IsTimer
  <2>2. m = RemoveAt(n, Min(timers))
    BY <2>1 DEF stoptimer
  <2> HIDE DEF m
  <2>3. Min(timers) \in timers
    <3> HIDE DEF timers
    <3> QED BY <2>1, MinIsLeast
  <2>4. Min(timers) \in 1..Len(n) /\ Of(n[Min(timers)], TIMER_INTERRUPT, {e})
    BY <1>1, <2>3 DEF Of, IsTimer
  <2> HIDE DEF timers
  <2> QED BY <1>1, <2>2, <2>4, RemoveAtRemoves
<1> HIDE DEF m, timers
<1>4. /\ Orderly(m)
      /\ Len(m) <= Len(n)
      /\ \A x \in Range(m) : x \in Range(n)
      /\ \A d \in Entity : Arriving(m, d) = Arriving(n, d)
      /\ \A y, S : y # TIMER_INTERRUPT =>
           /\ Absent(m, y, S) <=> Absent(n, y, S)
           /\ AtMostOne(n, y, S) => AtMostOne(m, y, S)
      /\ Absent(m, TIMER_INTERRUPT, {e})
      /\ \A S : e \notin S => (Absent(m, TIMER_INTERRUPT, S)
                                 <=> Absent(n, TIMER_INTERRUPT, S))
  <2>1. CASE Absent(n, TIMER_INTERRUPT, {e})
    BY <1>1, <1>2, <2>1
  <2>2. CASE ~Absent(n, TIMER_INTERRUPT, {e})
    <3>1. PICK k \in 1..Len(n) : Of(n[k], TIMER_INTERRUPT, {e}) /\ Removed(n, k, m)
      BY <1>3, <2>2
    <3>2. /\ \A d : ~InTransit(n[k], d)
          /\ \A y, S : y # TIMER_INTERRUPT => ~Of(n[k], y, S)
          /\ \A S : e \notin S => ~Of(n[k], TIMER_INTERRUPT, S)
      BY <3>1 DEF Of, InTransit, TIMER_INTERRUPT, FROM_LAYER3
    <3>3. /\ Sorted(m) /\ Apart(m)
          /\ \A x \in Range(m) : x \in Range(n)
          /\ \A t, S : Absent(n, t, S) => Absent(m, t, S)
          /\ \A t, S : AtMostOne(n, t, S) => AtMostOne(m, t, S)
          /\ \A t, S : AtMostOne(n, t, S) /\ Of(n[k], t, S) => Absent(m, t, S)
          /\ \A t, S : ~Absent(n, t, S) /\ ~Of(n[k], t, S) => ~Absent(m, t, S)
      BY <1>1, <3>1, RemovedKeeps
    <3>4. m \in Seq(Event) /\ Len(m) <= Len(n)
      BY <1>1, <3>1 DEF Removed
    <3>5. \A d \in Entity : Arriving(m, d) = Arriving(n, d)
      BY <1>1, <3>1, <3>2, RemovedArriving
    <3>6. Orderly(m)
      BY <1>1, <3>3, <3>4 DEF Orderly
    <3>7. Absent(m, TIMER_INTERRUPT, {e})
      BY <1>1, <3>1, <3>3
    <3>8. \A y, S : y # TIMER_INTERRUPT =>
             /\ Absent(m, y, S) <=> Absent(n, y, S)
             /\ AtMostOne(n, y, S) => AtMostOne(m, y, S)
      BY <3>2, <3>3
    <3>9. \A S : e \notin S => (Absent(m, TIMER_INTERRUPT, S)
                                  <=> Absent(n, TIMER_INTERRUPT, S))
      BY <3>2, <3>3
    <3> QED BY <3>3, <3>4, <3>5, <3>6, <3>7, <3>8, <3>9
  <2> QED BY <2>1, <2>2
<1>5. Untimed(m) = ClearTimer(Untimed(n), e)
  <2>1. m \in Seq(Event)
    BY <1>4 DEF Orderly
  <2>2. \A d \in Entity : d # e =>
          (Absent(m, TIMER_INTERRUPT, {d}) <=> Absent(n, TIMER_INTERRUPT, {d}))
    BY <1>4
  <2> DEFINE u == Untimed(n)
             w == ClearTimer(u, e)
  <2>3. u \in Medium /\ Untimed(m) \in Medium
    BY <1>1, <2>1, UntimedMedium
  <2>4. w \in Medium /\ w.chan = u.chan /\ ~w.timer[e]
        /\ \A d \in Entity : d # e => w.timer[d] = u.timer[d]
    BY <2>3 DEF ClearTimer, Medium
  <2> HIDE DEF w
  <2>5. \A d \in Entity : /\ Untimed(m).chan[d] = u.chan[d]
                          /\ Untimed(m).timer[d] <=> (d # e /\ u.timer[d])
    BY <1>1, <1>4, <2>1, <2>2, UntimedMedium
  <2>6. \A d \in Entity : Untimed(m).chan[d] = w.chan[d] /\ (Untimed(m).timer[d] <=> w.timer[d])
    BY <2>4, <2>5
  <2>7. Untimed(m) = w
    BY <2>3, <2>4, <2>6, SameMedium
  <2> QED BY <2>7 DEF w
<1> QED BY <1>4, <1>5 DEF m

\* When the last packet to an entity arrives, no other one comes later.
LEMMA LastTimeIsLast ==
  ASSUME NEW n, Orderly(n), NEW e \in Entity
  PROVE  /\ LastTime(n, e) \in Nat
         /\ \A i \in 1..Len(n) : InTransit(n[i], e) => n[i].evtime <= LastTime(n, e)
         /\ (\A i \in 1..Len(n) : ~InTransit(n[i], e)) => LastTime(n, e) = 0
<1> DEFINE there == {k \in DOMAIN n : InTransit(n[k], e)}
<1>1. /\ n \in Seq(Event) /\ Len(n) \in Nat /\ DOMAIN n = 1..Len(n) /\ Sorted(n)
      /\ \A i \in 1..Len(n) : n[i].evtime \in Nat
  BY EventFacts DEF Orderly
<1>2. CASE there = {}
  <2>1. LastTime(n, e) = 0
    BY <1>2 DEF LastTime
  <2>2. \A i \in 1..Len(n) : ~InTransit(n[i], e)
    BY <1>1, <1>2
  <2> QED BY <2>1, <2>2
<1>3. CASE there # {}
  <2>1. LastTime(n, e) = n[Max(there)].evtime
    BY <1>3 DEF LastTime
  <2>2. there \subseteq 1..Len(n)
    BY <1>1
  <2>3. Max(there) \in there /\ \A i \in there : i <= Max(there)
    <3> HIDE DEF there
    <3> QED BY <1>1, <1>3, <2>2, MaxIsGreatest
  <2>4. ASSUME NEW i \in 1..Len(n), InTransit(n[i], e)
        PROVE  n[i].evtime <= n[Max(there)].evtime
    <3>1. i \in there
      BY <1>1, <2>4
    <3> HIDE DEF there
    <3>2. i <= Max(there) /\ Max(there) \in 1..Len(n)
      BY <2>2, <2>3, <3>1
    <3> DEFINE j == Max(there)
    <3>3. CASE i = j
      BY <1>1, <3>2, <3>3
    <3>4. CASE i # j
      <4>1. i < j /\ j \in 1..Len(n)
        BY <3>2, <3>4
      <4> HIDE DEF j
      <4>2. n[i].evtime <= n[j].evtime
        BY <1>1, <4>1 DEF Sorted
      <4> QED BY <4>2 DEF j
    <3> QED BY <3>3, <3>4
  <2>5. n[Max(there)].evtime \in Nat
    <3> HIDE DEF there
    <3> QED BY <1>1, <2>2, <2>3
  <2>6. ~ \A i \in 1..Len(n) : ~InTransit(n[i], e)
    BY <1>1, <1>3
  <2> QED BY <2>1, <2>4, <2>5, <2>6
<1> QED BY <1>2, <1>3

LEMMA PacketSent ==
  ASSUME NEW n, Orderly(n), NEW e \in Entity, NEW p \in Pkt, NEW how \in Ways
  PROVE  LET m == tolayer3(n, e, p, how)
         IN  /\ Orderly(m)
             /\ Len(m) <= Len(n) + 1
             /\ Untimed(m) = Transmit(Untimed(n), e, p, how.fate)
             /\ \A x \in Range(m) : x \in Range(n) \/ x = Delivery(n, e, p, how)
             /\ \A y, S : y # FROM_LAYER3 =>
                  /\ Absent(m, y, S) <=> Absent(n, y, S)
                  /\ AtMostOne(n, y, S) => AtMostOne(m, y, S)
             /\ \A S : Absent(n, FROM_LAYER3, S) => AtMostOne(m, FROM_LAYER3, S)
<1> DEFINE m == tolayer3(n, e, p, how)
           q == Delivery(n, e, p, how)
<1>1. /\ n \in Seq(Event) /\ Len(n) \in Nat /\ DOMAIN n = 1..Len(n)
      /\ \A i \in 1..Len(n) : n[i].evtime \in Nat
  BY EventFacts DEF Orderly
<1>2. how.fate \in Fates /\ how.delay \in 1..10
  BY EventListAssumption DEF Ways
<1>3. Peer(e) \in Entity /\ Peer(e) # e
  BY DEF Peer, Entity, A, B
<1>4. /\ LastTime(n, Peer(e)) \in Nat
      /\ \A i \in 1..Len(n) : InTransit(n[i], Peer(e)) => n[i].evtime <= LastTime(n, Peer(e))
  BY <1>3, LastTimeIsLast
<1>5. Damage(p, how.fate) \in Pkt
  BY DamageType
<1>6. /\ q \in Event /\ q.evtime = LastTime(n, Peer(e)) + how.delay
      /\ q.pkt = Damage(p, how.fate)
      /\ \A d : InTransit(q, d) <=> d = Peer(e)
      /\ \A t, S : Of(q, t, S) <=> t = FROM_LAYER3 /\ Peer(e) \in S
  BY <1>2, <1>3, <1>4, <1>5 DEF Delivery, Event, InTransit, Of
<1>7. TIMER_INTERRUPT # FROM_LAYER3
  BY DEF TIMER_INTERRUPT, FROM_LAYER3
<1>8. /\ how.fate = "lost" => m = n
      /\ how.fate # "lost" => m = insertevent(n, q)
  BY DEF tolayer3, Delivery
<1> HIDE DEF m, q
<1>9. CASE how.fate = "lost"
  <2>1. m = n
    BY <1>8, <1>9
  <2>2. Transmit(Untimed(n), e, p, how.fate) = Untimed(n)
    BY <1>9 DEF Transmit
  <2>3. \A S : Absent(n, FROM_LAYER3, S) => AtMostOne(n, FROM_LAYER3, S)
    BY DEF Absent, AtMostOne
  <2> QED BY <1>1, <2>1, <2>2, <2>3 DEF m
<1>10. CASE how.fate # "lost"
  <2>1. \A d \in Entity : InTransit(q, d) =>
          \A i \in 1..Len(n) : InTransit(n[i], d) => n[i].evtime + 1 <= q.evtime
    <3> SUFFICES ASSUME NEW i \in 1..Len(n), InTransit(n[i], Peer(e))
                 PROVE  n[i].evtime + 1 <= q.evtime
      BY <1>6
    <3>1. n[i].evtime <= LastTime(n, Peer(e))
      BY <1>4
    <3>2. n[i].evtime \in Nat /\ LastTime(n, Peer(e)) \in Nat
      BY <1>1, <1>4
    <3>3. q.evtime >= LastTime(n, Peer(e)) + 1 /\ q.evtime \in Nat
      BY <1>2, <1>4, <1>6
    <3> QED BY <3>1, <3>2, <3>3
  <2>2. \A d \in Entity : Of(q, TIMER_INTERRUPT, {d}) => Absent(n, TIMER_INTERRUPT, {d})
    BY <1>6, <1>7
  <2>3. /\ Orderly(m)
        /\ Len(m) = Len(n) + 1
        /\ Range(m) = Range(n) \cup {q}
        /\ \A d \in Entity : Arriving(m, d) = Extended(Arriving(n, d), q, d)
        /\ \A t, S : Absent(m, t, S) <=> Absent(n, t, S) /\ ~Of(q, t, S)
        /\ \A t, S : AtMostOne(n, t, S) /\ (Of(q, t, S) => Absent(n, t, S))
                       => AtMostOne(m, t, S)
    <3>1. m = insertevent(n, q) /\ q \in Event
      BY <1>6, <1>8, <1>10
    <3> QED BY <2>1, <2>2, <3>1, Scheduled
  <2>4. m \in Seq(Event)
    BY <2>3 DEF Orderly
  <2> DEFINE u == Untimed(n)
             v == Untimed(m)
             w == Transmit(u, e, p, how.fate)
             c == [u.chan EXCEPT ![Peer(e)] = Append(u.chan[Peer(e)], Damage(p, how.fate))]
  <2>5. /\ u \in Medium /\ v \in Medium
        /\ \A d \in Entity :
             /\ u.chan[d] = Arriving(n, d) /\ v.chan[d] = Arriving(m, d)
             /\ u.timer[d] <=> ~Absent(n, TIMER_INTERRUPT, {d})
             /\ v.timer[d] <=> ~Absent(m, TIMER_INTERRUPT, {d})
    BY <1>1, <2>4, UntimedMedium
  <2> HIDE DEF u, v
  <2>6. w = [chan |-> c, timer |-> u.timer]
    <3>1. u \in Medium
      BY <2>5
    <3> QED BY <1>10, <3>1, TransmitIs
  <2>7. /\ c \in [Entity -> Seq(Pkt)]
        /\ c[Peer(e)] = Append(u.chan[Peer(e)], Damage(p, how.fate))
        /\ \A d \in Entity : d # Peer(e) => c[d] = u.chan[d]
    <3>1. u.chan \in [Entity -> Seq(Pkt)]
      BY <2>5 DEF Medium
    <3>2. Append(u.chan[Peer(e)], Damage(p, how.fate)) \in Seq(Pkt)
      BY <1>3, <1>5, <3>1, AppendProperties
    <3> QED BY <1>3, <3>1, <3>2
  <2> HIDE DEF c
  <2>8. w \in Medium /\ w.chan = c /\ w.timer = u.timer
    BY <2>5, <2>6, <2>7 DEF Medium
  <2> HIDE DEF w
  <2>9. \A d \in Entity : v.chan[d] = w.chan[d]
    <3> SUFFICES ASSUME NEW d \in Entity PROVE v.chan[d] = w.chan[d]
      OBVIOUS
    <3>1. v.chan[d] = Extended(u.chan[d], q, d)
      BY <2>3, <2>5
    <3>2. CASE d = Peer(e)
      BY <1>6, <2>7, <2>8, <3>1, <3>2 DEF Extended
    <3>3. CASE d # Peer(e)
      BY <1>6, <2>7, <2>8, <3>1, <3>3 DEF Extended
    <3> QED BY <3>2, <3>3
  <2>10. \A d \in Entity : v.timer[d] <=> w.timer[d]
    BY <1>6, <1>7, <2>3, <2>5, <2>8
  <2>11. v = w
    BY <2>5, <2>8, <2>9, <2>10, SameMedium
  <2>12. \A S : Absent(n, FROM_LAYER3, S) => AtMostOne(m, FROM_LAYER3, S)
    BY <2>3 DEF Absent, AtMostOne
  <2>13. \A y, S : y # FROM_LAYER3 =>
           /\ Absent(m, y, S) <=> Absent(n, y, S)
           /\ AtMostOne(n, y, S) => AtMostOne(m, y, S)
    BY <1>6, <2>3
  <2>14. Untimed(m) = Transmit(Untimed(n), e, p, how.fate)
    BY <2>11 DEF u, v, w
  <2> QED BY <1>1, <2>3, <2>12, <2>13, <2>14 DEF m, q
<1> QED BY <1>9, <1>10

\* What the main loop takes off the list, it takes off the medium.
LEMMA TakenUntimed ==
  ASSUME NEW n, Orderly(n), n # << >>
  PROVE  /\ Orderly(Taken(n))
         /\ Head(n) \in Event /\ Head(n).pkt \in Pkt
         /\ Head(n).evtype = FROM_LAYER5 => Untimed(Taken(n)) = Untimed(n)
         /\ \A e \in Entity : InTransit(Head(n), e) =>
              /\ Untimed(n).chan[e] # << >>
              /\ Head(n).pkt = Head(Untimed(n).chan[e])
              /\ Untimed(Taken(n)) = PacketTaken(Untimed(n), e)
         /\ \A e \in Entity : IsTimer(Head(n), e) =>
              /\ Untimed(n).timer[e]
              /\ Untimed(Taken(n)) = TimerTaken(Untimed(n), e)
<1> DEFINE m == Taken(n)
           h == Head(n)
<1>1. /\ n \in Seq(Event) /\ Sorted(n) /\ Apart(n)
      /\ \A e \in Entity : AtMostOne(n, TIMER_INTERRUPT, {e})
  BY DEF Orderly
<1>2. m \in Seq(Event) /\ h = n[1] /\ h \in Event /\ Len(n) \in Nat /\ Len(n) >= 1
  BY <1>1, TakenEvents, EventFacts
<1>3. \A t, S :
        /\ Absent(n, t, S) => Absent(m, t, S)
        /\ AtMostOne(n, t, S) => AtMostOne(m, t, S)
        /\ AtMostOne(n, t, S) /\ Of(h, t, S) => Absent(m, t, S)
        /\ ~Absent(n, t, S) /\ ~Of(h, t, S) => ~Absent(m, t, S)
  BY <1>1, <1>2, TakenKinds
<1>4. Sorted(m) /\ Apart(m)
  BY <1>1, TakenOrderly
<1>5. \A e : /\ ~InTransit(h, e) => Arriving(m, e) = Arriving(n, e)
             /\ InTransit(h, e) => /\ Arriving(n, e) # << >>
                                   /\ Arriving(m, e) = Tail(Arriving(n, e))
                                   /\ Head(Arriving(n, e)) = h.pkt
  BY <1>1, <1>2, TakenArriving
<1> HIDE DEF m, h
<1>6. Orderly(m)
  BY <1>1, <1>2, <1>3, <1>4 DEF Orderly
<1> DEFINE u == Untimed(n)
           v == Untimed(m)
<1>7. /\ u \in Medium /\ v \in Medium
      /\ \A d \in Entity :
           /\ u.chan[d] = Arriving(n, d) /\ v.chan[d] = Arriving(m, d)
           /\ u.timer[d] <=> ~Absent(n, TIMER_INTERRUPT, {d})
           /\ v.timer[d] <=> ~Absent(m, TIMER_INTERRUPT, {d})
  BY <1>1, <1>2, UntimedMedium
<1> HIDE DEF u, v
<1>8. /\ \A e : InTransit(h, e) <=> h.evtype = FROM_LAYER3 /\ h.eventity = e
      /\ \A e : IsTimer(h, e) <=> h.evtype = TIMER_INTERRUPT /\ h.eventity = e
      /\ \A e : Of(h, TIMER_INTERRUPT, {e}) <=> IsTimer(h, e)
      /\ TIMER_INTERRUPT # FROM_LAYER3 /\ TIMER_INTERRUPT # FROM_LAYER5
      /\ FROM_LAYER3 # FROM_LAYER5
  BY DEF InTransit, IsTimer, Of, TIMER_INTERRUPT, FROM_LAYER3, FROM_LAYER5
<1>9. \A d \in Entity : ~IsTimer(h, d) => (v.timer[d] <=> u.timer[d])
  BY <1>3, <1>7, <1>8
<1>10. ASSUME h.evtype = FROM_LAYER5 PROVE v = u
  <2>1. \A d \in Entity : v.chan[d] = u.chan[d] /\ (v.timer[d] <=> u.timer[d])
    BY <1>5, <1>7, <1>8, <1>9, <1>10
  <2> QED BY <1>7, <2>1, SameMedium
<1>11. ASSUME NEW e \in Entity, InTransit(h, e)
       PROVE  u.chan[e] # << >> /\ h.pkt = Head(u.chan[e]) /\ v = PacketTaken(u, e)
  <2>1. u.chan[e] # << >> /\ h.pkt = Head(u.chan[e]) /\ v.chan[e] = Tail(u.chan[e])
    BY <1>5, <1>7, <1>11
  <2> DEFINE w == PacketTaken(u, e)
  <2>2. /\ w \in Medium /\ w.timer = u.timer /\ w.chan[e] = Tail(u.chan[e])
        /\ \A d \in Entity \ {e} : w.chan[d] = u.chan[d]
    BY <1>7, <2>1, PacketOff
  <2> HIDE DEF w
  <2>3. ASSUME NEW d \in Entity PROVE v.chan[d] = w.chan[d]
    <3>1. CASE d = e
      BY <2>1, <2>2, <3>1
    <3>2. CASE d # e
      <4>1. ~InTransit(h, d)
        BY <1>8, <1>11, <3>2
      <4>2. w.chan[d] = u.chan[d]
        BY <2>2, <3>2
      <4> QED BY <1>5, <1>7, <4>1, <4>2
    <3> QED BY <3>1, <3>2
  <2>4. \A d \in Entity : v.timer[d] <=> w.timer[d]
    BY <1>8, <1>9, <1>11, <2>2
  <2>5. v = w
    BY <1>7, <2>2, <2>3, <2>4, SameMedium
  <2> QED BY <2>1, <2>5 DEF w
<1>12. ASSUME NEW e \in Entity, IsTimer(h, e)
       PROVE  u.timer[e] /\ v = TimerTaken(u, e)
  <2>1. Absent(m, TIMER_INTERRUPT, {e}) /\ ~Absent(n, TIMER_INTERRUPT, {e})
    <3>1. 1 \in 1..Len(n) /\ Of(n[1], TIMER_INTERRUPT, {e})
      BY <1>2, <1>8, <1>12
    <3> QED BY <1>1, <1>2, <1>3, <3>1 DEF Absent
  <2> DEFINE w == TimerTaken(u, e)
  <2>2. /\ w \in Medium /\ w.chan = u.chan /\ ~w.timer[e]
        /\ \A d \in Entity \ {e} : w.timer[d] = u.timer[d]
    BY <1>7 DEF TimerTaken, Medium
  <2> HIDE DEF w
  <2>3. ASSUME NEW d \in Entity PROVE v.chan[d] = w.chan[d]
    <3>1. ~InTransit(h, d)
      BY <1>8, <1>12
    <3>2. Arriving(m, d) = Arriving(n, d)
      BY <1>5, <3>1
    <3>3. v.chan[d] = u.chan[d]
      BY <1>7, <3>2
    <3> QED BY <2>2, <3>3
  <2>4. \A d \in Entity : v.timer[d] <=> w.timer[d]
    BY <1>7, <1>8, <1>9, <1>12, <2>1, <2>2
  <2>5. v = w
    BY <1>7, <2>2, <2>3, <2>4, SameMedium
  <2> QED BY <1>7, <2>1, <2>5 DEF w
<1>13. h.pkt \in Pkt
  BY <1>2 DEF Event
<1> QED BY <1>2, <1>6, <1>10, <1>11, <1>12, <1>13 DEF m, h, u, v

\* The events of the list as a set.
LEMMA RangeOfList ==
  ASSUME NEW n \in Seq(Event)
  PROVE  /\ Range(n) \subseteq Event
         /\ \A t, S : Absent(n, t, S) <=> \A x \in Range(n) : ~Of(x, t, S)
<1>1. /\ DOMAIN n = 1..Len(n) /\ \A i \in 1..Len(n) : n[i] \in Event
      /\ Range(n) = {n[i] : i \in DOMAIN n}
  BY EventFacts DEF Range
<1> QED BY <1>1 DEF Absent

LEMMA TakenRange ==
  ASSUME NEW n \in Seq(Event), n # << >>, Sorted(n)
  PROVE  /\ Head(n) \in Range(n)
         /\ \A x \in Range(n) : Head(n).evtime <= x.evtime
         /\ \A y \in Range(Taken(n)) : \E x \in Range(n) :
              /\ y.evtime = x.evtime - Head(n).evtime
              /\ y.evtype = x.evtype
              /\ y.eventity = x.eventity
<1>1. /\ Len(n) \in Nat /\ Len(n) >= 1 /\ n[1] \in Event /\ Head(n) = n[1]
      /\ Taken(n) \in Seq(Event)
      /\ \A i \in 1..Len(Taken(n)) :
           /\ i + 1 \in 1..Len(n)
           /\ Taken(n)[i].evtime = n[i + 1].evtime - n[1].evtime
           /\ Taken(n)[i].evtype = n[i + 1].evtype
           /\ Taken(n)[i].eventity = n[i + 1].eventity
  BY TakenEvents, EventFacts
<1>2. /\ DOMAIN n = 1..Len(n) /\ DOMAIN Taken(n) = 1..Len(Taken(n))
      /\ Range(n) = {n[i] : i \in DOMAIN n}
      /\ Range(Taken(n)) = {Taken(n)[i] : i \in DOMAIN Taken(n)}
      /\ \A i \in 1..Len(n) : n[i].evtime \in Nat
  BY <1>1, EventFacts DEF Range
<1>3. ASSUME NEW y \in Range(Taken(n))
      PROVE  \E x \in Range(n) : /\ y.evtime = x.evtime - Head(n).evtime
                                 /\ y.evtype = x.evtype
                                 /\ y.eventity = x.eventity
  <2>1. PICK i \in 1..Len(Taken(n)) : y = Taken(n)[i]
    BY <1>2
  <2>2. n[i + 1] \in Range(n)
    BY <1>1, <1>2
  <2> QED BY <1>1, <2>1, <2>2
<1>4. ASSUME NEW x \in Range(n) PROVE Head(n).evtime <= x.evtime
  <2>1. PICK i \in 1..Len(n) : x = n[i]
    BY <1>2
  <2>2. 1 \in 1..Len(n) /\ (i = 1 \/ 1 < i)
    BY <1>1
  <2> QED BY <1>1, <1>2, <2>1, <2>2 DEF Sorted
<1>5. Head(n) \in Range(n)
  BY <1>1, <1>2
<1> QED BY <1>3, <1>4, <1>5

LEMMA EmptyList ==
  /\ Orderly(<< >>)
  /\ \A t, S : Absent(<< >>, t, S)
  /\ Len(<< >>) = 0
  /\ Range(<< >>) = {}
  /\ \A e : Arriving(<< >>, e) = << >>
<1>1. << >> \in Seq(Event) /\ Len(<< >>) = 0 /\ DOMAIN << >> = {}
  OBVIOUS
<1>2. \A e : Arriving(<< >>, e) = << >>
  <2> DEFINE n == << >>
  <2>1. n \in Seq(Event) /\ 1..Len(n) = {}
    BY <1>1
  <2> HIDE DEF n
  <2>2. \A e : Arriving(n, e) = << >>
    BY <2>1, NothingArrives
  <2> QED BY <2>2 DEF n
<1>3. Range(<< >>) = {}
  BY <1>1 DEF Range
<1> QED BY <1>1, <1>2, <1>3 DEF Orderly, Sorted, Apart, AtMostOne, Absent

-----------------------------------------------------------------------------
\* The list as the handlers find it: the main loop took its head, and there
\* is one next arrival on it.

LEMMA Kinds ==
  /\ A \in Entity /\ B \in Entity /\ A # B /\ Peer(A) = B /\ Peer(B) = A
  /\ TIMER_INTERRUPT # FROM_LAYER5 /\ TIMER_INTERRUPT # FROM_LAYER3
  /\ FROM_LAYER5 # FROM_LAYER3
  BY DEF A, B, Entity, Peer, TIMER_INTERRUPT, FROM_LAYER5, FROM_LAYER3

\* The main loop took an event that is no arrival: the next one is still
\* there.
ArrivalLeft(n) == /\ Orderly(n)
                  /\ AtMostOne(n, FROM_LAYER5, Entity)
                  /\ ~Absent(n, FROM_LAYER5, {A})

LEMMA TakenList ==
  ASSUME NEW n, Orderly(n), AtMostOne(n, FROM_LAYER5, Entity),
         ~Absent(n, FROM_LAYER5, {A}), n # << >>
  PROVE  /\ Orderly(Taken(n))
         /\ Head(n) \in Event
         /\ Head(n).evtype = FROM_LAYER5 => Absent(Taken(n), FROM_LAYER5, Entity)
         /\ Head(n).evtype # FROM_LAYER5 => ArrivalLeft(Taken(n))
<1> DEFINE m == Taken(n)
           h == Head(n)
<1>1. n \in Seq(Event) /\ Sorted(n)
  BY DEF Orderly
<1>2. h = n[1] /\ h \in Event /\ Orderly(m)
  BY <1>1, TakenEvents, TakenUntimed
<1>3. \A t, S :
        /\ AtMostOne(n, t, S) => AtMostOne(m, t, S)
        /\ AtMostOne(n, t, S) /\ Of(h, t, S) => Absent(m, t, S)
        /\ ~Absent(n, t, S) /\ ~Of(h, t, S) => ~Absent(m, t, S)
  BY <1>1, <1>2, TakenKinds
<1>4. h.eventity \in Entity
  BY <1>2 DEF Event
<1> HIDE DEF m, h
<1>5. h.evtype = FROM_LAYER5 => Of(h, FROM_LAYER5, Entity)
  BY <1>4 DEF Of
<1>6. h.evtype # FROM_LAYER5 => ~Of(h, FROM_LAYER5, {A})
  BY DEF Of
<1> QED BY <1>2, <1>3, <1>5, <1>6 DEF ArrivalLeft, m, h

\* tolayer3 and starttimer together, and apart, leave the arrivals alone.
LEMMA ArrivalStays ==
  ASSUME NEW n, ArrivalLeft(n), NEW e \in Entity
  PROVE  /\ \A p \in Pkt, how \in Ways : ArrivalLeft(tolayer3(n, e, p, how))
         /\ \A t \in Nat : ArrivalLeft(starttimer(n, e, t))
         /\ ArrivalLeft(stoptimer(n, e))
<1>1. Orderly(n)
  BY DEF ArrivalLeft
<1>2. ASSUME NEW p \in Pkt, NEW how \in Ways PROVE ArrivalLeft(tolayer3(n, e, p, how))
  <2> DEFINE m == tolayer3(n, e, p, how)
  <2>1. Orderly(m) /\ \A y, S : y # FROM_LAYER3 =>
                        /\ Absent(m, y, S) <=> Absent(n, y, S)
                        /\ AtMostOne(n, y, S) => AtMostOne(m, y, S)
    BY <1>1, PacketSent
  <2> HIDE DEF m
  <2>2. ArrivalLeft(m)
    BY <2>1, Kinds DEF ArrivalLeft
  <2> QED BY <2>2 DEF m
<1>3. ASSUME NEW t \in Nat PROVE ArrivalLeft(starttimer(n, e, t))
  <2> DEFINE m == starttimer(n, e, t)
  <2>1. Orderly(m) /\ \A y, S : y # TIMER_INTERRUPT =>
                        /\ Absent(m, y, S) <=> Absent(n, y, S)
                        /\ AtMostOne(n, y, S) => AtMostOne(m, y, S)
    BY <1>1, TimerStarted
  <2> HIDE DEF m
  <2>2. ArrivalLeft(m)
    BY <2>1, Kinds DEF ArrivalLeft
  <2> QED BY <2>2 DEF m
<1>4. ArrivalLeft(stoptimer(n, e))
  <2> DEFINE m == stoptimer(n, e)
  <2>1. Orderly(m) /\ \A y, S : y # TIMER_INTERRUPT =>
                        /\ Absent(m, y, S) <=> Absent(n, y, S)
                        /\ AtMostOne(n, y, S) => AtMostOne(m, y, S)
    BY <1>1, TimerStopped
  <2> HIDE DEF m
  <2>2. ArrivalLeft(m)
    BY <2>1, Kinds DEF ArrivalLeft
  <2> QED BY <2>2 DEF m
<1> QED BY <1>2, <1>3, <1>4

LEMMA NextArrivalLeft ==
  ASSUME NEW n, Orderly(n), Absent(n, FROM_LAYER5, Entity), NEW gap \in Nat
  PROVE  ArrivalLeft(generate_next_arrival(n, gap))
<1> DEFINE m == generate_next_arrival(n, gap)
<1>1. /\ Orderly(m) /\ ~Absent(m, FROM_LAYER5, {A})
      /\ \A S : Absent(n, FROM_LAYER5, S) => AtMostOne(m, FROM_LAYER5, S)
  BY NextArrival
<1> HIDE DEF m
<1>2. ArrivalLeft(m)
  BY <1>1 DEF ArrivalLeft
<1> QED BY <1>2 DEF m

-----------------------------------------------------------------------------
\* Several packets handed over one after the other.

\* The list after each of len packets.
Chain(n, e, packets, hows, len, f) ==
  f = [k \in 0..len |->
         IF k = 0 THEN n ELSE tolayer3(f[k - 1], e, packets[k], hows[k])]

LEMMA ChainExists ==
  ASSUME NEW n, NEW e, NEW packets, NEW hows, NEW len \in Nat
  PROVE  \E f : Chain(n, e, packets, hows, len, f)
<1> DEFINE Without == {l \in Nat : ~ \E f : Chain(n, e, packets, hows, l, f)}
<1> SUFFICES ASSUME Without # {} PROVE FALSE
  OBVIOUS
<1>1. PICK m \in Without : \A l \in Without : m <= l
  <2>1. Without \subseteq Nat
    OBVIOUS
  <2> HIDE DEF Without
  <2> QED BY <2>1, MinIsLeast
<1>2. CASE m = 0
  <2> DEFINE f == [k \in 0..0 |-> n]
  <2>1. f = [k \in 0..0 |->
               IF k = 0 THEN n ELSE tolayer3(f[k - 1], e, packets[k], hows[k])]
    OBVIOUS
  <2>2. Chain(n, e, packets, hows, m, f)
    BY <1>2, <2>1 DEF Chain
  <2> QED BY <1>1, <2>2
<1>3. CASE m # 0
  <2>1. m - 1 \in Nat /\ m - 1 \notin Without
    BY <1>1, <1>3
  <2>2. PICK g : Chain(n, e, packets, hows, m - 1, g)
    BY <2>1
  <2> DEFINE Next1(h, k) == tolayer3(h[k - 1], e, packets[k], hows[k])
             f == [k \in 0..m |-> IF k < m THEN g[k] ELSE Next1(g, m)]
  <2>3. ASSUME NEW k \in 0..m
        PROVE  f[k] = IF k = 0 THEN n ELSE Next1(f, k)
    <3>1. CASE k = 0
      <4>1. g[0] = n
        BY <2>1, <2>2 DEF Chain
      <4> QED BY <1>3, <3>1, <4>1
    <3>2. CASE k # 0 /\ k < m
      <4>1. /\ k \in 0..(m - 1) /\ k - 1 \in 0..m /\ k - 1 < m
        BY <3>2, <1>1
      <4>2. g[k] = Next1(g, k)
        BY <2>2, <3>2, <4>1 DEF Chain
      <4>3. f[k - 1] = g[k - 1] /\ f[k] = g[k]
        BY <3>2, <4>1
      <4> HIDE DEF f
      <4> QED BY <3>2, <4>2, <4>3
    <3>3. CASE k = m
      <4>1. m - 1 \in 0..m /\ m - 1 < m
        BY <2>1
      <4>2. f[m - 1] = g[m - 1] /\ f[m] = Next1(g, m)
        BY <4>1
      <4> HIDE DEF f
      <4> QED BY <1>3, <3>3, <4>2
    <3> QED BY <1>1, <3>1, <3>2, <3>3
  <2>4. f = [k \in 0..m |-> IF k = 0 THEN n ELSE Next1(f, k)]
    <3>1. f = [k \in 0..m |-> f[k]]
      OBVIOUS
    <3> HIDE DEF f, Next1
    <3> QED BY <2>3, <3>1
  <2>5. Chain(n, e, packets, hows, m, f)
    <3> HIDE DEF f
    <3> QED BY <2>4 DEF Chain
  <2> QED BY <1>1, <2>5
<1> QED BY <1>2, <1>3

InTurn(n, e, packets, hows, f) ==
  /\ f[0] = n
  /\ \A k \in 1..Len(packets) :
       f[k] = tolayer3(f[k - 1], e, packets[k], hows[k])
  /\ tolayer3each(n, e, packets, hows) = f[Len(packets)]

LEMMA EachInTurn ==
  ASSUME NEW n, NEW e, NEW packets \in Seq(Pkt), NEW hows
  PROVE  \E f : InTurn(n, e, packets, hows, f)
<1> DEFINE f == CHOOSE g : Chain(n, e, packets, hows, Len(packets), g)
<1>1. Len(packets) \in Nat
  OBVIOUS
<1>2. Chain(n, e, packets, hows, Len(packets), f)
  BY <1>1, ChainExists
<1>3. tolayer3each(n, e, packets, hows) = f[Len(packets)]
  BY DEF tolayer3each, Chain
<1> HIDE DEF f
<1>4. f[0] = n
  BY <1>1, <1>2 DEF Chain
<1>5. ASSUME NEW k \in 1..Len(packets)
      PROVE  f[k] = tolayer3(f[k - 1], e, packets[k], hows[k])
  <2>1. k \in 0..Len(packets) /\ k # 0
    BY <1>1
  <2> DEFINE v(h) == [l \in 0..Len(packets) |->
                        IF l = 0 THEN n ELSE tolayer3(h[l - 1], e, packets[l], hows[l])]
  <2>2. v(f)[k] = tolayer3(f[k - 1], e, packets[k], hows[k])
    BY <2>1
  <2>3. f = v(f)
    BY <1>2 DEF Chain
  <2> HIDE DEF v
  <2>4. f[k] = v(f)[k]
    BY <2>3
  <2> QED BY <2>2, <2>4
<1> QED BY <1>3, <1>4, <1>5 DEF InTurn

\* What the survivors s of packets look like when they arrive.
Arrived(packets, s) == [k \in DOMAIN s |-> Damage(packets[s[k][1]], s[k][2])]

LEMMA ArrivedType ==
  ASSUME NEW packets \in Seq(Pkt), NEW len \in 0..Len(packets), NEW s \in Survivals(len)
  PROVE  /\ Arrived(packets, s) \in Seq(Pkt)
         /\ \E m \in 0..len : /\ DOMAIN s = 1..m
                              /\ s \in [1..m -> (1..len) \X (Fates \ {"lost"})]
                              /\ \A k \in 1..(m - 1) : s[k][1] < s[k + 1][1]
                              /\ Len(Arrived(packets, s)) = m
<1>1. PICK m \in 0..len : /\ s \in [1..m -> (1..len) \X (Fates \ {"lost"})]
                          /\ \A k \in 1..(m - 1) : s[k][1] < s[k + 1][1]
  BY DEF Survivals
<1>2. DOMAIN s = 1..m /\ m \in Nat
  BY <1>1
<1>3. ASSUME NEW k \in 1..m PROVE Damage(packets[s[k][1]], s[k][2]) \in Pkt
  <2>1. s[k] \in (1..len) \X (Fates \ {"lost"})
    BY <1>1
  <2>2. s[k][1] \in 1..len
    BY <2>1
  <2>3. s[k][1] \in 1..Len(packets)
    BY <2>2
  <2>4. packets[s[k][1]] \in Pkt
    BY <2>3, ElementOfSeq
  <2> QED BY <2>4, DamageType
<1>4. Arrived(packets, s) \in [1..m -> Pkt]
  BY <1>2, <1>3 DEF Arrived
<1>5. Arrived(packets, s) \in Seq(Pkt) /\ Len(Arrived(packets, s)) = m
  BY <1>2, <1>4
<1> QED BY <1>1, <1>2, <1>5

LEMMA TransmitEachIs ==
  ASSUME NEW u \in Medium, NEW e \in Entity, NEW packets, NEW s,
         Arrived(packets, s) \in Seq(Pkt)
  PROVE  LET m == TransmitEach(u, e, packets, s)
         IN  /\ m \in Medium
             /\ m.timer = u.timer
             /\ \A d \in Entity : d # Peer(e) => m.chan[d] = u.chan[d]
             /\ m.chan[Peer(e)] = u.chan[Peer(e)] \o Arrived(packets, s)
<1> DEFINE t == Arrived(packets, s)
           c == [u.chan EXCEPT ![Peer(e)] = u.chan[Peer(e)] \o t]
<1>1. Peer(e) \in Entity
  BY DEF Peer, Entity, A, B
<1>2. TransmitEach(u, e, packets, s) = [chan |-> c, timer |-> u.timer]
  <2>1. TransmitEach(u, e, packets, s) = [u EXCEPT !.chan[Peer(e)] = u.chan[Peer(e)] \o t]
    BY Zenon DEF TransmitEach, Arrived
  <2> QED BY <2>1, ChannelReplaced, Zenon
<1> HIDE DEF t
<1>3. u.chan \in [Entity -> Seq(Pkt)] /\ u.timer \in [Entity -> BOOLEAN]
  BY DEF Medium
<1>4. t \in Seq(Pkt)
  BY DEF t
<1>5. u.chan[Peer(e)] \o t \in Seq(Pkt)
  BY <1>1, <1>3, <1>4
<1>6. /\ c \in [Entity -> Seq(Pkt)]
      /\ \A d \in Entity : d # Peer(e) => c[d] = u.chan[d]
      /\ c[Peer(e)] = u.chan[Peer(e)] \o t
  BY <1>1, <1>3, <1>5
<1>7. [chan |-> c, timer |-> u.timer] \in Medium
  BY <1>3, <1>6 DEF Medium
<1> HIDE DEF c
<1>8. /\ TransmitEach(u, e, packets, s).chan = c
      /\ TransmitEach(u, e, packets, s).timer = u.timer
  BY <1>2
<1> QED BY <1>2, <1>6, <1>7, <1>8 DEF t

LEMMA SurvivorsAre ==
  ASSUME NEW len \in Nat, NEW m \in 0..len,
         NEW s \in [1..m -> (1..len) \X (Fates \ {"lost"})],
         \A i \in 1..(m - 1) : s[i][1] < s[i + 1][1]
  PROVE  s \in Survivals(len)
<1> DEFINE S(l) == {t \in [1..l -> (1..len) \X (Fates \ {"lost"})] :
                      \A i \in 1..(l - 1) : t[i][1] < t[i + 1][1]}
<1>1. s \in S(m)
  OBVIOUS
<1>2. Survivals(len) = UNION {S(l) : l \in 0..len}
  BY DEF Survivals
<1> HIDE DEF S
<1> QED BY <1>1, <1>2

\* The k-th packet goes the way of the others or is lost.
LEMMA OneMoreSurvives ==
  ASSUME NEW u \in Medium, NEW e \in Entity, NEW packets \in Seq(Pkt),
         NEW k \in 1..Len(packets), NEW s \in Survivals(k - 1), NEW f \in Fates
  PROVE  \E r \in Survivals(k) :
           Transmit(TransmitEach(u, e, packets, s), e, packets[k], f)
             = TransmitEach(u, e, packets, r)
<1>1. /\ k - 1 \in 0..Len(packets) /\ k \in 0..Len(packets) /\ k \in Nat
      /\ packets[k] \in Pkt
  BY ElementOfSeq
<1> DEFINE t == Arrived(packets, s)
<1>2. t \in Seq(Pkt)
  BY <1>1, ArrivedType
<1>3. PICK m \in 0..(k - 1) : /\ DOMAIN s = 1..m
                              /\ s \in [1..m -> (1..(k - 1)) \X (Fates \ {"lost"})]
                              /\ \A i \in 1..(m - 1) : s[i][1] < s[i + 1][1]
                              /\ Len(t) = m
  BY <1>1, ArrivedType
<1>4. \A i \in 1..m : s[i] \in (1..(k - 1)) \X (Fates \ {"lost"})
  BY <1>3
<1>5. \A i \in 1..m : s[i][1] \in 1..(k - 1) /\ s[i] \in (1..k) \X (Fates \ {"lost"})
  <2> SUFFICES ASSUME NEW i \in 1..m
               PROVE  s[i][1] \in 1..(k - 1) /\ s[i] \in (1..k) \X (Fates \ {"lost"})
    OBVIOUS
  <2>1. PICK a \in 1..(k - 1), b \in Fates \ {"lost"} : s[i] = <<a, b>>
    BY <1>4
  <2>2. a \in 1..k
    OBVIOUS
  <2> QED BY <2>1, <2>2
<1>6. CASE f = "lost"
  <2>1. Transmit(TransmitEach(u, e, packets, s), e, packets[k], f)
          = TransmitEach(u, e, packets, s)
    BY <1>6 DEF Transmit
  <2>2. s \in Survivals(k)
    <3>1. s \in [1..m -> (1..k) \X (Fates \ {"lost"})] /\ m \in 0..k
      BY <1>3, <1>5
    <3>2. \A i \in 1..(m - 1) : s[i][1] < s[i + 1][1]
      BY <1>3
    <3> QED BY <1>1, <3>1, <3>2, SurvivorsAre
  <2> QED BY <2>1, <2>2
<1>7. CASE f # "lost"
  <2> DEFINE r == [i \in 1..(m + 1) |-> IF i = m + 1 THEN <<k, f>> ELSE s[i]]
             x == Damage(packets[k], f)
  <2>1. /\ m + 1 \in 0..k /\ DOMAIN r = 1..(m + 1)
        /\ \A i \in 1..m : r[i] = s[i]
        /\ r[m + 1] = <<k, f>>
        /\ <<k, f>> \in (1..k) \X (Fates \ {"lost"})
    BY <1>3, <1>7
  <2>2. r \in [1..(m + 1) -> (1..k) \X (Fates \ {"lost"})]
    BY <1>5, <2>1
  <2> HIDE DEF r
  <2>3. \A i \in 1..((m + 1) - 1) : r[i][1] < r[i + 1][1]
    <3> SUFFICES ASSUME NEW i \in 1..m PROVE r[i][1] < r[i + 1][1]
      BY <1>3
    <3>1. CASE i = m
      <4>1. r[i + 1][1] = k /\ r[i] = s[i]
        BY <2>1, <3>1
      <4>2. s[i][1] \in 1..(k - 1)
        BY <1>5
      <4> QED BY <4>1, <4>2
    <3>2. CASE i # m
      <4>1. i \in 1..(m - 1) /\ i + 1 \in 1..m
        BY <1>3, <3>2
      <4> QED BY <1>3, <2>1, <4>1
    <3> QED BY <3>1, <3>2
  <2>4. r \in Survivals(k)
    BY <1>1, <2>1, <2>2, <2>3, SurvivorsAre
  <2>5. x \in Pkt
    BY <1>1, DamageType
  <2>6. Arrived(packets, r) = Append(t, x)
    <3>1. Arrived(packets, r) \in Seq(Pkt)
      BY <1>1, <2>4, ArrivedType
    <3>2. /\ \A i \in 1..m : Arrived(packets, r)[i] = t[i]
          /\ Arrived(packets, r)[m + 1] = x
          /\ DOMAIN Arrived(packets, r) = 1..(m + 1)
      BY <1>3, <2>1 DEF Arrived
    <3> HIDE DEF t, x
    <3>3. Append(t, x) \in Seq(Pkt) /\ Len(Append(t, x)) = m + 1
          /\ \A i \in 1..m : Append(t, x)[i] = t[i]
          /\ Append(t, x)[m + 1] = x
      BY <1>2, <1>3, <2>5, AppendProperties
    <3>4. Len(Arrived(packets, r)) = m + 1
      BY <1>3, <3>1, <3>2
    <3> QED BY <1>3, <3>1, <3>2, <3>3, <3>4, SeqEqual
  <2>7. \A c \in Seq(Pkt) : c \o Append(t, x) = Append(c \o t, x)
    <3> HIDE DEF t, x
    <3> QED BY <1>2, <2>5
  <2> DEFINE v == TransmitEach(u, e, packets, s)
             w == Transmit(v, e, packets[k], f)
             z == TransmitEach(u, e, packets, r)
             y == [v.chan EXCEPT ![Peer(e)] = Append(v.chan[Peer(e)], x)]
  <2>8. /\ v \in Medium /\ v.timer = u.timer
        /\ \A d \in Entity : d # Peer(e) => v.chan[d] = u.chan[d]
        /\ v.chan[Peer(e)] = u.chan[Peer(e)] \o t
    BY <1>2, TransmitEachIs
  <2>9. /\ z \in Medium /\ z.timer = u.timer
        /\ \A d \in Entity : d # Peer(e) => z.chan[d] = u.chan[d]
        /\ z.chan[Peer(e)] = u.chan[Peer(e)] \o Arrived(packets, r)
    <3>1. Arrived(packets, r) \in Seq(Pkt)
      BY <1>1, <2>4, ArrivedType
    <3> QED BY <3>1, TransmitEachIs
  <2> HIDE DEF v, z, t
  <2>10. w = [chan |-> y, timer |-> v.timer]
    <3>1. v \in Medium
      BY <2>8
    <3>2. w = [v EXCEPT !.chan = y]
      BY <1>7, Zenon DEF Transmit
    <3> HIDE DEF w, y
    <3>3. [v EXCEPT !.chan = y] = [chan |-> y, timer |-> v.timer]
      BY <3>1, ChannelsReplaced
    <3> QED BY <3>2, <3>3
  <2> HIDE DEF w, x
  <2>11. Peer(e) \in Entity
    BY DEF Peer, Entity, A, B
  <2>12. u.chan[Peer(e)] \in Seq(Pkt) /\ v.chan \in [Entity -> Seq(Pkt)]
    BY <2>8, <2>11 DEF Medium
  <2>13. Append(v.chan[Peer(e)], x) \in Seq(Pkt)
    BY <2>5, <2>11, <2>12, AppendProperties
  <2>14. /\ y \in [Entity -> Seq(Pkt)]
         /\ y[Peer(e)] = Append(v.chan[Peer(e)], x)
         /\ \A d \in Entity : d # Peer(e) => y[d] = v.chan[d]
    BY <2>11, <2>12, <2>13
  <2> HIDE DEF y
  <2>15. w \in Medium /\ w.chan = y /\ w.timer = v.timer
    BY <2>8, <2>10, <2>14 DEF Medium
  <2>16. ASSUME NEW d \in Entity PROVE w.chan[d] = z.chan[d]
    <3>1. CASE d = Peer(e)
      BY <2>6, <2>7, <2>8, <2>9, <2>12, <2>14, <2>15, <3>1
    <3>2. CASE d # Peer(e)
      BY <2>8, <2>9, <2>14, <2>15, <3>2
    <3> QED BY <3>1, <3>2
  <2>17. w = z
    BY <2>8, <2>9, <2>15, <2>16, SameMedium
  <2> QED BY <2>4, <2>17 DEF w, v, z
<1> QED BY <1>6, <1>7

LEMMA NoneSurvives ==
  ASSUME NEW u \in Medium, NEW e \in Entity, NEW packets \in Seq(Pkt)
  PROVE  \E s \in Survivals(0) : TransmitEach(u, e, packets, s) = u
<1>1. PICK s : s \in [1..0 -> (1..0) \X (Fates \ {"lost"})] /\ DOMAIN s = 1..0
  <2> DEFINE r == [i \in 1..0 |-> <<1, "intact">>]
  <2>1. r \in [1..0 -> (1..0) \X (Fates \ {"lost"})] /\ DOMAIN r = 1..0
    OBVIOUS
  <2> HIDE DEF r
  <2> QED BY <2>1
<1> DEFINE m == TransmitEach(u, e, packets, s)
<1>2. s \in Survivals(0)
  <2>1. 0 \in Nat /\ 0 \in 0..0 /\ 1..(0 - 1) = {}
    OBVIOUS
  <2>2. \A i \in 1..(0 - 1) : s[i][1] < s[i + 1][1]
    BY <2>1
  <2> QED BY <1>1, <2>1, <2>2, SurvivorsAre
<1>3. Arrived(packets, s) \in Seq(Pkt) /\ Arrived(packets, s) = << >>
  <2>1. Arrived(packets, s) \in Seq(Pkt)
    BY <1>2, ArrivedType
  <2>2. DOMAIN Arrived(packets, s) = 1..0
    BY <1>1 DEF Arrived
  <2>3. Len(Arrived(packets, s)) = 0
    BY <2>1, <2>2
  <2> QED BY <2>1, <2>3, EmptySeq
<1>4. /\ m \in Medium /\ m.timer = u.timer
      /\ \A d \in Entity : d # Peer(e) => m.chan[d] = u.chan[d]
      /\ m.chan[Peer(e)] = u.chan[Peer(e)] \o << >>
  <2>1. /\ m \in Medium /\ m.timer = u.timer
        /\ \A d \in Entity : d # Peer(e) => m.chan[d] = u.chan[d]
        /\ m.chan[Peer(e)] = u.chan[Peer(e)] \o Arrived(packets, s)
    <3>1. Arrived(packets, s) \in Seq(Pkt)
      BY <1>3
    <3> QED BY <3>1, TransmitEachIs
  <2> HIDE DEF m
  <2> QED BY <1>3, <2>1
<1> HIDE DEF m
<1>5. u.chan[Peer(e)] \in Seq(Pkt)
  BY DEF Medium, Peer, Entity, A, B
<1>6. u.chan[Peer(e)] \o << >> = u.chan[Peer(e)]
  BY <1>5
<1>7. \A d \in Entity : m.chan[d] = u.chan[d]
  BY <1>4, <1>6
<1>8. m = u
  BY <1>4, <1>7, SameMedium
<1> QED BY <1>2, <1>8 DEF m

\* m holds the same arrivals and timers as n.
OthersKept(n, m) ==
  \A y, S : y # FROM_LAYER3 => /\ Absent(m, y, S) <=> Absent(n, y, S)
                               /\ AtMostOne(n, y, S) => AtMostOne(m, y, S)

LEMMA PacketsSent ==
  ASSUME NEW n, Orderly(n), NEW e \in Entity, NEW packets \in Seq(Pkt),
         NEW hows \in [1..Len(packets) -> Ways]
  PROVE  LET m == tolayer3each(n, e, packets, hows)
         IN  /\ Orderly(m)
             /\ Len(m) <= Len(n) + Len(packets)
             /\ OthersKept(n, m)
             /\ \E s \in Survivals(Len(packets)) :
                  Untimed(m) = TransmitEach(Untimed(n), e, packets, s)
<1>1. PICK f : InTurn(n, e, packets, hows, f)
  BY EachInTurn
<1> DEFINE u == Untimed(n)
           Good(k, m) == /\ Orderly(m)
                         /\ Len(m) <= Len(n) + k
                         /\ OthersKept(n, m)
                         /\ \E s \in Survivals(k) : Untimed(m) = TransmitEach(u, e, packets, s)
<1>2. Len(packets) \in Nat /\ Len(n) \in Nat /\ n \in Seq(Event) /\ u \in Medium
  BY UntimedMedium, EventFacts DEF Orderly
<1>3. Good(0, f[0])
  <2>1. \E s \in Survivals(0) : u = TransmitEach(u, e, packets, s)
    BY <1>2, NoneSurvives
  <2> QED BY <1>1, <1>2, <2>1 DEF OthersKept, InTurn
<1>4. ASSUME NEW k \in 1..Len(packets), Good(k - 1, f[k - 1]) PROVE Good(k, f[k])
  <2> DEFINE l == f[k - 1]
             m == tolayer3(l, e, packets[k], hows[k])
  <2>1. m = f[k] /\ packets[k] \in Pkt /\ hows[k] \in Ways /\ hows[k].fate \in Fates
    <3>1. hows[k] \in Ways /\ packets[k] \in Pkt
      BY ElementOfSeq
    <3> QED BY <1>1, <3>1 DEF Ways, InTurn
  <2>2. /\ Orderly(l) /\ Len(l) <= Len(n) + (k - 1) /\ OthersKept(n, l)
        /\ Len(l) \in Nat
    BY <1>4, EventFacts DEF Orderly
  <2>3. PICK s \in Survivals(k - 1) : Untimed(l) = TransmitEach(u, e, packets, s)
    BY <1>4
  <2>4. /\ Orderly(m)
        /\ Len(m) <= Len(l) + 1
        /\ Untimed(m) = Transmit(Untimed(l), e, packets[k], hows[k].fate)
        /\ OthersKept(l, m)
    <3> HIDE DEF l
    <3> QED BY <2>1, <2>2, PacketSent DEF OthersKept
  <2> HIDE DEF u, l, m
  <2>5. PICK r \in Survivals(k) :
          Transmit(TransmitEach(u, e, packets, s), e, packets[k], hows[k].fate)
            = TransmitEach(u, e, packets, r)
    BY <1>2, <2>1, OneMoreSurvives
  <2>6. Untimed(m) = TransmitEach(u, e, packets, r)
    BY <2>3, <2>4, <2>5
  <2>7. OthersKept(n, m)
    BY <2>2, <2>4 DEF OthersKept
  <2>8. Len(m) <= Len(n) + k
    <3>1. Len(m) \in Nat
      BY <2>4, EventFacts DEF Orderly
    <3> QED BY <1>2, <2>2, <2>4, <3>1
  <2> QED BY <2>1, <2>4, <2>6, <2>7, <2>8
<1> DEFINE Bad == {k \in 0..Len(packets) : ~Good(k, f[k])}
<1> HIDE DEF Good
<1>5. Bad = {}
  <2> SUFFICES ASSUME Bad # {} PROVE FALSE
    OBVIOUS
  <2>1. PICK k \in Bad : \A l \in Bad : k <= l
    <3>1. Bad \subseteq Nat
      BY <1>2
    <3> HIDE DEF Bad
    <3> QED BY <3>1, MinIsLeast
  <2>2. k # 0
    BY <1>3
  <2>3. k \in 1..Len(packets) /\ k - 1 \in 0..Len(packets) /\ k - 1 < k
    BY <1>2, <2>2
  <2>4. Good(k - 1, f[k - 1])
    BY <2>1, <2>3
  <2> QED BY <1>4, <2>3, <2>4
<1>6. Good(Len(packets), f[Len(packets)])
  <2>1. Len(packets) \in 0..Len(packets)
    BY <1>2
  <2> QED BY <1>5, <2>1
<1> QED BY <1>1, <1>6 DEF Good, InTurn

LEMMA SurvivorsCounted ==
  ASSUME NEW len \in Nat, NEW s \in Survivals(len)
  PROVE  Len(s) \in Nat /\ Len(s) <= len
<1> DEFINE S(l) == {t \in [1..l -> (1..len) \X (Fates \ {"lost"})] :
                      \A i \in 1..(l - 1) : t[i][1] < t[i + 1][1]}
<1>1. Survivals(len) = UNION {S(l) : l \in 0..len}
  BY DEF Survivals
<1>2. PICK m \in 0..len : s \in S(m)
  <2> HIDE DEF S
  <2> QED BY <1>1
<1>3. s \in [1..m -> (1..len) \X (Fates \ {"lost"})]
  BY <1>2
<1>4. m \in Nat /\ Len(s) = m
  BY <1>3
<1> QED BY <1>4

LEMMA ArrivalStaysEach ==
  ASSUME NEW n, ArrivalLeft(n), NEW e \in Entity, NEW packets \in Seq(Pkt),
         NEW hows \in [1..Len(packets) -> Ways]
  PROVE  ArrivalLeft(tolayer3each(n, e, packets, hows))
<1> DEFINE m == tolayer3each(n, e, packets, hows)
<1>1. Orderly(n)
  BY DEF ArrivalLeft
<1>2. Orderly(m) /\ OthersKept(n, m)
  BY <1>1, PacketsSent
<1> HIDE DEF m
<1>3. ArrivalLeft(m)
  BY <1>2, Kinds DEF ArrivalLeft, OthersKept
<1> QED BY <1>3 DEF m
=============================================================================

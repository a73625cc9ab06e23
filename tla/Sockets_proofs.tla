--------------------------- MODULE Sockets_proofs ---------------------------
(***************************************************************************)
(* Proofs about the programs that use sockets of their own: ping.py, the   *)
(* UDP heartbeat, the UDP ping and the three HTTP programs.                *)
(***************************************************************************)
EXTENDS IcmpPing, Heartbeat, Pinger, Http, FiniteSetTheorems, TLAPS

-----------------------------------------------------------------------------
\* ping.py, for every process number, time and time-out: the checksum is
\* always right (RequestVerifies), so that a ping whose answer neither came
\* nor is on its way was lost (Silent), and what an answer carries is the
\* time of its own request (Packets, Lines).
\* What folding does to all the sums there are.
LEMMA Folds ==
  ASSUME NEW s \in Nat
  PROVE  /\ s < 65536 => FoldedOnce(s) = s
         /\ 65536 <= s /\ s < 131072 => FoldedOnce(s) = s - 65535
         /\ 131072 <= s /\ s < 196608 => FoldedOnce(s) = s - 131070
         /\ 196608 <= s /\ s < 262144 => FoldedOnce(s) = s - 196605
         /\ 262144 <= s /\ s < 327680 => FoldedOnce(s) = s - 262140
         /\ 327680 <= s /\ s < 393216 => FoldedOnce(s) = s - 327675
         /\ 393216 <= s /\ s < 458752 => FoldedOnce(s) = s - 393210
BY SMT DEF FoldedOnce

\* Division and rest by 65536, below its double.
LEMMA Halves ==
  ASSUME NEW s \in Nat, s < 131072
  PROVE  /\ s \div 65536 = IF s < 65536 THEN 0 ELSE 1
         /\ s % 65536 = IF s < 65536 THEN s ELSE s - 65536
BY SMT

LEMMA Low ==
  ASSUME NEW f \in Nat, f < 65536
  PROVE  f + f \div 65536 = f /\ f % 65536 = f
BY Halves, SMT

LEMMA HighSum ==
  ASSUME NEW f \in Nat, 65536 <= f, f <= 131070
  PROVE  f + f \div 65536 = f + 1
BY SMT
LEMMA HighRest ==
  ASSUME NEW f \in Nat, 65536 <= f, f <= 131070
  PROVE  (f + 1) % 65536 = f - 65535
BY SMT

\* checksum() of a sum that folds to f: the carry is taken in if there is one.
LEMMA SumLow ==
  ASSUME NEW sum \in Nat, NEW f \in Nat, FoldedOnce(sum) = f, f < 65536
  PROVE  checksum(sum) = 65535 - f
BY Low, SMT DEF checksum, Folded

LEMMA SumHigh ==
  ASSUME NEW sum \in Nat, NEW f \in Nat, FoldedOnce(sum) = f, 65536 <= f, f <= 131070
  PROVE  checksum(sum) = 131070 - f
BY HighSum, HighRest, SMT DEF checksum, Folded

\* A sum that folds to over less: with its checksum it is one of two numbers.
LEMMA Completes ==
  ASSUME NEW sum \in Nat, NEW f \in Nat, NEW over \in Nat, NEW a \in Nat, NEW b \in Nat,
         sum = f + over, f <= 131070, FoldedOnce(sum) = f,
         a = 65535 + over, b = 131070 + over,
         FoldedOnce(a) = 65535, FoldedOnce(b) = 65535
  PROVE  Verifies(sum + checksum(sum))
<1>1. FoldedOnce(65535) = 65535
  BY Folds, SMT
<1>2. CASE f < 65536
  <2>1. checksum(sum) = 65535 - f
    BY <1>2, SumLow, SMT
  <2>2. sum + checksum(sum) = a
    BY <2>1, SMT
  <2> QED BY <1>1, <2>2, SMT DEF Verifies
<1>3. CASE 65536 <= f
  <2>1. checksum(sum) = 131070 - f
    BY <1>3, SumHigh, SMT
  <2>2. sum + checksum(sum) = b
    BY <2>1, SMT
  <2> QED BY <1>1, <2>2, SMT DEF Verifies
<1> QED BY <1>2, <1>3, SMT

\* The other host finds the checksum of every sum right.
LEMMA ChecksumVerifies ==
  ASSUME NEW sum \in Nat, sum < 393216
  PROVE  Verifies(sum + checksum(sum))
<1>1. CASE sum < 65536
  <2>1. /\ FoldedOnce(sum) = sum /\ sum \in Nat /\ sum <= 131070 /\ sum = sum + 0
        /\ FoldedOnce(65535) = 65535 /\ FoldedOnce(131070) = 65535
    BY <1>1, Folds, SMT
  <2> QED BY <2>1, Completes, SMT
<1>2. CASE 65536 <= sum /\ sum < 131072
  <2>1. PICK f \in Nat : f = sum - 65535
    BY <1>2, SMT
  <2>2. /\ FoldedOnce(sum) = f /\ f <= 131070 /\ sum = f + 65535
        /\ FoldedOnce(131070) = 65535 /\ FoldedOnce(196605) = 65535
    BY <1>2, <2>1, Folds, SMT
  <2> QED BY <2>2, Completes, SMT
<1>3. CASE 131072 <= sum /\ sum < 196608
  <2>1. PICK f \in Nat : f = sum - 131070
    BY <1>3, SMT
  <2>2. /\ FoldedOnce(sum) = f /\ f <= 131070 /\ sum = f + 131070
        /\ FoldedOnce(196605) = 65535 /\ FoldedOnce(262140) = 65535
    BY <1>3, <2>1, Folds, SMT
  <2> QED BY <2>2, Completes, SMT
<1>4. CASE 196608 <= sum /\ sum < 262144
  <2>1. PICK f \in Nat : f = sum - 196605
    BY <1>4, SMT
  <2>2. /\ FoldedOnce(sum) = f /\ f <= 131070 /\ sum = f + 196605
        /\ FoldedOnce(262140) = 65535 /\ FoldedOnce(327675) = 65535
    BY <1>4, <2>1, Folds, SMT
  <2> QED BY <2>2, Completes, SMT
<1>5. CASE 262144 <= sum /\ sum < 327680
  <2>1. PICK f \in Nat : f = sum - 262140
    BY <1>5, SMT
  <2>2. /\ FoldedOnce(sum) = f /\ f <= 131070 /\ sum = f + 262140
        /\ FoldedOnce(327675) = 65535 /\ FoldedOnce(393210) = 65535
    BY <1>5, <2>1, Folds, SMT
  <2> QED BY <2>2, Completes, SMT
<1>6. CASE 327680 <= sum /\ sum < 393216
  <2>1. PICK f \in Nat : f = sum - 327675
    BY <1>6, SMT
  <2>2. /\ FoldedOnce(sum) = f /\ f <= 131070 /\ sum = f + 327675
        /\ FoldedOnce(393210) = 65535 /\ FoldedOnce(458745) = 65535
    BY <1>6, <2>1, Folds, SMT
  <2> QED BY <2>2, Completes, SMT
<1> QED BY <1>1, <1>2, <1>3, <1>4, <1>5, <1>6, SMT

LEMMA SumOfWords ==
  ASSUME NEW a \in Nat, NEW b \in Nat, NEW c \in Nat, NEW d \in Nat, NEW e \in Nat,
         a <= 65535, b <= 65535, c <= 65535, d <= 65535, e <= 65535
  PROVE  /\ 8 + a + 1 + b + c + d + e \in Nat
         /\ 8 + a + 1 + b + c + d + e < 393216
BY SMT

LEMMA RequestVerifies ==
  ASSUME NEW double \in Doubles
  PROVE  Verifies(Sum(double) + checksum(Sum(double)))
<1>1. the_id \in Word /\ double \in [1..4 -> Word]
  BY IcmpAssumption, SMT DEF IcmpAssumption
<1>2. double[1] \in Word /\ double[2] \in Word /\ double[3] \in Word /\ double[4] \in Word
  BY <1>1, SMT
<1>3. \A w \in Word : w \in Nat /\ w <= 65535
  BY SMT DEF Word
<1>4. /\ the_id \in Nat /\ the_id <= 65535
      /\ double[1] \in Nat /\ double[1] <= 65535
      /\ double[2] \in Nat /\ double[2] <= 65535
      /\ double[3] \in Nat /\ double[3] <= 65535
      /\ double[4] \in Nat /\ double[4] <= 65535
  BY <1>1, <1>2, <1>3, SMT
<1>5. Sum(double) = 8 + the_id + 1 + double[1] + double[2] + double[3] + double[4]
  BY DEF Sum, ICMP_ECHO_REQUEST
<1>6. Sum(double) \in Nat /\ Sum(double) < 393216
  BY <1>4, <1>5, SumOfWords, SMT
<1> QED BY <1>6, ChecksumVerifies, SMT

-----------------------------------------------------------------------------
Line == [ping : 0..Pings, time : Nat \cup {Never}]

IcmpTypes ==
  /\ now \in Nat /\ until \in Nat /\ requests \in 0..Pings
  /\ pc \in {"send", "select", "sleep", "ended"}
  /\ socket \in Seq(Packet) /\ air \subseteq Packet
  /\ printed \in Seq(Line)
  /\ sentAt \in [1..Pings -> Nat \cup {Never}]
  /\ arrivedAt \in [1..Pings -> Nat \cup {Never}]
  /\ lost \subseteq 1..Pings
  /\ pc \in {"send", "sleep"} => Len(printed) = requests /\ socket = << >>
  /\ pc = "select" => requests > 0 /\ Len(printed) = requests - 1 /\ until = sentAt[requests] + timeout
  /\ Len(printed) <= requests

\* A packet is the answer to a ping that was sent, with the time at which it
\* was sent, and there is one answer to a ping.
IsAnswer(p) == p.ping \in 1..requests /\ p.data = sentAt[p.ping]

Received(p) ==
  /\ p.data <= now
  /\ p.ping # 0 => IsAnswer(p) /\ (pc = "select" => arrivedAt[p.ping] = now)

Packets ==
  /\ \A k \in 1..requests : sentAt[k] \in Nat /\ sentAt[k] <= now
  /\ \A p \in air : IsAnswer(p) /\ arrivedAt[p.ping] = Never
  /\ \A i \in 1..Len(socket) : Received(socket[i])
  /\ \A k \in 1..Pings : arrivedAt[k] # Never => k <= requests /\ arrivedAt[k] <= now

Lines ==
  \A k \in 1..Len(printed) : printed[k].ping # 0 =>
    LET m == printed[k].ping IN
      /\ m <= k /\ arrivedAt[m] # Never
      /\ printed[k].time = arrivedAt[m] - sentAt[m]

\* Whatever came for ping k came when its time was over.
Silent(k) ==
  \/ k \in lost
  \/ (\E p \in air : p.ping = k) /\ now >= sentAt[k] + timeout
  \/ arrivedAt[k] # Never /\ arrivedAt[k] >= sentAt[k] + timeout

Unanswered ==
  /\ pc = "select" /\ socket = << >> => requests \in lost \/ \E p \in air : p.ping = requests
  /\ \A k \in 1..Len(printed) : printed[k] = [ping |-> 0, time |-> Never] => Silent(k)

IcmpInv == IcmpTypes /\ Packets /\ Lines /\ Unanswered

LEMMA InitIcmp == IcmpInit => IcmpInv
<1> SUFFICES ASSUME IcmpInit PROVE IcmpInv
  OBVIOUS
<1>0. Pings \in Nat
  BY IcmpAssumption, SMT DEF IcmpAssumption
<1>1. IcmpTypes
  BY <1>0 DEF IcmpInit, IcmpTypes
<1>2. Packets /\ Lines /\ Unanswered
  BY <1>0 DEF IcmpInit, Packets, Lines, Unanswered
<1> QED BY <1>1, <1>2 DEF IcmpInv

\* A step that leaves the packets and what was printed alone.
LEMMA TimePasses ==
  ASSUME IcmpInv, now' \in Nat, now <= now', now' = now \/ socket = << >>,
         UNCHANGED <<requests, socket, printed, air, sentAt, arrivedAt, lost>>,
         socket # << >> => pc' = pc, pc' = "select" => pc = "select"
  PROVE  Packets' /\ Lines' /\ Unanswered'
<1>1. IcmpTypes /\ Packets /\ Lines /\ Unanswered
  BY DEF IcmpInv
<1>2. \A k \in 1..Pings : arrivedAt[k] # Never => arrivedAt[k] \in Nat
  BY <1>1 DEF IcmpTypes
<1>3. Packets'
  BY <1>1, <1>2 DEF Packets, Received, IsAnswer, IcmpTypes, Never
<1>4. Lines'
  BY <1>1 DEF Lines
<1>5. requests \in 0..Pings /\ Len(printed) \in Nat /\ Len(printed) <= requests
  BY <1>1 DEF IcmpTypes
<1>6. \A k \in 1..Len(printed) : sentAt[k] \in Nat
  BY <1>1, <1>5 DEF Packets
<1>7. timeout \in Nat /\ now \in Nat
  BY <1>1, IcmpAssumption, SMT DEF IcmpAssumption, IcmpTypes
<1>8. \A k \in 1..Len(printed) : Silent(k) => Silent(k)'
  BY <1>6, <1>7 DEF Silent
<1>9. Unanswered'
  BY <1>1, <1>8 DEF Unanswered
<1> QED BY <1>3, <1>4, <1>9

LEMMA StepIcmp == IcmpInv /\ [IcmpNext]_icmpVars => IcmpInv'
<1> SUFFICES ASSUME IcmpInv, [IcmpNext]_icmpVars PROVE IcmpInv'
  OBVIOUS
<1>0. IcmpTypes /\ Packets /\ Lines /\ Unanswered
  BY DEF IcmpInv
<1>a. timeout \in Nat /\ timeout > 0 /\ Pings \in Nat
  BY IcmpAssumption, SMT DEF IcmpAssumption
<1>b. requests \in 0..Pings /\ Len(printed) \in Nat /\ Len(printed) <= requests /\ now \in Nat
  BY <1>0 DEF IcmpTypes
<1>1. CASE TimeGoesOn
  <2>1. /\ now' = now + 1 /\ socket = << >>
        /\ UNCHANGED <<pc, until, requests, socket, printed, air, sentAt, arrivedAt, lost>>
    BY <1>0, <1>1 DEF TimeGoesOn, pinger, IcmpTypes
  <2>2. IcmpTypes'
    BY <1>0, <2>1 DEF IcmpTypes
  <2> QED BY <1>b, <2>1, <2>2, TimePasses DEF IcmpInv
<1>2. CASE SleepEnds
  <2>1. /\ pc = "sleep" /\ pc' = "send"
        /\ UNCHANGED <<now, until, requests, socket, printed, air, sentAt, arrivedAt, lost>>
    BY <1>2 DEF SleepEnds
  <2>2. IcmpTypes'
    BY <1>0, <2>1 DEF IcmpTypes
  <2> QED BY <1>0, <1>b, <2>1, <2>2, TimePasses DEF IcmpInv, IcmpTypes
<1>3. CASE UNCHANGED icmpVars
  <2>1. UNCHANGED <<now, pc, until, requests, socket, printed, air, sentAt, arrivedAt, lost>>
    BY <1>3 DEF icmpVars, pinger
  <2> QED BY <1>0, <2>1 DEF IcmpInv, IcmpTypes, Packets, Received, IsAnswer, Lines, Unanswered, Silent
<1>4. CASE SendOnePing
  <2>1. /\ pc = "send" /\ requests < Pings /\ requests' = requests + 1 /\ socket' = << >>
        /\ sentAt' = [sentAt EXCEPT ![requests + 1] = now]
        /\ pc' = "select" /\ until' = now + timeout
        /\ UNCHANGED <<now, printed, arrivedAt, lost>>
        /\ air' = air \cup {[ping |-> requests + 1, data |-> now]}
    BY <1>4, RequestVerifies DEF SendOnePing
  <2>2. requests + 1 \in 1..Pings /\ Len(printed) = requests
    <3>1. Len(printed) = requests
      BY <1>0, <2>1 DEF IcmpTypes
    <3> QED BY <1>a, <1>b, <2>1, <3>1
  <2>3. /\ sentAt' \in [1..Pings -> Nat \cup {Never}] /\ sentAt'[requests + 1] = now
        /\ \A k \in 1..requests : sentAt'[k] = sentAt[k]
    BY <1>0, <1>b, <2>1, <2>2 DEF IcmpTypes
  <2>4. arrivedAt[requests + 1] = Never
    BY <1>0, <1>b, <2>2 DEF Packets
  <2>5. IcmpTypes'
    <3>1. air' \subseteq Packet
      BY <1>0, <1>b, <2>1, <2>2 DEF IcmpTypes, Packet
    <3> QED BY <1>0, <1>a, <1>b, <2>1, <2>2, <2>3, <3>1 DEF IcmpTypes
  <2>6. Packets'
    <3>1. \A k \in 1..requests' : sentAt'[k] \in Nat /\ sentAt'[k] <= now'
      BY <1>0, <1>b, <2>1, <2>3 DEF Packets
    <3>2. \A p \in air' : IsAnswer(p)' /\ arrivedAt'[p.ping] = Never
      <4> TAKE p \in air'
      <4>1. CASE p \in air
        BY <1>0, <1>b, <2>1, <2>3, <4>1 DEF Packets, IsAnswer
      <4>2. CASE p = [ping |-> requests + 1, data |-> now]
        BY <1>b, <2>1, <2>3, <2>4, <4>2 DEF IsAnswer
      <4> QED BY <2>1, <4>1, <4>2
    <3> QED BY <1>0, <1>b, <2>1, <3>1, <3>2 DEF Packets
  <2>7. Lines'
    <3>1. \A k \in 1..Len(printed) : printed[k].ping # 0 => printed[k].ping \in 1..requests
      <4> TAKE k \in 1..Len(printed)
      <4> HAVE printed[k].ping # 0
      <4>1. printed[k] \in Line
        BY <1>0 DEF IcmpTypes
      <4>2. printed[k].ping \in 0..Pings /\ printed[k].ping <= k
        BY <1>0, <4>1 DEF Lines, Line
      <4> QED BY <1>b, <4>2
    <3> QED BY <1>0, <2>1, <2>3, <3>1 DEF Lines
  <2>8. Unanswered'
    <3>1. [ping |-> requests + 1, data |-> now] \in air' /\ [ping |-> requests + 1, data |-> now].ping = requests'
      BY <2>1
    <3>2. \A k \in 1..Len(printed) : Silent(k) => Silent(k)'
      BY <1>b, <2>1, <2>3 DEF Silent
    <3> QED BY <1>0, <2>1, <3>1, <3>2 DEF Unanswered
  <2> QED BY <2>5, <2>6, <2>7, <2>8 DEF IcmpInv
<1>5. ASSUME NEW p \in air, LoseAnswer(p) PROVE IcmpInv'
  <2>1. /\ air' = air \ {p} /\ lost' = lost \cup {p.ping}
        /\ UNCHANGED <<now, pc, until, requests, socket, printed, sentAt, arrivedAt>>
    BY <1>5 DEF LoseAnswer, pinger
  <2>2. p.ping \in 1..Pings
    BY <1>0, <1>a, <1>b DEF Packets, IsAnswer
  <2>3. IcmpTypes'
    BY <1>0, <2>1, <2>2 DEF IcmpTypes
  <2>4. Packets' /\ Lines'
    BY <1>0, <2>1 DEF Packets, Received, IsAnswer, Lines
  <2>5. \A k : (\E q \in air : q.ping = k) => k \in lost' \/ \E q \in air' : q.ping = k
    BY <2>1
  <2>6. \A k \in 1..Len(printed) : Silent(k) => Silent(k)'
    BY <2>1, <2>5 DEF Silent
  <2>7. Unanswered'
    BY <1>0, <2>1, <2>5, <2>6 DEF Unanswered
  <2> QED BY <2>3, <2>4, <2>7 DEF IcmpInv
<1>6. ASSUME NEW p \in air, Arrive(p) PROVE IcmpInv'
  <2>1. /\ air' = air \ {p} /\ arrivedAt' = [arrivedAt EXCEPT ![p.ping] = now]
        /\ UNCHANGED <<now, pc, until, requests, printed, sentAt, lost>>
        /\ socket' = IF pc = "select" THEN Append(socket, p) ELSE socket
    BY <1>6 DEF Arrive
  <2>2. /\ p \in Packet /\ IsAnswer(p) /\ p.ping \in 1..requests /\ p.ping \in 1..Pings
        /\ p.ping # 0 /\ arrivedAt[p.ping] = Never
    BY <1>0, <1>a, <1>b DEF IcmpTypes, Packets, IsAnswer
  <2>3. /\ arrivedAt' \in [1..Pings -> Nat \cup {Never}] /\ arrivedAt'[p.ping] = now
        /\ \A k \in 1..Pings : k # p.ping => arrivedAt'[k] = arrivedAt[k]
    BY <1>0, <1>b, <2>1, <2>2 DEF IcmpTypes
  <2>4. /\ socket' \in Seq(Packet)
        /\ \A i \in 1..Len(socket') : (i \in 1..Len(socket) /\ socket'[i] = socket[i])
                                        \/ socket'[i] = p
        /\ pc \in {"send", "sleep"} => socket' = socket
        /\ pc = "select" => Len(socket') > 0
    <3>1. socket \in Seq(Packet) /\ p \in Packet
      BY <1>0, <2>2 DEF IcmpTypes
    <3>2. CASE pc = "select"
      <4>1. /\ socket' \in Seq(Packet) /\ Len(socket') = Len(socket) + 1
            /\ socket'[Len(socket) + 1] = p
            /\ \A i \in 1..Len(socket) : socket'[i] = socket[i]
        BY <2>1, <3>1, <3>2
      <4> QED BY <3>1, <3>2, <4>1
    <3>3. CASE pc # "select"
      BY <2>1, <3>1, <3>3
    <3> QED BY <3>2, <3>3
  <2>5. IcmpTypes'
    BY <1>0, <2>1, <2>3, <2>4 DEF IcmpTypes
  <2>6. \A q \in air' : q \in air /\ q.ping # p.ping
    <3> TAKE q \in air'
    <3>1. q \in air /\ q # p
      BY <2>1
    <3>2. q \in Packet /\ p \in Packet /\ q.data = sentAt[q.ping] /\ p.data = sentAt[p.ping]
      BY <1>0, <3>1 DEF IcmpTypes, Packets, IsAnswer
    <3> QED BY <3>1, <3>2 DEF Packet
  <2>7. Packets'
    <3>1. \A q \in air' : IsAnswer(q)' /\ arrivedAt'[q.ping] = Never
      BY <1>0, <1>a, <1>b, <2>1, <2>3, <2>6 DEF Packets, IsAnswer
    <3>2. ASSUME NEW i \in 1..Len(socket') PROVE Received(socket[i])'
      <4>1. PICK q : q = socket'[i]
        OBVIOUS
      <4>2. CASE q = p
        <5>1. sentAt[p.ping] <= now
          BY <1>0, <2>2 DEF Packets
        <5> QED BY <2>1, <2>2, <2>3, <4>1, <4>2, <5>1 DEF Received, IsAnswer
      <4>3. CASE i \in 1..Len(socket) /\ q = socket[i]
        <5>1. Received(q)
          BY <1>0, <4>3 DEF Packets
        <5>2. q.ping # 0 => q.ping \in 1..Pings
          BY <1>a, <1>b, <5>1 DEF Received, IsAnswer
        <5> QED BY <2>1, <2>3, <4>1, <5>1, <5>2 DEF Received, IsAnswer
      <4> QED BY <2>4, <4>1, <4>2, <4>3
    <3>3. \A k \in 1..Pings : arrivedAt'[k] # Never => k <= requests' /\ arrivedAt'[k] <= now'
      BY <1>0, <1>b, <2>1, <2>2, <2>3 DEF Packets
    <3> QED BY <1>0, <2>1, <3>1, <3>2, <3>3 DEF Packets
  <2>8. Lines'
    <3> SUFFICES ASSUME NEW k \in 1..Len(printed), printed[k].ping # 0
                 PROVE  LET m == printed[k].ping IN
                          /\ m <= k /\ arrivedAt'[m] # Never
                          /\ printed[k].time = arrivedAt'[m] - sentAt[m]
      BY <2>1 DEF Lines
    <3>1. printed[k] \in Line
      BY <1>0 DEF IcmpTypes
    <3>2. printed[k].ping \in 1..Pings
      BY <1>a, <3>1 DEF Line
    <3> QED BY <1>0, <2>2, <2>3, <3>2 DEF Lines
  <2>9. Unanswered'
    <3>1. \A k \in 1..Len(printed) : Silent(k) => Silent(k)'
      <4> TAKE k \in 1..Len(printed)
      <4> HAVE Silent(k)
      <4>1. k \in 1..Pings /\ k \in 1..requests
        BY <1>a, <1>b
      <4>2. CASE k = p.ping /\ now >= sentAt[k] + timeout
        BY <1>b, <2>1, <2>3, <4>2 DEF Silent, Never
      <4>3. CASE k = p.ping /\ k \in lost
        BY <2>1, <4>3 DEF Silent
      <4>4. CASE k # p.ping
        BY <2>1, <2>3, <4>1, <4>4 DEF Silent
      <4> QED BY <2>2, <4>2, <4>3, <4>4 DEF Silent
    <3>2. pc = "select" => socket' # << >>
      BY <2>4, Len(<< >>) = 0
    <3> QED BY <1>0, <2>1, <3>1, <3>2 DEF Unanswered
  <2> QED BY <2>5, <2>7, <2>8, <2>9 DEF IcmpInv
<1>7. CASE ForeignArrives
  <2>1. PICK time \in {Never, now} : socket' = << [ping |-> 0, data |-> time] >>
    BY <1>7 DEF ForeignArrives
  <2>2. /\ pc = "select"
        /\ UNCHANGED <<now, pc, until, requests, printed, air, sentAt, arrivedAt, lost>>
    BY <1>7 DEF ForeignArrives
  <2>3. [ping |-> 0, data |-> time] \in Packet /\ time <= now
    BY <1>a, <1>b DEF Packet, Never
  <2>4. socket' \in Seq(Packet) /\ Len(socket') = 1 /\ socket'[1] = [ping |-> 0, data |-> time]
    BY <2>1, <2>3
  <2>5. IcmpTypes'
    BY <1>0, <2>2, <2>4 DEF IcmpTypes
  <2>6. Packets'
    BY <1>0, <2>2, <2>3, <2>4 DEF Packets, Received, IsAnswer
  <2>7. Lines' /\ Unanswered'
    <3>1. socket' # << >>
      <4>1. Len(socket') = 1
        BY <2>4
      <4> QED BY <4>1, Len(<< >>) = 0
    <3>2. \A k \in 1..Len(printed) : Silent(k) => Silent(k)'
      BY <2>2 DEF Silent
    <3> QED BY <1>0, <2>2, <3>1, <3>2 DEF Lines, Unanswered
  <2> QED BY <2>5, <2>6, <2>7 DEF IcmpInv
<1>8. ASSUME NEW line \in Line, pc = "select", Prints(line),
             UNCHANGED <<now, requests, air, sentAt, arrivedAt, lost>>,
             line.ping # 0 => /\ line.ping \in 1..requests /\ arrivedAt[line.ping] # Never
                              /\ line.time = arrivedAt[line.ping] - sentAt[line.ping],
             line = [ping |-> 0, time |-> Never] => Silent(requests)
      PROVE  IcmpInv'
  <2>1. printed' = Append(printed, line) /\ pc' = "sleep" /\ until' = now + timeout /\ socket' = << >>
    BY <1>8 DEF Prints
  <2>2. Len(printed) = requests - 1 /\ requests > 0
    BY <1>0, <1>8 DEF IcmpTypes
  <2>3. /\ printed' \in Seq(Line) /\ Len(printed') = requests /\ printed'[requests] = line
        /\ \A k \in 1..Len(printed') : k = requests \/ (k \in 1..Len(printed) /\ printed'[k] = printed[k])
    <3>1. printed \in Seq(Line)
      BY <1>0 DEF IcmpTypes
    <3>2. /\ printed' \in Seq(Line) /\ Len(printed') = Len(printed) + 1
          /\ printed'[Len(printed) + 1] = line
          /\ \A k \in 1..Len(printed) : printed'[k] = printed[k]
      BY <2>1, <3>1
    <3> QED BY <1>b, <2>2, <3>2
  <2>4. IcmpTypes'
    BY <1>0, <1>8, <1>a, <1>b, <2>1, <2>3 DEF IcmpTypes
  <2>5. Packets'
    BY <1>0, <1>8, <2>1 DEF Packets, IsAnswer
  <2>6. Lines'
    <3> SUFFICES ASSUME NEW k \in 1..Len(printed'), printed'[k].ping # 0
                 PROVE  LET m == printed'[k].ping IN
                          /\ m <= k /\ arrivedAt[m] # Never
                          /\ printed'[k].time = arrivedAt[m] - sentAt[m]
      BY <1>8 DEF Lines
    <3>1. CASE k = requests
      BY <1>8, <1>b, <2>3, <3>1
    <3>2. CASE k \in 1..Len(printed) /\ printed'[k] = printed[k]
      BY <1>0, <3>2 DEF Lines
    <3> QED BY <2>3, <3>1, <3>2
  <2>7. Unanswered'
    <3>1. \A k \in 1..requests : Silent(k) => Silent(k)'
      BY <1>8 DEF Silent
    <3> QED BY <1>0, <1>8, <1>b, <2>1, <2>2, <2>3, <3>1 DEF Unanswered
  <2> QED BY <2>4, <2>5, <2>6, <2>7 DEF IcmpInv
<1>9. CASE ReceiveOnePing
  <2>1. pc = "select" /\ socket # << >> /\ UNCHANGED <<now, requests, air, sentAt, arrivedAt, lost>>
    BY <1>9 DEF ReceiveOnePing
  <2>2. PICK p \in Packet : p = Head(socket) /\ Received(p)
    <3>1. socket \in Seq(Packet) /\ Len(socket) > 0
      BY <1>0, <2>1 DEF IcmpTypes
    <3>2. Head(socket) = socket[1] /\ 1 \in 1..Len(socket) /\ socket[1] \in Packet
      BY <3>1
    <3> QED BY <1>0, <3>2 DEF Packets
  <2>3. CASE p.data = Never
    <3>1. pc' = "ended" /\ UNCHANGED <<until, socket, printed>>
      BY <1>9, <2>2, <2>3 DEF ReceiveOnePing
    <3>2. IcmpTypes'
      BY <1>0, <2>1, <3>1 DEF IcmpTypes
    <3> QED BY <1>0, <1>b, <2>1, <3>1, <3>2 DEF IcmpInv, Packets, Received, IsAnswer, Lines,
                                                Unanswered, Silent
  <2>4. CASE p.data # Never
    <3> DEFINE line == [ping |-> p.ping, time |-> Time(p)]
    <3>1. Prints(line)
      BY <1>9, <2>2, <2>4 DEF ReceiveOnePing
    <3>2. p.ping \in 0..Pings /\ p.data \in Nat /\ p.data <= now
      BY <2>2, <2>4 DEF Packet, Received
    <3>3. Time(p) = now - p.data /\ Time(p) \in Nat
      BY <1>b, <3>2 DEF Time
    <3>4. line \in Line /\ line.ping = p.ping /\ line.time = Time(p) /\ line.time # Never
      BY <3>2, <3>3 DEF Line, Never
    <3>5. line.ping # 0 => /\ line.ping \in 1..requests /\ arrivedAt[line.ping] # Never
                           /\ line.time = arrivedAt[line.ping] - sentAt[line.ping]
      BY <1>b, <2>1, <2>2, <3>3, <3>4 DEF Received, IsAnswer, Never
    <3>6. line # [ping |-> 0, time |-> Never]
      BY <3>4
    <3> HIDE DEF line
    <3> QED BY <1>8, <2>1, <3>1, <3>4, <3>5, <3>6
  <2> QED BY <2>3, <2>4
<1>10. CASE TimeOut
  <2> DEFINE line == [ping |-> 0, time |-> Never]
  <2>1. /\ pc = "select" /\ socket = << >> /\ now = until /\ Prints(line)
        /\ UNCHANGED <<now, requests, air, sentAt, arrivedAt, lost>>
    BY <1>10 DEF TimeOut
  <2>2. line \in Line /\ line.ping = 0
    BY <1>a DEF Line
  <2>3. now = sentAt[requests] + timeout /\ requests > 0
    BY <1>0, <2>1 DEF IcmpTypes
  <2>4. Silent(requests)
    BY <1>0, <1>b, <2>1, <2>3 DEF Unanswered, Silent
  <2> HIDE DEF line
  <2> QED BY <1>8, <2>1, <2>2, <2>4
<1> QED BY <1>1, <1>2, <1>3, <1>4, <1>5, <1>6, <1>7, <1>9, <1>10 DEF IcmpNext, Step

LEMMA IcmpInvariance == IcmpSpec => []IcmpInv
  BY InitIcmp, StepIcmp, PTL DEF IcmpSpec

\* ping.py's variables keep their types.
THEOREM IcmpTypeCorrect == IcmpSpec => []IcmpTypeOK
<1>1. IcmpInv => IcmpTypeOK
  BY DEF IcmpInv, IcmpTypes, IcmpTypeOK, Line
<1> QED BY <1>1, IcmpInvariance, PTL

\* Every time ping.py prints for an answer is that ping's round-trip time.
THEOREM RoundTripTimes == IcmpSpec => []TimesAreTrue
<1>1. ASSUME IcmpInv PROVE TimesAreTrue
  <2>1. DOMAIN printed = 1..Len(printed)
    BY <1>1 DEF IcmpInv, IcmpTypes
  <2> QED BY <1>1, <2>1 DEF IcmpInv, Lines, TimesAreTrue
<1> QED BY <1>1, IcmpInvariance, PTL

\* "Request timed out" is true, because every checksum is right.
THEOREM NoFalseTimeout == IcmpSpec => []TimeoutMeansSilence
<1>1. ASSUME IcmpInv PROVE TimeoutMeansSilence
  <2>1. DOMAIN printed = 1..Len(printed)
    BY <1>1 DEF IcmpInv, IcmpTypes
  <2>2. \A k : Silent(k) => \/ k \in lost
                            \/ \E p \in air : p.ping = k
                            \/ arrivedAt[k] >= sentAt[k] + timeout
    BY DEF Silent
  <2> QED BY <1>1, <2>1, <2>2 DEF IcmpInv, Unanswered, TimeoutMeansSilence
<1> QED BY <1>1, IcmpInvariance, PTL

-----------------------------------------------------------------------------
\* The heartbeat, for every bound on seq.  What is reported rests on what the
\* server knows of the session (Session), and when "Client stopped" is
\* printed on how long the client still sleeps (Silences); both on the beat
\* and its answer never being under way together (Dialogue).
\* The client waits exactly while its beat or the answer is under way.
Dialogue ==
  /\ client # "waiting" => beat = None /\ ~ok
  /\ client = "waiting" => (beat = seq /\ ~ok) \/ (beat = None /\ ok)

\* The beats of this session that are over.
Past == IF beat # None THEN seq - 1 ELSE seq

\* Before the first beat is served all were skipped and none is reported; then
\* the skipped ones between first and last_seq are.
Session ==
  /\ \A d \in reported : d \in dropped
  /\ client # "offline" => \A d \in dropped : d <= Past
  /\ client # "offline" /\ first = None =>
       /\ \A d \in 1..Past : d \in dropped
       /\ \A d \in dropped : d \notin reported
  /\ client # "offline" /\ first # None =>
       /\ last_seq \in 1..Past /\ last_seq \notin dropped /\ first \in 1..last_seq
       /\ \A d \in 1..Past : d > last_seq => d \in dropped
       /\ \A d \in dropped : d > first /\ d < last_seq => d \in reported
  /\ client = "pausing" \/ ok => first # None /\ last_seq = seq

\* A client that is served again in time is never silent for two seconds and
\* a half; one that is off line still sleeps when the server notices.
Silences ==
  /\ client # "offline" => seq <= MaxSeq
  /\ client = "pausing" => asleep <= 2
  /\ ok => waited = 0
  /\ recv_time /\ client # "offline" => waited <= 2
  /\ recv_time /\ client = "pausing" => waited + asleep <= 2
  /\ recv_time /\ client = "offline" => waited + asleep >= Offline

\* HeartbeatTypeOK in two parts, as the provers need it.
Flags == ok \in BOOLEAN /\ recv_time \in BOOLEAN
Values ==
  /\ client \in {"ready", "waiting", "pausing", "offline"}
  /\ seq \in 0..(MaxSeq + 1) /\ asleep \in 0..Offline /\ waited \in 0..Silence
  /\ beat \in {None} \cup 1..MaxSeq
  /\ last_seq \in {None} \cup 1..MaxSeq
  /\ first \in {None} \cup 1..MaxSeq
  /\ dropped \subseteq 1..MaxSeq
  /\ reported \subseteq 1..MaxSeq

HeartbeatInv == Flags /\ Values /\ Dialogue /\ Session /\ Silences

USE HeartbeatAssumption DEF HeartbeatAssumption, None, Silence, Offline, Pauses

LEMMA InitHeartbeat == HeartbeatInit => HeartbeatInv
<1> SUFFICES ASSUME HeartbeatInit PROVE HeartbeatInv
  OBVIOUS
<1>1. Flags
  BY DEF HeartbeatInit, Flags
<1>2. Values /\ Dialogue /\ Silences
  BY DEF HeartbeatInit, Values, Dialogue, Silences
<1>3. Session
  BY DEF HeartbeatInit, Session, Past
<1> QED BY <1>1, <1>2, <1>3 DEF HeartbeatInv

LEMMA StepHeartbeat == HeartbeatInv /\ [HeartbeatNext]_heartbeatVars => HeartbeatInv'
<1> SUFFICES ASSUME HeartbeatInv, [HeartbeatNext]_heartbeatVars PROVE HeartbeatInv'
  OBVIOUS
<1>0. Flags /\ Values /\ Dialogue /\ Session /\ Silences
  BY DEF HeartbeatInv
<1> USE <1>0 DEF Values
<1>1. CASE SkipBeat
  <2>1. Flags'
    BY <1>1 DEF SkipBeat, Beat, Flags
  <2>2. Values' /\ Dialogue' /\ Silences'
    BY <1>1 DEF SkipBeat, Beat, Dialogue, Silences
  <2>3. Session'
    BY <1>1 DEF SkipBeat, Beat, Dialogue, Session, Past
  <2> QED BY <2>1, <2>2, <2>3 DEF HeartbeatInv
<1>2. CASE GoOffline
  <2>1. Flags'
    BY <1>2 DEF GoOffline, Beat, Flags
  <2>2. Values' /\ Dialogue' /\ Silences'
    BY <1>2 DEF GoOffline, Beat, Dialogue, Silences
  <2>3. Session'
    BY <1>2 DEF GoOffline, Beat, Dialogue, Session, Past
  <2> QED BY <2>1, <2>2, <2>3 DEF HeartbeatInv
<1>3. CASE SendBeat
  <2>1. Flags'
    BY <1>3 DEF SendBeat, Beat, Flags
  <2>2. Values' /\ Dialogue' /\ Silences'
    BY <1>3 DEF SendBeat, Beat, Dialogue, Silences
  <2>3. Session'
    BY <1>3 DEF SendBeat, Beat, Dialogue, Session, Past
  <2> QED BY <2>1, <2>2, <2>3 DEF HeartbeatInv
<1>4. CASE GetAnswer
  <2>1. Flags'
    BY <1>4 DEF GetAnswer, Flags
  <2>2. /\ client = "waiting" /\ waited = 0 /\ beat = None
        /\ first # None /\ last_seq = seq /\ seq <= MaxSeq
    BY <1>4 DEF GetAnswer, Dialogue, Silences, Session
  <2>3. /\ client' = "pausing" /\ asleep' \in {1, 2} /\ waited' = waited
        /\ seq' = seq /\ beat' = beat /\ last_seq' = last_seq
        /\ dropped' = dropped /\ reported' = reported /\ first' = first
    BY <1>4 DEF GetAnswer
  <2>4. ~ok' /\ (recv_time' => recv_time)
    BY <1>4 DEF GetAnswer
  <2>5. Values'
    BY <2>3
  <2>6. Dialogue'
    BY <2>2, <2>3, <2>4 DEF Dialogue
  <2>7. Silences'
    <3>1. waited' = 0 /\ seq' <= MaxSeq
      BY <2>2, <2>3
    <3>2. CASE asleep' = 1
      BY <2>3, <3>1, <3>2 DEF Silences
    <3>3. CASE asleep' = 2
      BY <2>3, <3>1, <3>3 DEF Silences
    <3> QED BY <2>3, <3>2, <3>3
  <2>8. Session'
    BY <2>2, <2>3, <2>4 DEF Session, Past
  <2> QED BY <2>1, <2>5, <2>6, <2>7, <2>8 DEF HeartbeatInv
<1>5. CASE Wake
  <2>1. Flags'
    BY <1>5 DEF Wake, Flags
  <2>2. beat = None /\ ~ok
    BY <1>5 DEF Wake, Dialogue
  <2>3. /\ client' = "ready" /\ asleep' = asleep /\ waited' = waited
        /\ beat' = beat /\ last_seq' = last_seq
    BY <1>5 DEF Wake
  <2>4. ~ok'
    BY <1>5, <2>2 DEF Wake
  <2>5. recv_time' => recv_time
    BY <1>5 DEF Wake
  <2>6. CASE client = "offline"
    <3>1. seq' = 0 /\ dropped' = {} /\ reported' = {} /\ first' = None
      BY <1>5, <2>6 DEF Wake
    <3>2. Values' /\ Dialogue'
      BY <2>2, <2>3, <2>4, <3>1 DEF Dialogue
    <3>3. Silences'
      BY <1>5, <2>3, <2>4, <2>5, <2>6, <3>1 DEF Wake, Silences
    <3>4. Session'
      BY <2>2, <2>3, <2>4, <3>1 DEF Session, Past
    <3> QED BY <2>1, <3>2, <3>3, <3>4 DEF HeartbeatInv
  <2>7. CASE client = "pausing"
    <3>1. seq' = seq /\ dropped' = dropped /\ reported' = reported /\ first' = first
      BY <1>5, <2>7 DEF Wake
    <3>2. Values' /\ Dialogue'
      BY <2>2, <2>3, <2>4, <3>1 DEF Dialogue
    <3>3. Silences'
      BY <2>3, <2>4, <2>5, <2>7, <3>1 DEF Silences
    <3>4. Session'
      BY <2>2, <2>3, <2>4, <2>7, <3>1 DEF Session, Past
    <3> QED BY <2>1, <3>2, <3>3, <3>4 DEF HeartbeatInv
  <2> QED BY <1>5, <2>6, <2>7 DEF Wake
<1>6. CASE ServeBeat
  <2>1. client = "waiting" /\ beat = seq /\ seq \in 1..MaxSeq /\ ~ok
    BY <1>6 DEF ServeBeat, Dialogue
  <2>2. Flags'
    BY <1>6 DEF ServeBeat, Flags
  <2>3. Values' /\ Dialogue' /\ Silences'
    BY <1>6, <2>1 DEF ServeBeat, Dialogue, Silences, Gap
  <2>4. /\ client' = "waiting" /\ seq' = seq /\ beat' = None
        /\ last_seq' = seq /\ dropped' = dropped
    BY <1>6, <2>1 DEF ServeBeat
  <2>5. \A d \in 1..MaxSeq : d \in reported' <=>
           d \in reported \/ (last_seq # None /\ last_seq < d /\ d < seq)
    BY <1>6, <2>1 DEF ServeBeat, Gap
  <2>6. first' = IF first = None THEN seq ELSE first
    BY <1>6, <2>1 DEF ServeBeat
  <2>7. Past = seq - 1 /\ Past' = seq
    BY <2>1, <2>4 DEF Past
  <2>8. reported' \subseteq 1..MaxSeq
    BY <2>3
  <2>9. ASSUME first = None PROVE Session'
    <3>1. /\ \A d \in 1..(seq - 1) : d \in dropped
          /\ \A d \in dropped : d <= seq - 1 /\ d \notin reported
          /\ \A d \in reported : d \in dropped
      BY <2>1, <2>7, <2>9 DEF Session
    <3>2. first' = seq
      BY <2>6, <2>9
    <3>3. \A d \in dropped : d > first' /\ d < seq => d \in reported'
      BY <3>2
    <3>4. \A d \in reported' : d \in dropped
      BY <2>1, <2>5, <2>8, <3>1
    <3> QED BY <2>1, <2>4, <2>7, <3>1, <3>2, <3>3, <3>4 DEF Session
  <2>10. ASSUME first # None PROVE Session'
    <3>1. /\ last_seq \in 1..(seq - 1) /\ last_seq \notin dropped /\ first \in 1..last_seq
          /\ \A d \in 1..(seq - 1) : d > last_seq => d \in dropped
          /\ \A d \in dropped : d <= seq - 1 /\ (d > first /\ d < last_seq => d \in reported)
          /\ \A d \in reported : d \in dropped
      BY <2>1, <2>7, <2>10 DEF Session
    <3>2. first' = first
      BY <2>6, <2>10
    <3>3. \A d \in dropped : d > first' /\ d < seq => d \in reported'
      BY <2>1, <2>5, <3>1, <3>2
    <3>4. \A d \in reported' : d \in dropped
      BY <2>1, <2>5, <2>8, <3>1
    <3> QED BY <2>1, <2>4, <2>7, <2>10, <3>1, <3>2, <3>3, <3>4 DEF Session
  <2> QED BY <2>2, <2>3, <2>9, <2>10 DEF HeartbeatInv
<1>7. CASE ServerTimeout
  <2>1. Flags'
    BY <1>7 DEF ServerTimeout, Flags
  <2>2. Values' /\ Dialogue' /\ Silences'
    BY <1>7 DEF ServerTimeout, Dialogue, Silences
  <2>3. Session'
    BY <1>7 DEF ServerTimeout, Dialogue, Session, Past
  <2> QED BY <2>1, <2>2, <2>3 DEF HeartbeatInv
<1>8. CASE Tick
  <2>1. Flags'
    BY <1>8 DEF Tick, AllRest, Flags
  <2>2. Values' /\ Dialogue' /\ Silences'
    BY <1>8 DEF Tick, AllRest, Dialogue, Silences
  <2>3. Session'
    BY <1>8 DEF Tick, AllRest, Dialogue, Session, Past
  <2> QED BY <2>1, <2>2, <2>3 DEF HeartbeatInv
<1>9. CASE UNCHANGED heartbeatVars
  <2>1. Flags'
    BY <1>9 DEF heartbeatVars, Flags
  <2>2. Values' /\ Dialogue' /\ Silences'
    BY <1>9 DEF heartbeatVars, Dialogue, Silences
  <2>3. Session'
    BY <1>9 DEF heartbeatVars, Dialogue, Session, Past
  <2> QED BY <2>1, <2>2, <2>3 DEF HeartbeatInv
<1> QED BY <1>1, <1>2, <1>3, <1>4, <1>5, <1>6, <1>7, <1>8, <1>9 DEF HeartbeatNext

LEMMA HeartbeatInvariance == HeartbeatSpec => []HeartbeatInv
  BY InitHeartbeat, StepHeartbeat, PTL DEF HeartbeatSpec

\* Both programs keep their types.
THEOREM HeartbeatTypeCorrect == HeartbeatSpec => []HeartbeatTypeOK
<1>1. HeartbeatInv => HeartbeatTypeOK
  BY DEF HeartbeatInv, Flags, Values, HeartbeatTypeOK
<1> QED BY <1>1, HeartbeatInvariance, PTL

\* Every line "lost" of heartbeat_server.py is true of the session, and none is
\* missing between two beats it got, for any number of beats and sessions.
THEOREM GapsAreReported == HeartbeatSpec => []ReportsGaps
<1>1. ASSUME HeartbeatInv PROVE ReportsGaps
  <2>1. reported \subseteq dropped
    BY <1>1 DEF HeartbeatInv, Session
  <2>2. ASSUME client = "pausing" PROVE \A d \in dropped : d > first => d \in reported
    <3>1. /\ \A d \in dropped : d \in 1..MaxSeq /\ d <= seq /\ d # last_seq
          /\ \A d \in dropped : d > first /\ d < last_seq => d \in reported
          /\ last_seq = seq /\ seq \in 0..(MaxSeq + 1)
      BY <1>1, <2>2 DEF HeartbeatInv, Values, Session, Dialogue, Past
    <3> QED BY <3>1
  <2> QED BY <2>1, <2>2 DEF ReportsGaps
<1> QED BY <1>1, HeartbeatInvariance, PTL

\* heartbeat_server.py prints "Client stopped" only while heartbeat_client.py
\* is off line.
THEOREM NoFalseAlarm == HeartbeatSpec => StoppedMeansOffline
<1>1. HeartbeatInv /\ [HeartbeatNext]_heartbeatVars => [recv_time /\ ~recv_time' => client = "offline"]_heartbeatVars
  BY DEF HeartbeatInv, Values, Silences, HeartbeatNext, heartbeatVars, SkipBeat, GoOffline, SendBeat, Beat,
         GetAnswer, Wake, ServeBeat, ServerTimeout, Tick
<1> QED BY <1>1, HeartbeatInvariance, PTL DEF HeartbeatSpec, StoppedMeansOffline

\* When heartbeat_client.py comes back, heartbeat_server.py has noticed that
\* it was off line.
THEOREM EveryAbsenceNoticed == HeartbeatSpec => OfflineIsNoticed
<1>1. HeartbeatInv /\ [HeartbeatNext]_heartbeatVars
        => [client = "offline" /\ client' = "ready" => ~recv_time']_heartbeatVars
  BY DEF HeartbeatInv, Values, Silences, HeartbeatNext, heartbeatVars, SkipBeat, GoOffline, SendBeat, Beat,
         GetAnswer, Wake, ServeBeat, ServerTimeout, Tick
<1> QED BY <1>1, HeartbeatInvariance, PTL DEF HeartbeatSpec, OfflineIsNoticed

HIDE HeartbeatAssumption DEF HeartbeatAssumption, None, Silence, Offline, Pauses

-----------------------------------------------------------------------------
\* The UDP ping, for any number of pings.  A ping is in one place only
\* (Apart): on its way to the server or back, ignored, or counted as the
\* answer to one ping.  Each ping sent is paid for by one turn of the loop
\* (LossNotUnderstated is inductive).
Turns == Len(answers) + (IF phase = "waiting" THEN 1 ELSE 0)

PingerTypes ==
  /\ phase \in {"sending", "waiting", "reporting", "done", "crashed"}
  /\ packets_received \in Nat
  /\ answers \in Seq(Nat) /\ Len(answers) <= PKGNUM
  /\ phase = "waiting" => Len(answers) < PKGNUM

Finite == IsFiniteSet(toServer) /\ IsFiniteSet(toClient) /\ IsFiniteSet(ignored)

\* Only pings that were sent are anywhere, and each is in one place.
Apart ==
  /\ \A n \in toServer : n \in 1..Turns /\ n \notin toClient /\ n \notin ignored
  /\ \A n \in toClient : n \in 1..Turns /\ n \notin ignored
  /\ \A n \in ignored : n \in 1..Turns
  /\ \A k \in 1..Len(answers) : answers[k] # 0 =>
       answers[k] \notin toServer /\ answers[k] \notin toClient /\ answers[k] \notin ignored

PingerInv == PingerTypes /\ Finite /\ Apart /\ AnswersCountOnce /\ LossNotUnderstated

USE PingerAssumption DEF PingerAssumption

LEMMA InitPinger == PingerInit => PingerInv
<1> SUFFICES ASSUME PingerInit PROVE PingerInv
  OBVIOUS
<1>1. PingerTypes /\ Apart /\ AnswersCountOnce
  BY DEF PingerInit, PingerTypes, Apart, AnswersCountOnce, Turns
<1>2. Finite /\ LossNotUnderstated
  BY FS_EmptySet DEF PingerInit, Finite, LossNotUnderstated
<1> QED BY <1>1, <1>2 DEF PingerInv

\* A turn of the loop that ends with answer a.
LEMMA Answered ==
  ASSUME PingerTypes, Apart, AnswersCountOnce, NEW a \in Nat,
         phase = "waiting", phase' = "sending", answers' = Append(answers, a),
         toServer' = toServer, ignored' = ignored, packets_received' \in Nat,
         \A n \in toClient' : n \in toClient /\ n # a,
         a # 0 => a \in toClient
  PROVE  PingerTypes' /\ Apart' /\ AnswersCountOnce' /\ Turns' = Turns
<1>1. /\ answers' \in Seq(Nat) /\ Len(answers') = Len(answers) + 1
      /\ \A k \in 1..Len(answers) : answers'[k] = answers[k]
      /\ answers'[Len(answers) + 1] = a /\ Len(answers) \in Nat
  BY DEF PingerTypes
<1>2. Turns = Len(answers) + 1 /\ Turns' = Turns
  BY <1>1 DEF Turns
<1>3. PingerTypes'
  BY <1>1 DEF PingerTypes
<1>4. a # 0 => a \in 1..(Len(answers) + 1) /\ a \notin toServer /\ a \notin ignored
  BY <1>2 DEF Apart
<1>5. \A k \in 1..Len(answers') : k \in 1..Len(answers) \/ (k = Len(answers) + 1 /\ answers'[k] = a)
  BY <1>1
<1>6. Apart'
  BY <1>1, <1>2, <1>4, <1>5 DEF Apart
<1>7. \A k \in 1..Len(answers) : answers[k] # 0 => answers[k] # a
  BY DEF Apart
<1>8. DOMAIN answers = 1..Len(answers) /\ DOMAIN answers' = 1..Len(answers')
  BY <1>1 DEF PingerTypes
<1>9. AnswersCountOnce'
  BY <1>1, <1>4, <1>5, <1>7, <1>8 DEF AnswersCountOnce
<1> QED BY <1>2, <1>3, <1>6, <1>9

\* A step of the network or the server: nothing comes to the client that was
\* not on its way, and each ping stays in one place.
LEMMA Moved ==
  ASSUME PingerTypes, Apart, AnswersCountOnce,
         phase' = phase, answers' = answers, packets_received' = packets_received,
         \A n \in toServer' : n \in toServer /\ n \notin toClient' /\ n \notin ignored',
         \A n \in toClient' : (n \in toServer \/ n \in toClient) /\ n \notin ignored',
         \A n \in ignored' : n \in toServer \/ n \in ignored
  PROVE  PingerTypes' /\ Apart' /\ AnswersCountOnce' /\ Turns' = Turns
<1>1. Turns' = Turns
  BY DEF Turns
<1>2. PingerTypes' /\ AnswersCountOnce'
  BY DEF PingerTypes, AnswersCountOnce
<1>3. Apart'
  BY <1>1 DEF Apart
<1> QED BY <1>1, <1>2, <1>3

LEMMA StepPinger == PingerInv /\ [PingerNext]_pingerVars => PingerInv'
<1> SUFFICES ASSUME PingerInv, [PingerNext]_pingerVars PROVE PingerInv'
  OBVIOUS
<1>0. PingerTypes /\ Finite /\ Apart /\ AnswersCountOnce /\ LossNotUnderstated
  BY DEF PingerInv
<1>a. /\ Cardinality(toServer) \in Nat /\ Cardinality(toClient) \in Nat
      /\ Cardinality(ignored) \in Nat /\ packets_received \in Nat /\ Len(answers) \in Nat
  BY <1>0, FS_CardinalityType DEF Finite, PingerTypes
<1>b. packets_received + Cardinality(ignored) + Cardinality(toServer)
        + Cardinality(toClient) <= Turns /\ Turns \in Nat
  BY <1>0, <1>a DEF LossNotUnderstated, Turns
<1>1. CASE SendPing
  <2>1. toServer' = toServer \cup {Turns + 1} /\ Turns' = Turns + 1 /\ answers' = answers
    BY <1>1, <1>a DEF SendPing, Turns
  <2>2. PingerTypes' /\ AnswersCountOnce'
    BY <1>0, <1>1 DEF SendPing, PingerTypes, AnswersCountOnce
  <2>3. Turns + 1 \notin toServer /\ Turns + 1 \notin toClient /\ Turns + 1 \notin ignored
    BY <1>0, <1>b DEF Apart
  <2>4. \A k \in 1..Len(answers) : answers[k] # Turns + 1
    <3> TAKE k \in 1..Len(answers)
    <3> answers[k] # 0 => answers[k] <= k
      BY <1>0 DEF AnswersCountOnce, PingerTypes
    <3> QED BY <1>1, <1>a, <1>b DEF Turns, SendPing
  <2>5. Apart'
    BY <1>0, <1>1, <1>b, <2>1, <2>3, <2>4 DEF SendPing, Apart
  <2>6. Finite' /\ Cardinality(toServer') = Cardinality(toServer) + 1
    <3>1. toClient' = toClient /\ ignored' = ignored
      BY <1>1 DEF SendPing
    <3>2. IsFiniteSet(toServer')
      BY <1>0, <2>1, FS_AddElement DEF Finite
    <3>3. Cardinality(toServer') = Cardinality(toServer) + 1
      BY <1>0, <2>1, <2>3, FS_AddElement DEF Finite
    <3> QED BY <1>0, <3>1, <3>2, <3>3 DEF Finite
  <2>7. LossNotUnderstated'
    BY <1>1, <1>a, <1>b, <2>1, <2>6 DEF SendPing, LossNotUnderstated, Turns
  <2> QED BY <2>2, <2>5, <2>6, <2>7 DEF PingerInv
<1>2. ASSUME NEW n \in toClient, ReceiveAnswer(n) PROVE PingerInv'
  <2>1. /\ phase = "waiting" /\ phase' = "sending" /\ answers' = Append(answers, n)
        /\ toServer' = toServer /\ ignored' = ignored /\ toClient' = toClient \ {n}
        /\ packets_received' = packets_received + 1
    BY <1>2 DEF ReceiveAnswer
  <2>2. n \in Nat
    BY <1>0, <1>b DEF Apart
  <2>3. PingerTypes' /\ Apart' /\ AnswersCountOnce' /\ Turns' = Turns
    BY <1>0, <1>a, <2>1, <2>2, Answered
  <2>4. Finite' /\ Cardinality(toClient') = Cardinality(toClient) - 1
    BY <1>0, <2>1, FS_RemoveElement DEF Finite
  <2>5. LossNotUnderstated'
    BY <1>a, <1>b, <2>1, <2>3, <2>4 DEF LossNotUnderstated, Turns
  <2> QED BY <2>3, <2>4, <2>5 DEF PingerInv
<1>3. CASE Timeout
  <2>1. /\ phase = "waiting" /\ phase' = "sending" /\ answers' = Append(answers, 0)
        /\ toServer' = toServer /\ ignored' = ignored /\ toClient' = toClient
        /\ packets_received' = packets_received
    BY <1>3 DEF Timeout
  <2>2. \A n \in toClient : n # 0
    BY <1>0, <1>b DEF Apart
  <2>3. PingerTypes' /\ Apart' /\ AnswersCountOnce' /\ Turns' = Turns
    BY <1>0, <1>a, <2>1, <2>2, Answered
  <2>4. Finite' /\ LossNotUnderstated'
    BY <1>0, <1>a, <1>b, <2>1, <2>3 DEF Finite, LossNotUnderstated, Turns
  <2> QED BY <2>3, <2>4 DEF PingerInv
<1>4. CASE PrintLoss \/ PrintRtts
  BY <1>0, <1>4 DEF PrintLoss, PrintRtts, PingerInv, PingerTypes, Finite, Apart, Turns,
                    AnswersCountOnce, LossNotUnderstated
<1>5. ASSUME NEW n \in toServer, NEW answer \in BOOLEAN, Serve(n, answer) PROVE PingerInv'
  <2>1. /\ phase' = phase /\ answers' = answers /\ packets_received' = packets_received
        /\ toServer' = toServer \ {n} /\ n \notin toClient /\ n \notin ignored
        /\ \/ toClient' = toClient \cup {n} /\ ignored' = ignored
           \/ ignored' = ignored \cup {n} /\ toClient' = toClient
    BY <1>0, <1>5 DEF Serve, Apart
  <2>2. PingerTypes' /\ Apart' /\ AnswersCountOnce' /\ Turns' = Turns
    <3>1. /\ \A m \in toServer : m \notin toClient /\ m \notin ignored
          /\ \A m \in toClient : m \notin ignored
      BY <1>0 DEF Apart
    <3> QED BY <1>0, <2>1, <3>1, Moved
  <2>3. IsFiniteSet(toServer') /\ Cardinality(toServer') = Cardinality(toServer) - 1
    BY <1>0, <2>1, FS_RemoveElement DEF Finite
  <2>4. /\ IsFiniteSet(toClient') /\ IsFiniteSet(ignored')
        /\ \/ Cardinality(toClient') = Cardinality(toClient) + 1 /\ ignored' = ignored
           \/ Cardinality(ignored') = Cardinality(ignored) + 1 /\ toClient' = toClient
    BY <1>0, <2>1, FS_AddElement DEF Finite
  <2>5. LossNotUnderstated'
    BY <1>a, <1>b, <2>1, <2>2, <2>3, <2>4 DEF LossNotUnderstated, Turns
  <2> QED BY <2>2, <2>3, <2>4, <2>5 DEF PingerInv, Finite
<1>6. ASSUME NEW n \in toServer \cup toClient, LosePing(n) PROVE PingerInv'
  <2>1. /\ phase' = phase /\ answers' = answers /\ packets_received' = packets_received
        /\ toServer' = toServer \ {n} /\ toClient' = toClient \ {n} /\ ignored' = ignored
    BY <1>6 DEF LosePing
  <2>2. PingerTypes' /\ Apart' /\ AnswersCountOnce' /\ Turns' = Turns
    <3>1. /\ \A m \in toServer : m \notin toClient /\ m \notin ignored
          /\ \A m \in toClient : m \notin ignored
      BY <1>0 DEF Apart
    <3> QED BY <1>0, <2>1, <3>1, Moved
  <2>3. /\ IsFiniteSet(toServer') /\ Cardinality(toServer') <= Cardinality(toServer)
        /\ IsFiniteSet(toClient') /\ Cardinality(toClient') <= Cardinality(toClient)
        /\ Cardinality(toServer') \in Nat /\ Cardinality(toClient') \in Nat
    BY <1>0, <2>1, FS_Subset, FS_CardinalityType DEF Finite
  <2>4. Finite' /\ LossNotUnderstated'
    BY <1>0, <1>a, <1>b, <2>1, <2>2, <2>3 DEF Finite, LossNotUnderstated, Turns
  <2> QED BY <2>2, <2>4 DEF PingerInv
<1>7. CASE UNCHANGED pingerVars
  BY <1>0, <1>7 DEF pingerVars, PingerInv, PingerTypes, Finite, Apart, Turns, AnswersCountOnce,
                    LossNotUnderstated
<1> QED BY <1>1, <1>2, <1>3, <1>4, <1>5, <1>6, <1>7 DEF PingerNext, PingClient

LEMMA PingerInvariance == PingerSpec => []PingerInv
  BY InitPinger, StepPinger, PTL DEF PingerSpec

\* No answer is counted for two pings, however late it comes.
THEOREM NoAnswerTwice == PingerSpec => []AnswersCountOnce
<1>1. PingerInv => AnswersCountOnce
  BY DEF PingerInv
<1> QED BY <1>1, PingerInvariance, PTL

\* The loss rate ping_client.py prints is never too low.
THEOREM LossIsReal == PingerSpec => []LossNotUnderstated
<1>1. PingerInv => LossNotUnderstated
  BY DEF PingerInv
<1> QED BY <1>1, PingerInvariance, PTL

\* The client's variables keep their types, packets_received at most PKGNUM.
THEOREM PingerTypeCorrect == PingerSpec => []PingerTypeOK
<1>1. ASSUME PingerInv PROVE PingerTypeOK
  <2>1. PingerTypes /\ Finite /\ Apart /\ AnswersCountOnce /\ LossNotUnderstated
    BY <1>1 DEF PingerInv
  <2>2. Turns \in 0..PKGNUM /\ Len(answers) \in Nat
    BY <2>1 DEF PingerTypes, Turns
  <2>3. packets_received \in 0..PKGNUM
    <3>1. /\ Cardinality(toServer) \in Nat /\ Cardinality(toClient) \in Nat
          /\ Cardinality(ignored) \in Nat /\ packets_received \in Nat
      BY <2>1, FS_CardinalityType DEF Finite, PingerTypes
    <3> QED BY <2>1, <2>2, <3>1 DEF LossNotUnderstated, Turns
  <2>4. toServer \subseteq Ping /\ toClient \subseteq Ping /\ ignored \subseteq Ping
    BY <2>1, <2>2 DEF Apart, Ping
  <2>5. \A k \in 1..Len(answers) : answers[k] \in 0..PKGNUM
    <3> TAKE k \in 1..Len(answers)
    <3>1. answers[k] \in Nat /\ (answers[k] # 0 => answers[k] <= k)
      BY <2>1 DEF AnswersCountOnce, PingerTypes
    <3> QED BY <2>1, <2>2, <3>1 DEF PingerTypes
  <2>6. answers \in Seq(0..PKGNUM)
    BY <2>1, <2>5 DEF PingerTypes
  <2> QED BY <2>1, <2>3, <2>4, <2>6 DEF PingerTypeOK, PingerTypes
<1> QED BY <1>1, PingerInvariance, PTL

HIDE PingerAssumption DEF PingerAssumption
-----------------------------------------------------------------------------
\* The HTTP programs, for any clients, pages and lengths: each connection is
\* in one place (Queue, OneBusy), and what its client got so far belongs to
\* one answer (WebInv) or one reply (ProxyInv).
HIDE DEF None, Silence, Offline, Pauses

USE TcpAssumption, ProxyAssumption DEF TcpAssumption, ProxyAssumption

Where == Busy \cup {"new", "closed", "aborted"}

\* A connection that is not accepted yet waits once in the backlog.
Queue ==
  /\ \A i \in 1..Len(backlog) : at[backlog[i]] = "new" /\ peer[backlog[i]] # "away"
  /\ \A i, j \in 1..Len(backlog) : backlog[i] = backlog[j] => i = j
  /\ \A c \in Client : peer[c] = "away" => at[c] = "new"

\* Only the program with threads is with two connections at a time.
OneBusy ==
  /\ ~threaded => \A c, d \in Client : at[c] \in Busy /\ at[d] \in Busy => c = d
  /\ server = "ended" => \A c \in Client : at[c] \notin Busy

\* How an exception leaves a connection.
Fades(c) ==
  /\ peer'[c] \in {peer[c], "reset"}
  /\ peer[c] = "away" => peer'[c] = "away"
  /\ at'[c] \in {at[c], "aborted"}
  /\ at[c] \notin Busy => at'[c] = at[c]

\* What an uncaught exception does to all connections.
LEMMA UncaughtFades ==
  ASSUME HttpTypeOK, NEW c \in Client, at[c] \in Busy, Uncaught(c) \/ EndsTheProgram
  PROVE  /\ peer' \in [Client -> {"away", "here", "deaf", "left", "reset"}]
         /\ at' \in [Client -> Where] /\ server' \in {"running", "ended"}
         /\ \A d \in Client : Fades(d)
         /\ Uncaught(c) => at'[c] = "aborted"
         /\ server' = "ended" /\ server = "running" => \A d \in Client : at'[d] \notin Busy
         /\ server' = server \/ server' = "ended"
<1>1. CASE EndsTheProgram
  <2>1. server' = "ended"
    BY <1>1 DEF EndsTheProgram
  <2>2. /\ at' = [d \in Client |-> IF at[d] \in Busy THEN "aborted" ELSE at[d]]
        /\ peer' = [d \in Client |-> IF peer[d] = "away" \/ at[d] = "closed"
                                     THEN peer[d] ELSE "reset"]
    BY <1>1 DEF EndsTheProgram
  <2> QED BY <2>1, <2>2 DEF HttpTypeOK, Fades, Where, Busy
<1>2. CASE threaded /\ Uncaught(c)
  <2>1. at' = [at EXCEPT ![c] = "aborted"] /\ peer' = peer /\ server' = server
    BY <1>2 DEF Uncaught, Goes
  <2> QED BY <2>1 DEF HttpTypeOK, Fades, Where, Busy
<1> QED BY <1>1, <1>2 DEF Uncaught

LEMMA GoesTo ==
  ASSUME HttpTypeOK, NEW c \in Client, NEW where \in Where, Goes(c, where)
  PROVE  /\ peer' = peer /\ server' = server /\ at' \in [Client -> Where]
         /\ at'[c] = where /\ \A d \in Client : d # c => at'[d] = at[d]
BY DEF HttpTypeOK, Goes, Where

\* A step with one connection: it goes on, or an exception ends its handling.
Moves(c) ==
  /\ at[c] \in Busy /\ server = "running"
  /\ peer' \in [Client -> {"away", "here", "deaf", "left", "reset"}]
  /\ at' \in [Client -> Where] /\ server' \in {"running", "ended"}
  /\ asked' = asked /\ backlog' = backlog /\ program' = program
  /\ connectionSocket' = connectionSocket
  /\ \A d \in Client : d # c => Fades(d)
  /\ peer'[c] \in {peer[c], "reset"} /\ (peer[c] = "away" => peer'[c] = "away")
  /\ at'[c] \notin {"new", "recv"}
  /\ server' = "ended" => \A d \in Client : at'[d] \notin Busy

LEMMA HandlerMoves ==
  ASSUME HttpTypeOK, NEW c \in Client, Handle(c)
  PROVE  Moves(c)
<1>1. ASSUME NEW where \in Where \ {"new", "recv"}, Goes(c, where) \/ Uncaught(c),
             at[c] \in Busy, server = "running"
      PROVE  /\ peer' \in [Client -> {"away", "here", "deaf", "left", "reset"}]
             /\ at' \in [Client -> Where] /\ server' \in {"running", "ended"}
             /\ \A d \in Client : d # c => Fades(d)
             /\ peer'[c] \in {peer[c], "reset"} /\ (peer[c] = "away" => peer'[c] = "away")
             /\ at'[c] \notin {"new", "recv"}
             /\ server' = "ended" => \A d \in Client : at'[d] \notin Busy
  <2>1. CASE Uncaught(c)
    BY <1>1, <2>1, UncaughtFades DEF Fades
  <2>2. CASE Goes(c, where)
    BY <1>1, <2>2, GoesTo DEF Fades, HttpTypeOK
  <2> QED BY <1>1, <2>1, <2>2
<1>2. ASSUME UNCHANGED <<at, server, peer>>, at[c] \in Busy \ {"recv"}, server = "running"
      PROVE  /\ peer' \in [Client -> {"away", "here", "deaf", "left", "reset"}]
             /\ at' \in [Client -> Where] /\ server' \in {"running", "ended"}
             /\ \A d \in Client : d # c => Fades(d)
             /\ peer'[c] \in {peer[c], "reset"} /\ (peer[c] = "away" => peer'[c] = "away")
             /\ at'[c] \notin {"new", "recv"}
             /\ server' = "ended" => \A d \in Client : at'[d] \notin Busy
  BY <1>2 DEF HttpTypeOK, Fades, Where, Busy
<1>3. CASE WebHandler(c)
  BY <1>1, <1>2, <1>3 DEF WebHandler, Receive, Send, AnswerNotFound, Moves, Handling, Busy, Where
<1>4. CASE ProxyHandler(c) /\ program = "proxy_server"
  <2>1. CASE Recv(c) \/ Lookup(c)
    BY <1>1, <1>2, <2>1 DEF Recv, Lookup, Moves, Handling, Busy, Where
  <2>2. CASE SendLine(c) \/ Fetch(c)
    BY <1>1, <1>2, <2>2 DEF SendLine, Fetch, Moves, Handling, Busy, Where
  <2>3. CASE Read(c)
    BY <1>1, <1>2, <2>3 DEF Read, Moves, Handling, Busy, Where
  <2>4. CASE Reply(c) \/ OpenCache(c) \/ WriteCache(c)
    BY <1>1, <1>2, <2>4 DEF Reply, OpenCache, WriteCache, Moves, Handling, Busy, Where
  <2> QED BY <1>4, <2>1, <2>2, <2>3, <2>4 DEF ProxyHandler
<1> QED BY <1>3, <1>4 DEF Handle

-----------------------------------------------------------------------------
\* The backlog, and how many connections a program is with.

LEMMA StepQueue ==
  ASSUME HttpTypeOK, Queue, OneBusy, [HttpNext]_httpVars
  PROVE  Queue' /\ OneBusy'
<1>0. /\ peer \in [Client -> {"away", "here", "deaf", "left", "reset"}]
      /\ at \in [Client -> Where] /\ backlog \in Seq(Client)
  BY DEF HttpTypeOK, Where
<1>1. ASSUME NEW c \in Client, Connect(c),
             UNCHANGED <<program, server, connectionSocket, at>>
      PROVE  Queue' /\ OneBusy'
  <2>1. OneBusy'
    BY <1>1 DEF OneBusy, threaded
  <2>2. /\ backlog' = Append(backlog, c) /\ peer' = [peer EXCEPT ![c] = "here"]
        /\ peer[c] = "away" /\ at[c] = "new" /\ at' = at
    BY <1>1 DEF Connect, Queue
  <2>3. \A i \in 1..Len(backlog) : backlog[i] # c
    BY <2>2 DEF Queue
  <2>4. /\ Len(backlog') = Len(backlog) + 1 /\ backlog'[Len(backlog) + 1] = c
        /\ \A i \in 1..Len(backlog) : backlog'[i] = backlog[i] /\ backlog[i] \in Client
        /\ \A i \in 1..Len(backlog') : i \in 1..Len(backlog) \/ i = Len(backlog) + 1
    BY <1>0, <2>2
  <2>5. \A d \in Client : peer'[d] = IF d = c THEN "here" ELSE peer[d]
    BY <1>0, <2>2
  <2>6. Queue'
    BY <2>2, <2>3, <2>4, <2>5 DEF Queue
  <2> QED BY <2>1, <2>6
<1>2. ASSUME NEW c \in Client, Ask(c) \/ StopReading(c) \/ Leave(c) \/ Reset(c),
             UNCHANGED <<program, server, connectionSocket, at>>
      PROVE  Queue' /\ OneBusy'
  <2>1. OneBusy'
    BY <1>2 DEF OneBusy, threaded
  <2>2. backlog' = backlog /\ \A d \in Client : peer'[d] = "away" <=> peer[d] = "away"
    BY <1>0, <1>2 DEF Ask, StopReading, Leave, Reset, There
  <2>3. \A i \in 1..Len(backlog) : backlog[i] \in Client
    BY <1>0
  <2>4. Queue'
    BY <1>2, <2>2, <2>3 DEF Queue
  <2> QED BY <2>1, <2>4
<1>3. CASE Accept
  <2>1. /\ backlog # << >> /\ backlog' = Tail(backlog) /\ peer' = peer
        /\ at' = [at EXCEPT ![Head(backlog)] = "recv"]
        /\ server = "running" /\ server' = server /\ program' = program
        /\ threaded \/ \A c \in Client : at[c] \notin Busy
    BY <1>3 DEF Accept, MayAccept
  <2>2. /\ Head(backlog) = backlog[1] /\ Len(backlog') = Len(backlog) - 1
        /\ \A i \in 1..Len(backlog') : backlog'[i] = backlog[i + 1] /\ i + 1 \in 1..Len(backlog)
        /\ \A i \in 1..Len(backlog) : backlog[i] \in Client
        /\ 1 \in 1..Len(backlog)
    BY <1>0, <2>1
  <2>3. \A d \in Client : at'[d] = IF d = backlog[1] THEN "recv" ELSE at[d]
    BY <1>0, <2>1, <2>2
  <2>4. OneBusy'
    BY <2>1, <2>3 DEF OneBusy, threaded
  <2>5. \A i \in 1..Len(backlog') : backlog'[i] # backlog[1]
    BY <2>2 DEF Queue
  <2>6. peer[backlog[1]] # "away"
    BY <2>2 DEF Queue
  <2>7. \A i, j \in 1..Len(backlog') : backlog'[i] = backlog'[j] => i = j
    <3> TAKE i, j \in 1..Len(backlog')
    <3> HAVE backlog'[i] = backlog'[j]
    <3>1. i + 1 = j + 1
      BY <2>2 DEF Queue
    <3> QED BY <3>1
  <2>8. Queue'
    BY <2>1, <2>2, <2>3, <2>5, <2>6, <2>7 DEF Queue
  <2> QED BY <2>4, <2>8
<1>4. ASSUME NEW c \in Client, Handle(c) PROVE Queue' /\ OneBusy'
  <2>1. Moves(c)
    BY <1>4, HandlerMoves
  <2>2. \A i \in 1..Len(backlog) : backlog[i] \in Client
    BY <1>0
  <2>3. \A d \in Client : at[d] \notin Busy => at'[d] = at[d] /\ (peer'[d] = "away" <=> peer[d] = "away")
    BY <1>0, <2>1 DEF Moves, Fades
  <2>4. \A d \in Client : peer'[d] = "away" => peer[d] = "away"
    BY <2>1 DEF Moves, Fades
  <2>5. "new" \notin Busy
    BY DEF Busy
  <2>6. Queue'
    BY <2>1, <2>2, <2>3, <2>4, <2>5 DEF Queue, Moves
  <2>7. \A d \in Client : d # c /\ at'[d] \in Busy => at[d] \in Busy
    BY <2>1 DEF Moves, Fades, Busy
  <2>8. OneBusy'
    BY <2>1, <2>7 DEF OneBusy, Moves, threaded
  <2> QED BY <2>6, <2>8
<1>5. CASE Interrupt
  <2>1. EndsTheProgram /\ backlog' = backlog /\ program' = program /\ server = "running"
    BY <1>5 DEF Interrupt
  <2>2. /\ at' = [d \in Client |-> IF at[d] \in Busy THEN "aborted" ELSE at[d]]
        /\ peer' = [d \in Client |-> IF peer[d] = "away" \/ at[d] = "closed"
                                     THEN peer[d] ELSE "reset"]
    BY <2>1 DEF EndsTheProgram
  <2>3. \A i \in 1..Len(backlog) : backlog[i] \in Client
    BY <1>0
  <2>4. \A d \in Client : at'[d] \notin Busy
    BY <2>2 DEF Busy
  <2>5. OneBusy'
    BY <2>4 DEF OneBusy
  <2>6. /\ \A d \in Client : at[d] = "new" => at'[d] = "new"
        /\ \A d \in Client : peer'[d] = "away" <=> peer[d] = "away"
    BY <2>2 DEF Busy
  <2>7. Queue'
    BY <2>1, <2>3, <2>6 DEF Queue
  <2> QED BY <2>5, <2>7
<1>6. CASE Restart
  BY <1>0, <1>6 DEF Restart, Queue, OneBusy, threaded
<1>7. CASE UNCHANGED httpVars
  BY <1>7 DEF httpVars, tcpVars, clients, Queue, OneBusy, threaded
<1> QED BY <1>1, <1>2, <1>3, <1>4, <1>5, <1>6, <1>7 DEF HttpNext, ClientStep

-----------------------------------------------------------------------------
\* The web servers: what was sent on a connection is the beginning of the
\* answer to what its client asked.

WebTypes ==
  /\ asked \in [Client -> Request \cup {Nothing}]
  /\ program # "proxy_server" => got \in [Client -> Seq(Char)]
  /\ sent \in [Client -> 0..(Length + 1)]

Right(c) ==
  IF asked[c] \in Page THEN got[c] = Answer(asked[c])
                       ELSE asked[c] = Missing /\ got[c] = NotFound

Web(c) ==
  /\ at[c] \in {"new", "recv", "send", "except", "closed", "aborted"}
  /\ at[c] \in {"new", "recv"} => got[c] = << >> /\ sent[c] = 0
  /\ at[c] = "send" =>
       /\ asked[c] \in Page /\ Len(got[c]) = sent[c]
       /\ \A k \in 1..sent[c] : got[c][k] = Answer(asked[c])[k]
  /\ at[c] = "except" => peer[c] = "reset" \/ (asked[c] = Missing /\ got[c] = << >>)
  /\ at[c] = "closed" /\ There(c) => Right(c)

WebInv == program # "proxy_server" => \A c \in Client : Web(c)

LEMMA AnswerType ==
  ASSUME NEW file \in Page
  PROVE  /\ Answer(file) \in Seq(Char) /\ Len(Answer(file)) = Length + 1
         /\ NotFound \in Seq(Char)
<1>1. <<"200", 0>> \in Char /\ <<"404", 0>> \in Char /\ \A k \in 1..Length : <<file, k>> \in Char
  BY DEF Char
<1>2. <<<<"200", 0>>>> \in Seq(Char) /\ <<<<"404", 0>>>> \in Seq(Char)
  BY <1>1
<1>3. [k \in 1..Length |-> <<file, k>>] \in Seq(Char)
  BY <1>1
<1> QED BY <1>2, <1>3 DEF Answer, NotFound

LEMMA NotFoundType == NotFound \in Seq(Char)
<1>1. <<"404", 0>> \in Char
  BY DEF Char
<1> QED BY <1>1 DEF NotFound

\* A connection no step but an exception is about.
LEMMA WebOther ==
  ASSUME NEW c \in Client, Web(c), Fades(c),
         got'[c] = got[c], asked'[c] = asked[c], sent'[c] = sent[c]
  PROVE  Web(c)'
BY DEF Web, Fades, Right, There

LEMMA StepWeb ==
  ASSUME HttpTypeOK, WebTypes, Queue, WebInv, [HttpNext]_httpVars
  PROVE  WebTypes' /\ WebInv'
<1>0. /\ peer \in [Client -> {"away", "here", "deaf", "left", "reset"}]
      /\ at \in [Client -> Where] /\ backlog \in Seq(Client)
  BY DEF HttpTypeOK, Where
<1>1. ASSUME NEW c \in Client, Connect(c),
             UNCHANGED <<program, server, connectionSocket, at, sent>>
      PROVE  WebTypes' /\ WebInv'
  <2>1. /\ peer' = [peer EXCEPT ![c] = "here"] /\ at[c] = "new"
        /\ UNCHANGED <<asked, got, sent, at, program>>
    BY <1>1 DEF Connect, Queue
  <2>2. WebTypes'
    BY <2>1 DEF WebTypes
  <2>3. ASSUME program # "proxy_server", NEW d \in Client PROVE Web(d)'
    BY <1>0, <2>1, <2>3 DEF WebInv, Web, Right, There
  <2> QED BY <2>1, <2>2, <2>3 DEF WebInv
<1>2. ASSUME NEW c \in Client, Ask(c),
             UNCHANGED <<program, server, connectionSocket, at, sent>>
      PROVE  WebTypes' /\ WebInv'
  <2>1. /\ peer[c] = "here" /\ asked[c] = Nothing /\ asked' \in [Client -> Request \cup {Nothing}]
        /\ \A d \in Client : d # c => asked'[d] = asked[d]
        /\ UNCHANGED <<peer, got, sent, at, program>>
    BY <1>2 DEF Ask, WebTypes
  <2>2. WebTypes'
    BY <2>1 DEF WebTypes
  <2>3. ASSUME program # "proxy_server", NEW d \in Client PROVE Web(d)'
    BY <2>1, <2>3 DEF WebInv, Web, Right, Request, There
  <2> QED BY <2>1, <2>2, <2>3 DEF WebInv
<1>3. ASSUME NEW c \in Client, StopReading(c) \/ Leave(c) \/ Reset(c),
             UNCHANGED <<program, server, connectionSocket, at, sent>>
      PROVE  WebTypes' /\ WebInv'
  <2>1. /\ peer[c] # "reset" /\ \A d \in Client : There(d)' => There(d)
        /\ \A d \in Client : d # c => peer'[d] = peer[d]
        /\ UNCHANGED <<asked, got, sent, at, program>>
    BY <1>0, <1>3 DEF StopReading, Leave, Reset, There
  <2>2. WebTypes'
    BY <2>1 DEF WebTypes
  <2>3. ASSUME program # "proxy_server", NEW d \in Client PROVE Web(d)'
    BY <2>1, <2>3 DEF WebInv, Web, Right, There
  <2> QED BY <2>1, <2>2, <2>3 DEF WebInv
<1>4. CASE Accept /\ UNCHANGED sent
  <2>1. /\ backlog # << >> /\ at' = [at EXCEPT ![Head(backlog)] = "recv"]
        /\ UNCHANGED <<asked, got, sent, peer, program>>
    BY <1>4 DEF Accept
  <2>2. Head(backlog) = backlog[1] /\ 1 \in 1..Len(backlog) /\ backlog[1] \in Client
    BY <1>0, <2>1
  <2>3. at[backlog[1]] = "new"
    BY <2>2 DEF Queue
  <2>4. \A d \in Client : at'[d] = IF d = backlog[1] THEN "recv" ELSE at[d]
    BY <1>0, <2>1, <2>2
  <2>5. WebTypes'
    BY <2>1 DEF WebTypes
  <2>6. ASSUME program # "proxy_server", NEW d \in Client PROVE Web(d)'
    BY <2>1, <2>3, <2>4, <2>6 DEF WebInv, Web, Right, There
  <2> QED BY <2>1, <2>5, <2>6 DEF WebInv
<1>5. ASSUME NEW c \in Client, program # "proxy_server", WebHandler(c), Moves(c)
      PROVE  WebTypes' /\ WebInv'
  <2>1. asked' = asked /\ program' = program
    BY <1>5 DEF Moves
  <2>2. Web(c) /\ got[c] \in Seq(Char) /\ sent[c] \in 0..(Length + 1)
    BY <1>5 DEF WebInv, WebTypes
  <2>3. ASSUME \A d \in Client : d # c => got'[d] = got[d] /\ sent'[d] = sent[d], Web(c)'
        PROVE  WebInv'
    <3>1. \A d \in Client : d # c => Web(d) /\ Fades(d)
      BY <1>5 DEF WebInv, Moves
    <3> QED BY <2>1, <2>3, <3>1, WebOther DEF WebInv
  <2>4. CASE Receive(c)
    <3>1. got' = got /\ sent' = sent /\ at[c] = "recv"
      BY <2>4 DEF Receive, Handling
    <3>2. /\ got[c] = << >>
          /\ \/ (RecvFails(c) \/ asked[c] = Missing) /\ at'[c] = "except"
             \/ asked[c] \in Page /\ at'[c] = "send" /\ sent[c] = 0
             \/ at'[c] = "aborted"
      BY <1>0, <2>2, <2>4, UncaughtFades, GoesTo DEF Receive, Web, Where, Busy, Handling
    <3>3. RecvFails(c) => peer'[c] = "reset"
      BY <1>5 DEF Moves, RecvFails
    <3>4. Web(c)'
      BY <2>1, <2>2, <3>1, <3>2, <3>3 DEF Web
    <3> QED BY <2>1, <2>3, <3>1, <3>4 DEF WebTypes
  <2>5. CASE Send(c)
    <3>1. /\ at[c] = "send" /\ asked[c] \in Page /\ Len(got[c]) = sent[c]
          /\ \A k \in 1..sent[c] : got[c][k] = Answer(asked[c])[k]
          /\ Socket(c) = c
      BY <2>2, <2>5 DEF Send, Handling, Web, Socket
    <3>2. Answer(asked[c]) \in Seq(Char) /\ Len(Answer(asked[c])) = Length + 1
      BY <3>1, AnswerType
    <3>3. CASE SendFails(c) /\ at'[c] = "except" /\ got' = got /\ sent' = sent
      <4>1. Web(c)'
        BY <1>5, <3>3 DEF Web, Moves, SendFails
      <4> QED BY <2>1, <2>3, <3>3, <4>1 DEF WebTypes
    <3>4. CASE /\ sent[c] < Len(Answer(asked[c]))
               /\ SentTo(c, <<Answer(asked[c])[sent[c] + 1]>>)
               /\ sent' = [sent EXCEPT ![c] = @ + 1] /\ at' = at
      <4> DEFINE piece == Answer(asked[c])[sent[c] + 1]
      <4>1. piece \in Char
        BY <2>2, <3>2, <3>4
      <4>2. got' = [got EXCEPT ![c] = @ \o <<piece>>]
        BY <3>4 DEF SentTo
      <4>3. sent'[c] = sent[c] + 1 /\ got'[c] = got[c] \o <<piece>>
        BY <1>5, <3>4, <4>2 DEF WebTypes
      <4> HIDE DEF piece
      <4>4. /\ got'[c] \in Seq(Char) /\ Len(got'[c]) = sent[c] + 1
            /\ \A k \in 1..sent[c] : got'[c][k] = got[c][k]
            /\ got'[c][sent[c] + 1] = piece
        BY <2>2, <3>1, <4>1, <4>3, SMTT(30)
      <4>5. \A k \in 1..sent'[c] : got'[c][k] = Answer(asked[c])[k]
        <5> TAKE k \in 1..sent'[c]
        <5>1. k \in 1..sent[c] \/ k = sent[c] + 1
          BY <2>2, <4>3
        <5> QED BY <3>1, <4>4, <5>1 DEF piece
      <4>6. Web(c)'
        BY <2>1, <3>1, <3>4, <4>3, <4>4, <4>5 DEF Web
      <4>7. WebTypes'
        BY <1>5, <2>1, <2>2, <3>2, <3>4, <4>2, <4>4 DEF WebTypes
      <4>8. \A d \in Client : d # c => got'[d] = got[d] /\ sent'[d] = sent[d]
        BY <1>5, <3>4, <4>2 DEF WebTypes
      <4> QED BY <2>3, <4>6, <4>7, <4>8
    <3>5. CASE sent[c] = Len(Answer(asked[c])) /\ at'[c] = "closed" /\ got' = got /\ sent' = sent
      <4>1. got[c] = Answer(asked[c])
        BY <2>2, <3>1, <3>2, <3>5
      <4>2. Web(c)'
        BY <2>1, <3>1, <3>5, <4>1 DEF Web, Right, Answer
      <4> QED BY <2>1, <2>3, <3>5, <4>2 DEF WebTypes
    <3> QED BY <2>5, <3>1, <3>3, <3>4, <3>5, GoesTo DEF Send, Where, Busy
  <2>6. CASE AnswerNotFound(c)
    <3>1. at[c] = "except" /\ sent' = sent
      BY <2>6 DEF AnswerNotFound, Handling
    <3>2. CASE at'[c] = "aborted" /\ got' = got
      <4>1. Web(c)'
        BY <3>2 DEF Web
      <4> QED BY <2>1, <2>3, <3>1, <3>2, <4>1 DEF WebTypes
    <3>3. CASE ~SendFails(c) /\ at'[c] = "closed" /\ SentTo(c, NotFound)
      <4>1. asked[c] = Missing /\ got[c] = << >>
        BY <2>2, <3>1, <3>3 DEF Web, SendFails
      <4>2. got' = [got EXCEPT ![c] = @ \o NotFound]
        BY <3>3 DEF SentTo
      <4>3. got'[c] = NotFound
        BY <1>5, <4>1, <4>2, NotFoundType DEF WebTypes
      <4>4. Web(c)'
        BY <2>1, <3>3, <4>1, <4>3 DEF Web, Right, NotFound
      <4>5. WebTypes'
        BY <1>5, <2>1, <3>1, <4>2, <4>3, NotFoundType DEF WebTypes
      <4>6. \A d \in Client : d # c => got'[d] = got[d] /\ sent'[d] = sent[d]
        BY <1>5, <3>1, <4>2 DEF WebTypes
      <4> QED BY <2>3, <4>4, <4>5, <4>6
    <3> QED BY <2>6, <3>1, <3>2, <3>3, UncaughtFades, GoesTo
             DEF AnswerNotFound, Where, Busy
  <2> QED BY <1>5, <2>4, <2>5, <2>6 DEF WebHandler
<1>6. ASSUME program = "proxy_server", program' = program, asked' = asked, sent' = sent
      PROVE  WebTypes' /\ WebInv'
  BY <1>6 DEF WebTypes, WebInv
<1>7. CASE UNCHANGED httpVars
  BY <1>7 DEF httpVars, tcpVars, clients, WebTypes, WebInv, Web, Right, There
<1>8. CASE \E c \in Client : Handle(c)
  BY <1>5, <1>6, <1>8, HandlerMoves DEF Handle, Moves
<1>9. CASE (Interrupt \/ Restart) /\ UNCHANGED sent
  BY <1>6, <1>9 DEF Interrupt, Restart
<1> QED BY <1>1, <1>2, <1>3, <1>4, <1>7, <1>8, <1>9 DEF HttpNext, ClientStep

-----------------------------------------------------------------------------
\* The proxy: what was sent on the connection it is with, together with what
\* is still to be sent, is a reply or a cached page; and what is in the cache
\* is a reply, but between the opening of a cache file and its writing.

ProxyTypes ==
  /\ program = "proxy_server" => got \in [Client -> Seq(Piece)]
  /\ resp \in Seq(Piece) /\ lines \in Seq(Piece) /\ stream \in Seq(Piece)
  /\ DOMAIN cache \subseteq Page
  /\ \A p \in DOMAIN cache : cache[p] \in Seq(Piece)
  /\ replies \in [Page -> SUBSET Seq(Piece)]
  /\ fetched \in 0..Fetches /\ restarted \in 0..Restarts

OfAReply(c) == asked[c] \in Page /\
  (\/ \E r \in replies[asked[c]] : got[c] \in {r, FromCache(r)}
   \/ got[c] = << >> /\ restarted > 0)

Proxy(c) ==
  /\ at[c] \in Where \ {"send", "except"}
  /\ at[c] \in {"new", "recv", "lookup"} => got[c] = << >>
  /\ at[c] \in Busy \ {"recv"} => asked[c] # Nothing
  /\ at[c] = "lines" =>
       asked[c] \in DOMAIN cache /\ got[c] \o lines = FromCache(cache[asked[c]])
  /\ at[c] \in {"connect", "reading", "reply"} =>
       peer[c] = "reset" \/ (got[c] = << >> /\ asked[c] \notin DOMAIN cache)
  /\ at[c] \in {"reading", "reply", "open", "write"} =>
       asked[c] \in Page /\ fetched > 0
  /\ at[c] = "reading" => resp = stream
  /\ at[c] \in {"reply", "open", "write"} => resp \in replies[asked[c]]
  /\ at[c] \in {"open", "write"} => got[c] = resp
  /\ at[c] = "open" => asked[c] \notin DOMAIN cache
  /\ at[c] = "write" => asked[c] \in DOMAIN cache /\ cache[asked[c]] = << >>
  /\ at[c] = "closed" /\ There(c) => OfAReply(c)

CacheInv ==
  \A p \in DOMAIN cache :
    \/ cache[p] \in replies[p]
    \/ /\ cache[p] = << >>
       /\ \/ restarted > 0 \/ server = "ended"
          \/ \E c \in Client : at[c] = "write" /\ asked[c] = p

ProxyInv == program = "proxy_server" => CacheInv /\ \A c \in Client : Proxy(c)

LEMMA FromCacheType ==
  ASSUME NEW page \in Seq(Piece)
  PROVE  FromCache(page) \in Seq(Piece) /\ (page = << >> => FromCache(page) = << >>)
<1>1. ASSUME NEW k \in 1..Len(page) PROVE [page[k] EXCEPT !.ends = "crlf"] \in Piece
  <2>1. page[k] \in Piece
    OBVIOUS
  <2> QED BY <2>1 DEF Piece, Ends
<1>2. FromCache(page) = [k \in 1..Len(page) |-> [page[k] EXCEPT !.ends = "crlf"]]
  BY DEF FromCache
<1> HIDE DEF Piece
<1>3. FromCache(page) \in Seq(Piece)
  BY <1>1, <1>2
<1>4. page = << >> => FromCache(page) = << >>
  BY <1>2
<1> QED BY <1>3, <1>4

LEMMA SendsOn ==
  ASSUME NEW S, NEW s \in Seq(S), NEW t \in Seq(S), t # << >>
  PROVE  /\ s \o <<Head(t)>> \in Seq(S) /\ Tail(t) \in Seq(S)
         /\ (s \o <<Head(t)>>) \o Tail(t) = s \o t
OBVIOUS

\* A connection the proxy is not with.
LEMMA ProxyOther ==
  ASSUME NEW c \in Client, Proxy(c), Fades(c), at[c] \notin Busy, ProxyTypes,
         got'[c] = got[c], asked'[c] = asked[c], restarted' \in {restarted, restarted + 1},
         \A p \in Page : replies[p] \subseteq replies'[p]
  PROVE  Proxy(c)'
<1>1. at'[c] \in {"new", "closed", "aborted"} /\ at'[c] = at[c]
  BY DEF Fades, Proxy, Where
<1>2. OfAReply(c) => OfAReply(c)'
  BY DEF OfAReply, ProxyTypes
<1>3. There(c)' => There(c)
  BY DEF Fades, There
<1> QED BY <1>1, <1>2, <1>3 DEF Proxy, Where


LEMMA StepProxy ==
  ASSUME HttpTypeOK, WebTypes, ProxyTypes, Queue, OneBusy, ProxyInv, [HttpNext]_httpVars
  PROVE  ProxyTypes' /\ ProxyInv'
<1>0. /\ peer \in [Client -> {"away", "here", "deaf", "left", "reset"}]
      /\ at \in [Client -> Where] /\ backlog \in Seq(Client)
  BY DEF HttpTypeOK, Where
<1>1. ASSUME NEW c \in Client, Connect(c),
             UNCHANGED <<program, server, connectionSocket, at, proxyVars>>
      PROVE  ProxyTypes' /\ ProxyInv'
  <2>1. /\ peer' = [peer EXCEPT ![c] = "here"] /\ at[c] = "new"
        /\ UNCHANGED <<asked, got, at, program, server, resp, lines, cache, stream, replies,
                       fetched, restarted>>
    BY <1>1 DEF Connect, Queue, proxyVars, originVars
  <2>2. ProxyTypes'
    BY <2>1 DEF ProxyTypes
  <2>3. ASSUME program = "proxy_server", NEW d \in Client PROVE Proxy(d)'
    BY <1>0, <2>1, <2>3 DEF ProxyInv, Proxy, OfAReply, There
  <2>4. CacheInv => CacheInv'
    BY <2>1 DEF CacheInv
  <2> QED BY <2>1, <2>2, <2>3, <2>4 DEF ProxyInv
<1>2. ASSUME NEW c \in Client, Ask(c),
             UNCHANGED <<program, server, connectionSocket, at, proxyVars>>
      PROVE  ProxyTypes' /\ ProxyInv'
  <2>1. /\ peer[c] = "here" /\ asked[c] = Nothing
        /\ \A d \in Client : d # c => asked'[d] = asked[d]
        /\ UNCHANGED <<peer, got, at, program, server, resp, lines, cache, stream, replies,
                       fetched, restarted>>
    BY <1>2 DEF Ask, WebTypes, proxyVars, originVars
  <2>2. ProxyTypes'
    BY <2>1 DEF ProxyTypes
  <2>3. ASSUME program = "proxy_server" PROVE at[c] \in {"new", "recv", "aborted"}
    <3>1. Proxy(c) /\ asked[c] \notin Page
      BY <2>1, <2>3 DEF ProxyInv, Request
    <3> QED BY <2>1, <3>1 DEF Proxy, OfAReply, ProxyTypes, Where, Busy, There
  <2>4. ASSUME program = "proxy_server", NEW d \in Client, d # c PROVE Proxy(d)'
    BY <2>1, <2>4 DEF ProxyInv, Proxy, OfAReply, There
  <2>5. ASSUME program = "proxy_server" PROVE Proxy(c)'
    BY <2>1, <2>3, <2>5 DEF ProxyInv, Proxy, Where, Busy, There
  <2>6. program = "proxy_server" => CacheInv'
    <3>1. program = "proxy_server" => at[c] # "write"
      BY <2>3
    <3> QED BY <2>1, <3>1 DEF CacheInv, ProxyInv
  <2> QED BY <2>1, <2>2, <2>4, <2>5, <2>6 DEF ProxyInv
<1>3. ASSUME NEW c \in Client, StopReading(c) \/ Leave(c) \/ Reset(c),
             UNCHANGED <<program, server, connectionSocket, at, proxyVars>>
      PROVE  ProxyTypes' /\ ProxyInv'
  <2>1. /\ peer[c] # "reset" /\ \A d \in Client : There(d)' => There(d)
        /\ \A d \in Client : d # c => peer'[d] = peer[d]
        /\ UNCHANGED <<asked, got, at, program, server, resp, lines, cache, stream, replies,
                       fetched, restarted>>
    BY <1>0, <1>3 DEF StopReading, Leave, Reset, There, proxyVars, originVars
  <2>2. ProxyTypes'
    BY <2>1 DEF ProxyTypes
  <2>3. ASSUME program = "proxy_server", NEW d \in Client PROVE Proxy(d)'
    BY <2>1, <2>3 DEF ProxyInv, Proxy, OfAReply, There
  <2>4. CacheInv => CacheInv'
    BY <2>1 DEF CacheInv
  <2> QED BY <2>1, <2>2, <2>3, <2>4 DEF ProxyInv
<1>4. CASE Accept /\ UNCHANGED proxyVars
  <2>1. /\ backlog # << >> /\ at' = [at EXCEPT ![Head(backlog)] = "recv"]
        /\ UNCHANGED <<asked, got, peer, program, server, resp, lines, cache, stream, replies,
                       fetched, restarted>>
    BY <1>4 DEF Accept, proxyVars, originVars
  <2>2. Head(backlog) = backlog[1] /\ 1 \in 1..Len(backlog) /\ backlog[1] \in Client
    BY <1>0, <2>1
  <2>3. at[backlog[1]] = "new"
    BY <2>2 DEF Queue
  <2>4. \A d \in Client : at'[d] = IF d = backlog[1] THEN "recv" ELSE at[d]
    BY <1>0, <2>1, <2>2
  <2>5. ProxyTypes'
    BY <2>1 DEF ProxyTypes
  <2>6. ASSUME program = "proxy_server", NEW d \in Client PROVE Proxy(d)'
    BY <2>1, <2>3, <2>4, <2>6 DEF ProxyInv, Proxy, OfAReply, Where, Busy, There
  <2>7. CacheInv => CacheInv'
    BY <2>1, <2>3, <2>4 DEF CacheInv
  <2> QED BY <2>1, <2>5, <2>6, <2>7 DEF ProxyInv
<1>5. CASE program # "proxy_server" /\ program' = program /\ UNCHANGED proxyVars
  BY <1>5 DEF ProxyTypes, ProxyInv, proxyVars, originVars
<1>6. ASSUME NEW c \in Client, program = "proxy_server", ProxyHandler(c), Moves(c)
      PROVE  ProxyTypes' /\ ProxyInv'
  <2>1. asked' = asked /\ program' = program /\ server = "running" /\ at[c] \in Busy
    BY <1>6 DEF Moves
  <2>2. \A d \in Client : d # c => at[d] \notin Busy
    BY <1>6, <2>1 DEF OneBusy, threaded
  <2>3. Proxy(c) /\ CacheInv /\ got[c] \in Seq(Piece)
    BY <1>6 DEF ProxyInv, ProxyTypes
  <2>4. restarted' = restarted
    BY <1>6 DEF ProxyHandler, Recv, Lookup, SendLine, Fetch, Read, Reply, OpenCache, WriteCache,
                proxyVars, originVars
  <2>5. ASSUME \A d \in Client : d # c => got'[d] = got[d],
               \A p \in Page : replies[p] \subseteq replies'[p],
               Proxy(c)', CacheInv'
        PROVE  ProxyInv'
    <3>1. ASSUME NEW d \in Client, d # c PROVE Proxy(d)'
      <4>1. Proxy(d) /\ Fades(d) /\ at[d] \notin Busy
        BY <1>6, <2>2, <3>1 DEF ProxyInv, Moves
      <4> QED BY <2>1, <2>4, <2>5, <3>1, <4>1, ProxyOther
    <3> QED BY <2>5, <3>1 DEF ProxyInv
  \* While no connection is between OpenCache and WriteCache.
  <2>6. ASSUME at[c] # "write"
        PROVE  \A p \in DOMAIN cache :
                 cache[p] \in replies[p] \/ (cache[p] = << >> /\ restarted > 0)
    BY <2>1, <2>2, <2>3, <2>6 DEF CacheInv, Busy
  <2>7. ASSUME at[c] # "write", cache' = cache,
               \A p \in Page : replies[p] \subseteq replies'[p]
        PROVE  CacheInv'
    BY <2>4, <2>6, <2>7 DEF CacheInv, ProxyTypes
  <2>8. CASE Recv(c)
    <3>1. /\ got' = got /\ at[c] = "recv" /\ UNCHANGED proxyVars
          /\ at'[c] \in {"aborted", "lookup"}
          /\ at'[c] = "lookup" => asked[c] # Nothing
      BY <2>8, UncaughtFades, GoesTo DEF Recv, Where, Busy, Handling
    <3>2. Proxy(c)'
      BY <2>1, <2>3, <3>1 DEF Proxy, Where, Busy
    <3>3. ProxyTypes' /\ CacheInv'
      BY <2>1, <2>7, <3>1 DEF ProxyTypes, proxyVars, originVars
    <3> QED BY <2>5, <3>1, <3>2, <3>3 DEF proxyVars, originVars
  <2>9. CASE Lookup(c)
    <3>1. /\ got' = got /\ at[c] = "lookup" /\ UNCHANGED <<originVars, cache, restarted>>
          /\ got[c] = << >> /\ asked[c] # Nothing
      BY <2>3, <2>9 DEF Lookup, Handling, Proxy, Busy
    <3>2. CASE asked[c] \notin DOMAIN cache /\ at'[c] = "connect" /\ lines' = lines
      <4>1. Proxy(c)'
        BY <2>1, <3>1, <3>2 DEF Proxy, Where, Busy
      <4>2. ProxyTypes' /\ CacheInv'
        BY <2>1, <2>7, <3>1, <3>2 DEF ProxyTypes, originVars
      <4> QED BY <2>5, <3>1, <4>1, <4>2 DEF originVars
    <3>3. CASE /\ asked[c] \in DOMAIN cache /\ at'[c] = "lines"
               /\ lines' = FromCache(cache[asked[c]])
      <4>1. lines' \in Seq(Piece) /\ got[c] \o lines' = lines'
        BY <1>6, <3>1, <3>3, FromCacheType DEF ProxyTypes
      <4>2. Proxy(c)'
        BY <2>1, <3>1, <3>3, <4>1 DEF Proxy, Where, Busy
      <4>3. ProxyTypes' /\ CacheInv'
        BY <2>1, <2>7, <3>1, <4>1 DEF ProxyTypes, originVars
      <4> QED BY <2>5, <3>1, <4>2, <4>3 DEF originVars
    <3>4. CASE at'[c] = "aborted" /\ lines' = lines
      <4>1. Proxy(c)'
        BY <3>4 DEF Proxy, Where, Busy
      <4>2. ProxyTypes' /\ CacheInv'
        BY <2>1, <2>7, <3>1, <3>4 DEF ProxyTypes, originVars
      <4> QED BY <2>5, <3>1, <4>1, <4>2 DEF originVars
    <3> QED BY <2>9, <3>2, <3>3, <3>4, UncaughtFades, GoesTo DEF Lookup, Absent, Where, Busy, Handling
  <2>10. CASE SendLine(c)
    <3>1. /\ at[c] = "lines" /\ UNCHANGED <<originVars, cache, restarted>>
          /\ asked[c] \in DOMAIN cache /\ asked[c] # Nothing /\ asked[c] \in Page
          /\ got[c] \o lines = FromCache(cache[asked[c]])
      BY <1>6, <2>3, <2>10 DEF SendLine, Handling, Proxy, Busy, ProxyTypes
    <3>2. CASE SendFails(c) /\ at'[c] = "connect" /\ UNCHANGED <<got, lines>>
      <4>1. peer'[c] = "reset"
        BY <1>6, <3>2 DEF SendFails, Moves
      <4>2. Proxy(c)'
        BY <2>1, <3>1, <3>2, <4>1 DEF Proxy, Where, Busy
      <4>3. ProxyTypes' /\ CacheInv'
        BY <2>1, <2>7, <3>1, <3>2 DEF ProxyTypes, originVars
      <4> QED BY <2>5, <3>1, <3>2, <4>2, <4>3 DEF originVars
    <3>3. CASE /\ lines # << >> /\ SentTo(c, <<Head(lines)>>)
               /\ lines' = Tail(lines) /\ at' = at
      <4>1. got' = [got EXCEPT ![c] = @ \o <<Head(lines)>>]
        BY <3>3 DEF SentTo
      <4>2. /\ got'[c] = got[c] \o <<Head(lines)>>
            /\ \A d \in Client : d # c => got'[d] = got[d]
        BY <1>6, <4>1 DEF ProxyTypes
      <4> HIDE DEF Piece
      <4>3. /\ got'[c] \in Seq(Piece) /\ lines' \in Seq(Piece)
            /\ got'[c] \o lines' = got[c] \o lines
        <5>1. got[c] \in Seq(Piece) /\ lines \in Seq(Piece)
          BY <1>6, <2>3 DEF ProxyTypes
        <5>2. got'[c] = got[c] \o <<Head(lines)>> /\ lines' = Tail(lines)
          BY <3>3, <4>2
        <5>3. lines # << >>
          BY <3>3
        <5> QED BY <5>1, <5>2, <5>3, SendsOn
      <4>4. Proxy(c)'
        BY <2>1, <3>1, <3>3, <4>3 DEF Proxy, Where, Busy
      <4>5. ProxyTypes' /\ CacheInv'
        BY <1>6, <2>1, <2>7, <3>1, <4>1, <4>3 DEF ProxyTypes, originVars
      <4> QED BY <2>5, <3>1, <4>2, <4>4, <4>5 DEF originVars
    <3>4. CASE lines = << >> /\ at'[c] = "closed" /\ UNCHANGED <<got, lines>>
      <4>1. got[c] = FromCache(cache[asked[c]])
        BY <2>3, <3>1, <3>4
      <4>2. cache[asked[c]] = << >> => FromCache(cache[asked[c]]) = << >>
        BY <1>6, <3>1, FromCacheType DEF ProxyTypes
      <4>3. OfAReply(c)'
        BY <2>1, <2>6, <3>1, <3>4, <4>1, <4>2 DEF OfAReply, originVars
      <4>4. Proxy(c)'
        BY <3>4, <4>3 DEF Proxy, Where, Busy
      <4>5. ProxyTypes' /\ CacheInv'
        BY <2>1, <2>7, <3>1, <3>4 DEF ProxyTypes, originVars
      <4> QED BY <2>5, <3>1, <3>4, <4>4, <4>5 DEF originVars
    <3> QED BY <2>10, <3>2, <3>3, <3>4, GoesTo DEF SendLine, Where, Busy, Handling
  <2>11. CASE Fetch(c)
    <3>1. /\ at[c] = "connect" /\ got' = got
          /\ UNCHANGED <<replies, lines, cache, restarted>> /\ asked[c] # Nothing
          /\ peer[c] = "reset" \/ (got[c] = << >> /\ asked[c] \notin DOMAIN cache)
      BY <2>3, <2>11 DEF Fetch, Handling, Proxy, Busy
    <3>2. CASE /\ asked[c] \in Page /\ fetched < Fetches /\ at'[c] = "reading"
               /\ resp' = << >> /\ stream' = << >> /\ fetched' = fetched + 1
      <4>1. fetched \in Nat /\ fetched' \in 0..Fetches /\ fetched' > 0
        BY <1>6, <3>2 DEF ProxyTypes
      <4>2. Proxy(c)'
        <5>1. peer[c] = "reset" => peer'[c] = "reset"
          BY <1>6 DEF Moves
        <5> QED BY <2>1, <3>1, <3>2, <4>1, <5>1 DEF Proxy, Where, Busy
      <4>3. ProxyTypes'
        BY <1>6, <2>1, <3>1, <3>2, <4>1 DEF ProxyTypes
      <4> QED BY <2>5, <2>7, <3>1, <4>2, <4>3
    <3>3. CASE at'[c] = "aborted" /\ UNCHANGED <<resp, stream, fetched>>
      <4>1. Proxy(c)'
        BY <3>3 DEF Proxy, Where, Busy
      <4>2. ProxyTypes'
        BY <2>1, <3>1, <3>3 DEF ProxyTypes
      <4> QED BY <2>5, <2>7, <3>1, <4>1, <4>2
    <3> QED BY <2>11, <3>2, <3>3, UncaughtFades, GoesTo DEF Fetch, NoData, Where, Busy, Handling
  <2>12. CASE Read(c)
    <3>1. /\ at[c] = "reading" /\ got' = got /\ asked[c] \in Page /\ asked[c] # Nothing
          /\ UNCHANGED <<lines, cache, restarted, fetched>> /\ fetched > 0 /\ resp = stream
          /\ peer[c] = "reset" \/ (got[c] = << >> /\ asked[c] \notin DOMAIN cache)
      BY <2>3, <2>12 DEF Read, Handling, Proxy, Busy
    <3>2. peer[c] = "reset" => peer'[c] = "reset"
      BY <1>6 DEF Moves
    <3>3. ASSUME NEW e \in Ends, NEW part, Len(stream) < Length,
                 part = <<[page |-> asked[c], fetch |-> fetched,
                           piece |-> Len(stream) + 1, ends |-> e]>>,
                 resp' = resp \o part, stream' = stream \o part,
                 UNCHANGED <<at, server, peer, replies>>
          PROVE  ProxyTypes' /\ ProxyInv'
      <4>1. /\ fetched \in 1..Fetches /\ Len(stream) + 1 \in 1..Length
            /\ stream \in Seq(Piece) /\ resp \in Seq(Piece)
        BY <1>6, <3>1, <3>3 DEF ProxyTypes
      <4>2. part \in Seq(Piece)
        <5>1. [page |-> asked[c], fetch |-> fetched,
               piece |-> Len(stream) + 1, ends |-> e] \in Piece
          BY <3>1, <3>3, <4>1 DEF Piece
        <5> HIDE DEF Piece
        <5> QED BY <3>3, <5>1
      <4>3. resp' \in Seq(Piece) /\ stream' \in Seq(Piece) /\ resp' = stream'
        BY <3>1, <3>3, <4>1, <4>2
      <4>4. Proxy(c)'
        BY <2>1, <3>1, <3>2, <3>3, <4>3 DEF Proxy, Where, Busy
      <4>5. ProxyTypes'
        BY <1>6, <2>1, <3>1, <3>3, <4>3 DEF ProxyTypes
      <4> QED BY <2>5, <2>7, <3>1, <3>3, <4>4, <4>5
    <3>4. CASE /\ replies' = [replies EXCEPT ![asked[c]] = @ \cup {stream}]
               /\ at'[c] = "reply" /\ UNCHANGED <<resp, stream>>
      <4>1. /\ replies' \in [Page -> SUBSET Seq(Piece)] /\ resp \in replies'[asked[c]]
            /\ \A p \in Page : replies[p] \subseteq replies'[p]
        BY <1>6, <3>1, <3>4 DEF ProxyTypes
      <4>2. Proxy(c)'
        BY <2>1, <3>1, <3>2, <3>4, <4>1 DEF Proxy, Where, Busy
      <4>3. ProxyTypes'
        BY <1>6, <2>1, <3>1, <3>4, <4>1 DEF ProxyTypes
      <4> QED BY <2>5, <2>7, <3>1, <4>1, <4>2, <4>3
    <3>5. CASE at'[c] = "aborted" /\ UNCHANGED <<resp, stream, replies>>
      <4>1. Proxy(c)'
        BY <3>5 DEF Proxy, Where, Busy
      <4>2. ProxyTypes'
        BY <2>1, <3>1, <3>5 DEF ProxyTypes
      <4> QED BY <2>5, <2>7, <3>1, <3>5, <4>1, <4>2
    <3> QED BY <2>12, <3>3, <3>4, <3>5, UncaughtFades, GoesTo DEF Read, Where, Busy, Handling
  <2>13. CASE Reply(c)
    <3>1. /\ at[c] = "reply" /\ UNCHANGED proxyVars /\ asked[c] \in Page /\ asked[c] # Nothing
          /\ fetched > 0 /\ resp \in replies[asked[c]] /\ resp \in Seq(Piece)
          /\ peer[c] = "reset" \/ (got[c] = << >> /\ asked[c] \notin DOMAIN cache)
      BY <1>6, <2>3, <2>13 DEF Reply, Handling, Proxy, Busy, ProxyTypes
    <3>2. CASE at'[c] = "aborted" /\ got' = got
      <4>1. Proxy(c)'
        BY <3>2 DEF Proxy, Where, Busy
      <4>2. ProxyTypes'
        BY <2>1, <3>1, <3>2 DEF ProxyTypes, proxyVars, originVars
      <4> QED BY <2>5, <2>7, <3>1, <3>2, <4>1, <4>2 DEF proxyVars, originVars
    <3>3. CASE ~SendFails(c) /\ at'[c] = "open" /\ SentTo(c, resp)
      <4>1. got[c] = << >> /\ asked[c] \notin DOMAIN cache
        BY <3>1, <3>3 DEF SendFails
      <4>2. got' = [got EXCEPT ![c] = @ \o resp]
        BY <3>3 DEF SentTo
      <4>3. got'[c] = resp /\ \A d \in Client : d # c => got'[d] = got[d]
        BY <1>6, <3>1, <4>1, <4>2 DEF ProxyTypes
      <4>4. Proxy(c)'
        BY <2>1, <3>1, <3>3, <4>1, <4>3 DEF Proxy, Where, Busy, proxyVars, originVars
      <4>5. ProxyTypes'
        BY <1>6, <2>1, <3>1, <4>2, <4>3 DEF ProxyTypes, proxyVars, originVars
      <4> QED BY <2>5, <2>7, <3>1, <4>3, <4>4, <4>5 DEF proxyVars, originVars
    <3> QED BY <2>13, <3>2, <3>3, UncaughtFades, GoesTo DEF Reply, Where, Busy, Handling
  <2>14. CASE OpenCache(c)
    <3>1. /\ at[c] = "open" /\ got' = got /\ UNCHANGED <<originVars, lines, restarted>>
          /\ asked[c] \in Page /\ asked[c] # Nothing /\ fetched > 0
          /\ resp \in replies[asked[c]] /\ got[c] = resp
          /\ asked[c] \notin DOMAIN cache
      BY <2>3, <2>14 DEF OpenCache, Handling, Proxy, Busy
    <3>2. at'[c] = "write" /\ cache' = Holding(asked[c], << >>)
      BY <2>14, GoesTo DEF OpenCache, Where, Busy
    <3>3. /\ DOMAIN cache' = DOMAIN cache \cup {asked[c]} /\ cache'[asked[c]] = << >>
          /\ \A p \in DOMAIN cache : cache'[p] = cache[p]
      BY <3>1, <3>2 DEF Holding
    <3>4. Proxy(c)'
      BY <2>1, <3>1, <3>2, <3>3 DEF Proxy, Where, Busy, originVars
    <3>5. ProxyTypes'
      <4>1. \A p \in DOMAIN cache' : p \in Page /\ cache'[p] \in Seq(Piece)
        <5>1. << >> \in Seq(Piece)
          OBVIOUS
        <5> HIDE DEF Piece
        <5> QED BY <1>6, <3>1, <3>3, <5>1 DEF ProxyTypes
      <4> QED BY <1>6, <2>1, <3>1, <4>1 DEF ProxyTypes, originVars
    <3>6. CacheInv'
      BY <2>1, <2>4, <2>6, <3>1, <3>2, <3>3 DEF CacheInv, originVars
    <3> QED BY <2>5, <3>1, <3>4, <3>5, <3>6 DEF originVars
  <2>15. CASE WriteCache(c)
    <3>1. /\ at[c] = "write" /\ got' = got /\ UNCHANGED <<originVars, lines, restarted>>
          /\ asked[c] \in Page /\ asked[c] # Nothing
          /\ resp \in replies[asked[c]] /\ resp \in Seq(Piece) /\ got[c] = resp
          /\ asked[c] \in DOMAIN cache
      BY <1>6, <2>3, <2>15 DEF WriteCache, Handling, Proxy, Busy, ProxyTypes
    <3>2. at'[c] = "closed" /\ cache' = Holding(asked[c], resp)
      BY <2>15, GoesTo DEF WriteCache, Where, Busy
    <3>3. /\ DOMAIN cache' = DOMAIN cache /\ cache'[asked[c]] = resp
          /\ \A p \in DOMAIN cache : p # asked[c] => cache'[p] = cache[p]
      BY <3>1, <3>2 DEF Holding
    <3>4. OfAReply(c)'
      BY <2>1, <3>1 DEF OfAReply, originVars
    <3>5. Proxy(c)'
      BY <3>2, <3>4 DEF Proxy, Where, Busy
    <3>6. ProxyTypes'
      BY <1>6, <2>1, <3>1, <3>3 DEF ProxyTypes, originVars
    <3>7. \A d \in Client : d # c => at[d] # "write"
      BY <2>2 DEF Busy
    <3>8. CacheInv'
      BY <2>1, <2>3, <2>4, <3>1, <3>3, <3>7 DEF CacheInv, originVars
    <3> QED BY <2>5, <3>1, <3>5, <3>6, <3>8 DEF originVars
  <2> QED BY <1>6, <2>8, <2>9, <2>10, <2>11, <2>12, <2>13, <2>14, <2>15 DEF ProxyHandler
<1>7. CASE Interrupt
  <2>1. /\ EndsTheProgram /\ UNCHANGED <<asked, got, program, proxyVars>>
    BY <1>7 DEF Interrupt
  <2>2. /\ at' = [d \in Client |-> IF at[d] \in Busy THEN "aborted" ELSE at[d]]
        /\ peer' = [d \in Client |-> IF peer[d] = "away" \/ at[d] = "closed"
                                     THEN peer[d] ELSE "reset"]
        /\ server' = "ended"
    BY <2>1 DEF EndsTheProgram
  <2>3. ProxyTypes'
    BY <2>1 DEF ProxyTypes, proxyVars, originVars
  <2>4. ASSUME program = "proxy_server", NEW d \in Client PROVE Proxy(d)'
    <3>1. Proxy(d)
      BY <2>4 DEF ProxyInv
    <3>2. CASE at[d] \in Busy
      BY <2>2, <3>2 DEF Proxy, Where, Busy
    <3>3. CASE at[d] \notin Busy
      <4>1. Fades(d)
        BY <1>0, <2>2, <3>3 DEF Fades
      <4> QED BY <2>1, <3>1, <3>3, <4>1, ProxyOther DEF proxyVars, originVars
    <3> QED BY <3>2, <3>3
  <2>5. CacheInv => CacheInv'
    BY <2>1, <2>2 DEF CacheInv, proxyVars, originVars
  <2> QED BY <2>1, <2>3, <2>4, <2>5 DEF ProxyInv
<1>8. CASE Restart
  <2>1. /\ server = "ended" /\ restarted < Restarts /\ restarted' = restarted + 1
        /\ resp' = << >> /\ stream' = << >> /\ lines' = << >>
        /\ UNCHANGED <<peer, asked, got, program, at, replies, fetched, cache>>
    BY <1>8 DEF Restart
  <2>2. restarted \in Nat /\ restarted' \in 0..Restarts /\ restarted' > 0
    BY <2>1 DEF ProxyTypes
  <2>3. ProxyTypes'
    BY <2>1, <2>2 DEF ProxyTypes
  <2>4. ASSUME program = "proxy_server", NEW d \in Client PROVE Proxy(d)'
    <3>1. Proxy(d) /\ at[d] \notin Busy /\ Fades(d)
      BY <2>1, <2>4 DEF ProxyInv, OneBusy, Fades
    <3> QED BY <2>1, <3>1, ProxyOther
  <2>5. CacheInv => CacheInv'
    BY <2>1, <2>2 DEF CacheInv
  <2> QED BY <2>1, <2>3, <2>4, <2>5 DEF ProxyInv
<1>9. CASE UNCHANGED httpVars
  BY <1>9 DEF httpVars, tcpVars, clients, proxyVars, originVars, ProxyTypes, ProxyInv, Proxy,
              OfAReply, CacheInv, There
<1>10. CASE \E c \in Client : Handle(c)
  BY <1>5, <1>6, <1>10, HandlerMoves DEF Handle, Moves
<1> QED BY <1>1, <1>2, <1>3, <1>4, <1>7, <1>8, <1>9, <1>10 DEF HttpNext, ClientStep

-----------------------------------------------------------------------------
\* The invariant.

LEMMA StepTypes ==
  ASSUME HttpTypeOK, WebTypes', ProxyTypes', [HttpNext]_httpVars
  PROVE  HttpTypeOK'
<1> DEFINE Rest == /\ peer \in [Client -> {"away", "here", "deaf", "left", "reset"}]
                   /\ at \in [Client -> Where] /\ backlog \in Seq(Client)
                   /\ program \in Program /\ server \in {"running", "ended"}
                   /\ connectionSocket \in Client \cup {Nothing}
<1>1. Rest
  BY DEF HttpTypeOK, Where
<1>2. SUFFICES Rest'
  BY DEF HttpTypeOK, WebTypes, ProxyTypes, Where
<1>3. ASSUME NEW c \in Client, Connect(c),
             UNCHANGED <<program, server, connectionSocket, at>>
      PROVE  Rest'
  BY <1>1, <1>3 DEF Connect
<1>4. ASSUME NEW c \in Client, Ask(c) \/ StopReading(c) \/ Leave(c) \/ Reset(c),
             UNCHANGED <<program, server, connectionSocket, at>>
      PROVE  Rest'
  BY <1>1, <1>4 DEF Ask, StopReading, Leave, Reset, There
<1>5. CASE Accept
  BY <1>1, <1>5 DEF Accept, Where, Busy
<1>6. ASSUME NEW c \in Client, Handle(c) PROVE Rest'
  <2>1. Moves(c)
    BY <1>6, HandlerMoves
  <2> QED BY <1>1, <2>1 DEF Moves
<1>7. CASE Interrupt
  <2>1. /\ at' = [d \in Client |-> IF at[d] \in Busy THEN "aborted" ELSE at[d]]
        /\ peer' = [d \in Client |-> IF peer[d] = "away" \/ at[d] = "closed"
                                     THEN peer[d] ELSE "reset"]
        /\ server' = "ended" /\ UNCHANGED <<backlog, program, connectionSocket>>
    BY <1>7 DEF Interrupt, EndsTheProgram
  <2> QED BY <1>1, <2>1 DEF Where, Busy
<1>8. CASE Restart
  BY <1>1, <1>8 DEF Restart
<1>9. CASE UNCHANGED httpVars
  BY <1>1, <1>9 DEF httpVars, tcpVars, clients
<1> HIDE DEF Rest
<1> QED BY <1>3, <1>4, <1>5, <1>6, <1>7, <1>8, <1>9 DEF HttpNext, ClientStep

HttpInv == /\ HttpTypeOK /\ WebTypes /\ ProxyTypes
           /\ Queue /\ OneBusy /\ WebInv /\ ProxyInv

LEMMA InitHttp == HttpInit => HttpInv
<1> SUFFICES ASSUME HttpInit PROVE HttpInv
  OBVIOUS
<1>1. HttpTypeOK /\ WebTypes /\ ProxyTypes
  BY DEF HttpInit, TcpInit, ProxyInit, HttpTypeOK, WebTypes, ProxyTypes, Busy
<1>2. Queue /\ OneBusy
  BY DEF HttpInit, TcpInit, Queue, OneBusy, Busy
<1>3. WebInv /\ ProxyInv
  BY DEF HttpInit, TcpInit, ProxyInit, WebInv, Web, ProxyInv, Proxy, CacheInv, Where, Busy
<1> QED BY <1>1, <1>2, <1>3 DEF HttpInv

LEMMA StepHttp == HttpInv /\ [HttpNext]_httpVars => HttpInv'
  BY StepQueue, StepWeb, StepProxy, StepTypes DEF HttpInv

THEOREM HttpInvariance == HttpSpec => []HttpInv
  BY InitHttp, StepHttp, PTL DEF HttpSpec

\* The three programs keep their types.
THEOREM HttpTypeCorrect == HttpSpec => []HttpTypeOK
<1>1. HttpInv => HttpTypeOK
  BY DEF HttpInv
<1> QED BY <1>1, HttpInvariance, PTL

\* Both web servers send every client its own answer, and all of it.
THEOREM EveryAnswerIsRight == HttpSpec => []AnswersAreRight
<1>1. HttpInv => AnswersAreRight
  BY DEF HttpInv, WebInv, Web, Right, AnswersAreRight, Served, There
<1> QED BY <1>1, HttpInvariance, PTL

\* What proxy_server.py sends is a reply of the origin, fresh or cached,
\* whatever ended, broke or was interrupted before.
THEOREM EveryAnswerIsAReply == HttpSpec => []AnswersAreReplies
<1>1. HttpInv => AnswersAreReplies
  BY DEF HttpInv, ProxyInv, Proxy, OfAReply, AnswersAreReplies, Served, There
<1> QED BY <1>1, HttpInvariance, PTL

\* proxy_server.py never replaces a page of its cache.
THEOREM CachedForEver == HttpSpec => CacheOnlyGrows
<1>1. ASSUME HttpInv, [HttpNext]_httpVars, NEW p \in DOMAIN cache, cache[p] # << >>
      PROVE  p \in DOMAIN cache' /\ cache'[p] = cache[p]
  <2>1. ASSUME NEW c \in Client, program = "proxy_server", ProxyHandler(c)
        PROVE  p \in DOMAIN cache' /\ cache'[p] = cache[p]
    <3>1. Proxy(c)
      BY <1>1, <2>1 DEF HttpInv, ProxyInv
    <3>2. CASE OpenCache(c)
      BY <1>1, <3>1, <3>2 DEF OpenCache, Handling, Holding, Proxy
    <3>3. CASE WriteCache(c)
      BY <1>1, <3>1, <3>3 DEF WriteCache, Handling, Holding, Proxy
    <3>4. CASE Recv(c) \/ Lookup(c) \/ SendLine(c) \/ Fetch(c) \/ Read(c) \/ Reply(c)
      BY <1>1, <3>4 DEF Recv, Lookup, SendLine, Fetch, Read, Reply, proxyVars
    <3> QED BY <2>1, <3>2, <3>3, <3>4 DEF ProxyHandler
  <2>2. CASE UNCHANGED proxyVars
    BY <1>1, <2>2 DEF proxyVars
  <2>3. CASE Interrupt \/ Restart
    BY <1>1, <2>3 DEF Interrupt, Restart, proxyVars
  <2>4. CASE UNCHANGED httpVars
    BY <1>1, <2>4 DEF httpVars, proxyVars
  <2> QED BY <1>1, <2>1, <2>2, <2>3, <2>4 DEF HttpNext, Handle
<1>2. HttpInv /\ [HttpNext]_httpVars => [ \A p \in DOMAIN cache : cache[p] # << >> =>
                                 p \in DOMAIN cache' /\ cache'[p] = cache[p] ]_httpVars
  BY <1>1
<1> QED BY <1>2, HttpInvariance, PTL DEF HttpSpec, CacheOnlyGrows

\* oe1_http_server.py never ends; http_server.py ends only on what it cannot
\* read or a client that leaves.
THEOREM NoOtherEnd == HttpSpec => EndsOnlyForCause
<1>1. ASSUME HttpTypeOK, [HttpNext]_httpVars, server' = "ended", server = "running"
      PROVE  /\ program # "oe1_http_server"
             /\ program = "http_server" =>
                  \E c \in Client : /\ at[c] \in Busy
                                    /\ asked[c] \in {Malformed, Binary} \/ ~There(c)
  <2>1. \A c \in Client : Uncaught(c) => ~threaded
    BY <1>1 DEF Uncaught, Goes
  <2>2. ASSUME NEW c \in Client, program # "proxy_server", WebHandler(c)
        PROVE  ~threaded /\ at[c] \in Busy
                 /\ (asked[c] \in {Malformed, Binary} \/ ~There(c))
    BY <1>1, <2>1, <2>2 DEF WebHandler, Receive, Send, AnswerNotFound, Goes, Handling, Busy,
       Readable, RecvFails, SendFails, There
  <2>3. ASSUME NEW c \in Client, Handle(c)
        PROVE  program = "proxy_server" \/
                 (~threaded /\ at[c] \in Busy
                    /\ (asked[c] \in {Malformed, Binary} \/ ~There(c)))
    BY <2>2, <2>3 DEF Handle
  <2>4. CASE ClientStep \/ Accept \/ UNCHANGED httpVars
    BY <1>1, <2>4 DEF ClientStep, Accept, httpVars, tcpVars
  <2>5. CASE Interrupt \/ Restart
    BY <1>1, <2>5 DEF Interrupt, Restart
  <2> QED BY <1>1, <2>3, <2>4, <2>5 DEF HttpNext, threaded
<1>2. HttpInv /\ [HttpNext]_httpVars =>
        [ server' = "ended" /\ server = "running" =>
          /\ program # "oe1_http_server"
          /\ program = "http_server" =>
               \E c \in Client : /\ at[c] \in Busy
                                 /\ asked[c] \in {Malformed, Binary} \/ ~There(c) ]_httpVars
  BY <1>1 DEF HttpInv
<1> QED BY <1>2, HttpInvariance, PTL DEF HttpSpec, EndsOnlyForCause
=============================================================================

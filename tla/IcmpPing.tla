------------------------------ MODULE IcmpPing ------------------------------
(***************************************************************************)
(* ping.py: one echo request a second, each on a raw socket of its own,    *)
(* and one line printed for each.  The socket receives every ICMP packet   *)
(* of the host while it is open, and the program takes the first for its   *)
(* answer.  The other host answers a request whose checksum is right.      *)
(***************************************************************************)
EXTENDS Integers, Sequences

CONSTANTS the_id,   \* the process number, 16 bits of it
          Doubles,  \* what a time looks like in a packet: four 16-bit words
          timeout,  \* of select(), and the second slept after each ping
          Pings     \* bound on the requests, which the program sends for ever

Word == {w \in Nat : w < 65536}

ASSUME IcmpAssumption == /\ the_id \in Word
                         /\ Doubles \subseteq [1..4 -> Word]
                         /\ timeout \in Nat \ {0}
                         /\ Pings \in Nat

VARIABLES
  now,       \* in units of which timeout make a second
  pc,        \* "send", "select", "sleep" or "ended"
  until,     \* when select() or sleep() returns
  requests,  \* how many pings were sent
  socket,    \* the packets my_socket has received
  air,       \* the answers on their way
  printed,   \* a record for each line
  sentAt, arrivedAt, lost   \* what became of each ping

pinger == <<pc, until, requests, socket, printed>>
icmpVars == <<now, pinger, air, sentAt, arrivedAt, lost>>

ICMP_ECHO_REQUEST == 8
Never == -1

\* The high half is added to the low one, once.
FoldedOnce(sum) == (sum \div 65536) + (sum % 65536)

\* ... and what goes over 16 bits once more.
Folded(sum) == FoldedOnce(sum) + FoldedOnce(sum) \div 65536

\* The bytes are swapped here and again by htons.
checksum(sum) == 65535 - (Folded(sum) % 65536)

\* The words of header and data, the checksum being 0.
Sum(double) == ICMP_ECHO_REQUEST + the_id + 1
               + double[1] + double[2] + double[3] + double[4]

\* What the other host makes of it: the one's complement sum of all words.
Verifies(sum) == FoldedOnce(FoldedOnce(sum)) = 65535

IcmpInit == /\ now = 0 /\ pc = "send" /\ until = 0 /\ requests = 0
            /\ socket = << >> /\ printed = << >>
            /\ air = {} /\ lost = {}
            /\ sentAt = [k \in 1..Pings |-> Never]
            /\ arrivedAt = [k \in 1..Pings |-> Never]

\* A new socket, send_one_ping, and select().
SendOnePing ==
  /\ pc = "send" /\ requests < Pings
  /\ requests' = requests + 1 /\ socket' = << >>
  /\ sentAt' = [sentAt EXCEPT ![requests + 1] = now]
  /\ \E double \in Doubles :
       air' = IF Verifies(Sum(double) + checksum(Sum(double)))
              THEN air \cup {[ping |-> requests + 1, data |-> now]} ELSE air
  /\ pc' = "select" /\ until' = now + timeout
  /\ UNCHANGED <<now, printed, arrivedAt, lost>>

LoseAnswer(p) == /\ air' = air \ {p}
                 /\ lost' = lost \cup {p.ping}
                 /\ UNCHANGED <<now, pinger, sentAt, arrivedAt>>

\* Between two pings there is no socket that could receive it.
Arrive(p) == /\ air' = air \ {p}
             /\ arrivedAt' = [arrivedAt EXCEPT ![p.ping] = now]
             /\ socket' = IF pc = "select" THEN Append(socket, p) ELSE socket
             /\ UNCHANGED <<now, pc, until, requests, printed, sentAt, lost>>

\* A packet for some other program: of the length that struct.unpack wants,
\* with a time in the right place, or of another.
ForeignArrives ==
  /\ pc = "select" /\ socket = << >>
  /\ \E time \in {Never, now} : socket' = << [ping |-> 0, data |-> time] >>
  /\ UNCHANGED <<now, pc, until, requests, printed, air, sentAt, arrivedAt, lost>>

\* After the line the socket is closed, with what else it has received.
Prints(line) == /\ printed' = Append(printed, line)
                /\ pc' = "sleep" /\ until' = now + timeout
                /\ socket' = << >>

SinceLastPing(p) == now - sentAt[requests]

\* time_received - data
Time(p) == now - p.data

ReceiveOnePing ==
  /\ pc = "select" /\ socket # << >>
  /\ LET p == Head(socket)
     IN  IF p.data = Never
         THEN pc' = "ended" /\ UNCHANGED <<until, socket, printed>>
         ELSE Prints([ping |-> p.ping, time |-> Time(p)])
  /\ UNCHANGED <<now, requests, air, sentAt, arrivedAt, lost>>

\* Waits on, as with a timeout of None.
SelectAgain ==
  pc = "select" /\ socket = << >> /\ now = until /\ UNCHANGED icmpVars

TimeOut == /\ pc = "select" /\ socket = << >> /\ now = until
           /\ Prints([ping |-> 0, time |-> Never])
           /\ UNCHANGED <<now, requests, air, sentAt, arrivedAt, lost>>

SleepEnds == /\ pc = "sleep" /\ now = until
             /\ pc' = "send"
             /\ UNCHANGED <<now, until, requests, socket, printed, air, sentAt,
                            arrivedAt, lost>>

\* Time goes on while the program waits.
TimeGoesOn == /\ (pc = "select" /\ socket = << >>) \/ pc = "sleep"
              /\ now < until
              /\ now' = now + 1
              /\ UNCHANGED <<pinger, air, sentAt, arrivedAt, lost>>

Step == SendOnePing \/ ReceiveOnePing \/ TimeOut \/ SleepEnds \/ TimeGoesOn

IcmpNext == Step \/ ForeignArrives \/ \E p \in air : LoseAnswer(p) \/ Arrive(p)

IcmpSpec == IcmpInit /\ [][IcmpNext]_icmpVars

\* The program goes on, and so does time.
IcmpFairSpec == IcmpSpec /\ WF_icmpVars(Step)
-----------------------------------------------------------------------------
Packet == [ping : 0..Pings, data : Nat \cup {Never}]

IcmpTypeOK ==
  /\ now \in Nat /\ until \in Nat /\ requests \in 0..Pings
  /\ pc \in {"send", "select", "sleep", "ended"}
  /\ socket \in Seq(Packet) /\ air \subseteq Packet
  /\ printed \in Seq([ping : 0..Pings, time : Nat \cup {Never}])
  /\ sentAt \in [1..Pings -> Nat \cup {Never}]
  /\ arrivedAt \in [1..Pings -> Nat \cup {Never}]
  /\ lost \subseteq 1..Pings

\* The time printed for an answer is the round-trip time of the ping it
\* answers, which need not be the one sent last: every request carries its
\* own time, an answer that comes too late is taken for a later ping, and its
\* line is no line of that one.
TimesAreTrue ==
  \A k \in DOMAIN printed : LET m == printed[k].ping IN
    m # 0 => m <= k /\ printed[k].time = arrivedAt[m] - sentAt[m]

\* "Request timed out" is printed for a ping only if its answer was lost or
\* takes at least a second (ping.py:138): the other host never drops it for
\* its checksum, whatever the words of the time are, and no answer that came
\* in time is overlooked.
TimeoutMeansSilence ==
  \A k \in DOMAIN printed : printed[k] = [ping |-> 0, time |-> Never] =>
    \/ k \in lost
    \/ \E p \in air : p.ping = k
    \/ arrivedAt[k] >= sentAt[k] + timeout

\* One line for each ping, until a packet for another program ends this one.
KeepsPinging == <>(pc = "ended" \/ Len(printed) = Pings)
=============================================================================

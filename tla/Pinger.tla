------------------------------- MODULE Pinger -------------------------------
(***************************************************************************)
(* The UDP ping programs: ping_client.py sends PKGNUM pings, waits one     *)
(* second for an answer to each and prints statistics; UDPPingerServer.py  *)
(* answers or pretends the ping was lost.  A datagram is the number of its *)
(* ping.  Datagrams may be lost, delayed and reordered, as UDP allows; the *)
(* client takes the first one that comes for the answer to its last ping.  *)
(*                                                                         *)
(* answers and ignored are histories: answers[k] is the ping whose answer  *)
(* was counted for ping k, 0 after a time-out; ignored are the pings the   *)
(* server did not answer.                                                  *)
(***************************************************************************)
EXTENDS Integers, Sequences, FiniteSets

CONSTANT PKGNUM

ASSUME PingerAssumption == PKGNUM \in Nat \ {0}

VARIABLES
  phase,             \* "sending", "waiting", "reporting", "done", "crashed"
  packets_received,  \* also the length of rtts
  toServer, toClient,
  answers, ignored

pingerVars == <<phase, packets_received, toServer, toClient, answers, ignored>>

PingerInit ==
  /\ phase = "sending"
  /\ packets_received = 0
  /\ toServer = {} /\ toClient = {}
  /\ answers = << >> /\ ignored = {}

\* The turn of the for loop: ping i + 1 is number i + 1.
SendPing ==
  /\ phase = "sending" /\ Len(answers) < PKGNUM
  /\ toServer' = toServer \cup {Len(answers) + 1}
  /\ phase' = "waiting"
  /\ UNCHANGED <<packets_received, toClient, answers, ignored>>

ReceiveAnswer(n) ==
  /\ phase = "waiting" /\ n \in toClient
  /\ toClient' = toClient \ {n}
  /\ packets_received' = packets_received + 1
  /\ answers' = Append(answers, n)
  /\ phase' = "sending"
  /\ UNCHANGED <<toServer, ignored>>

CountsAnyway ==
  /\ phase = "waiting"
  /\ packets_received' = packets_received + 1
  /\ answers' = Append(answers, 0)
  /\ phase' = "sending"
  /\ UNCHANGED <<toServer, toClient, ignored>>

BlocksWhenLost ==
  /\ phase = "waiting" /\ toServer \cup toClient # {}
  /\ answers' = Append(answers, 0)
  /\ phase' = "sending"
  /\ UNCHANGED <<packets_received, toServer, toClient, ignored>>

Timeout ==
  /\ phase = "waiting"
  /\ answers' = Append(answers, 0)
  /\ phase' = "sending"
  /\ UNCHANGED <<packets_received, toServer, toClient, ignored>>

PrintLoss ==
  /\ phase = "sending" /\ Len(answers) = PKGNUM
  /\ phase' = "reporting"
  /\ UNCHANGED <<packets_received, toServer, toClient, answers, ignored>>

\* np.min raises ValueError on an empty list.
PrintRtts ==
  /\ phase = "reporting"
  /\ phase' = IF packets_received = 0 THEN "crashed" ELSE "done"
  /\ UNCHANGED <<packets_received, toServer, toClient, answers, ignored>>

-----------------------------------------------------------------------------
KeepsPing(n, answer) ==
  /\ n \in toServer
  /\ IF answer
     THEN toClient' = toClient \cup {n} /\ UNCHANGED ignored
     ELSE ignored' = ignored \cup {n} /\ UNCHANGED toClient
  /\ UNCHANGED <<phase, packets_received, toServer, answers>>

\* One turn of the server; answer is rand >= 4.
Serve(n, answer) ==
  /\ n \in toServer
  /\ toServer' = toServer \ {n}
  /\ IF answer
     THEN toClient' = toClient \cup {n} /\ UNCHANGED ignored
     ELSE ignored' = ignored \cup {n} /\ UNCHANGED toClient
  /\ UNCHANGED <<phase, packets_received, answers>>

LosePing(n) ==
  /\ n \in toServer \cup toClient
  /\ toServer' = toServer \ {n} /\ toClient' = toClient \ {n}
  /\ UNCHANGED <<phase, packets_received, answers, ignored>>

PingClient == SendPing \/ (\E n \in toClient : ReceiveAnswer(n)) \/ Timeout
            \/ PrintLoss \/ PrintRtts

PingerNext ==
  \/ PingClient
  \/ \E n \in toServer : \E answer \in BOOLEAN : Serve(n, answer)
  \/ \E n \in toServer \cup toClient : LosePing(n)

\* The client runs on: after a second settimeout ends every wait.
PingerSpec == PingerInit /\ [][PingerNext]_pingerVars /\ WF_pingerVars(PingClient)
-----------------------------------------------------------------------------
Ping == 1..PKGNUM

PingerTypeOK ==
  /\ phase \in {"sending", "waiting", "reporting", "done", "crashed"}
  /\ packets_received \in 0..PKGNUM
  /\ toServer \subseteq Ping /\ toClient \subseteq Ping /\ ignored \subseteq Ping
  /\ answers \in Seq(0..PKGNUM) /\ Len(answers) <= PKGNUM

\* The loss the client prints is never too low: a ping the server ignored, or
\* whose answer is still on its way when the client gives up, is not made up
\* for by an answer that was counted twice.
LossNotUnderstated ==
  packets_received + Cardinality(ignored) + Cardinality(toServer)
    + Cardinality(toClient)
      <= Len(answers) + (IF phase = "waiting" THEN 1 ELSE 0)

\* Answers may be taken for later pings, never for two pings.
AnswersCountOnce ==
  \A k, m \in DOMAIN answers : answers[k] # 0 =>
    /\ answers[k] <= k
    /\ answers[k] = answers[m] => k = m

\* The client comes to an end, whatever is lost: with the statistics it
\* promises (ping_client.py:7), or, if no answer came at all and np.min fails,
\* in a traceback.
ClientEnds == <>(phase = "done" \/ (phase = "crashed" /\ packets_received = 0))
=============================================================================

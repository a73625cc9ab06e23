----------------------------- MODULE Heartbeat -----------------------------
(***************************************************************************)
(* The UDP heartbeat programs: heartbeat_client.py, which skips beats and  *)
(* goes off line at random, and heartbeat_server.py, which reports lost    *)
(* beats and a client that stopped.  Time runs in steps of half a second;  *)
(* what the programs do between two sleeps or time-outs takes none.  Both  *)
(* run on one host, the server first: no datagram is lost on the way.      *)
(*                                                                         *)
(* dropped, reported and first are histories of the client's session: the  *)
(* beats it pretended to lose, those the server printed as lost, and the   *)
(* first beat the server got.                                              *)
(***************************************************************************)
EXTENDS Integers

CONSTANT MaxSeq     \* bound on seq: the client goes off line when it is reached

ASSUME HeartbeatAssumption == MaxSeq \in Nat \ {0}

None == -1
Impatient == 2
TooPatient == 9
Silence == 5        \* settimeout(2.5)
Offline == 8        \* sleep(4)
Pauses == {1, 2}    \* sleep(r), 0.4 < r < 1

VARIABLES
  client,      \* "ready", "waiting" in recvfrom, "pausing" or "offline"
  seq, asleep, \* the beat the client is at, and how long it still sleeps
  beat,        \* the one on its way to the server, None if there is none
  ok,          \* whether the answer to it is on its way
  last_seq, recv_time,   \* the server's; recv_time only as set or None
  waited,      \* how long the server has been in recvfrom
  dropped, reported, first

heartbeatVars == <<client, seq, asleep, beat, ok, last_seq, recv_time, waited,
                   dropped, reported, first>>

HeartbeatInit ==
  /\ client = "ready" /\ seq = 0 /\ asleep = 0
  /\ beat = None /\ ok = FALSE
  /\ last_seq = None /\ recv_time = FALSE /\ waited = 0
  /\ dropped = {} /\ reported = {} /\ first = None

Beat ==
  /\ client = "ready"
  /\ seq' = seq + 1
  /\ UNCHANGED <<ok, last_seq, recv_time, waited, reported, first>>

SkipBeat ==
  /\ Beat
  /\ seq < MaxSeq
  /\ dropped' = dropped \cup {seq'}
  /\ UNCHANGED <<client, asleep, beat>>

GoOffline ==
  /\ Beat
  /\ client' = "offline"
  /\ asleep' = Offline
  /\ UNCHANGED <<beat, dropped>>

SendBeat ==
  /\ Beat
  /\ seq < MaxSeq
  /\ client' = "waiting"
  /\ beat' = seq'
  /\ UNCHANGED <<asleep, dropped>>

GetAnswer ==
  /\ client = "waiting" /\ ok
  /\ ok' = FALSE
  /\ client' = "pausing"
  /\ asleep' \in Pauses
  /\ UNCHANGED <<seq, beat, last_seq, recv_time, waited, dropped, reported,
                 first>>

\* After a time off line the client starts again, with an empty history.
Wake ==
  /\ client \in {"pausing", "offline"} /\ asleep = 0
  /\ client' = "ready"
  /\ IF client = "offline"
     THEN seq' = 0 /\ dropped' = {} /\ reported' = {} /\ first' = None
     ELSE UNCHANGED <<seq, dropped, reported, first>>
  /\ UNCHANGED <<asleep, beat, ok, last_seq, recv_time, waited>>

-----------------------------------------------------------------------------
UpToItself(last, s) == IF last = None THEN {} ELSE (last + 1)..s

\* The beats the server prints as lost when beat s comes after beat last.
Gap(last, s) == IF last = None THEN {} ELSE (last + 1)..(s - 1)

AnswersNextOnly ==
  /\ beat # None
  /\ reported' = reported \cup Gap(last_seq, beat)
  /\ first' = IF first = None THEN beat ELSE first
  /\ last_seq' = beat /\ recv_time' = TRUE /\ waited' = 0
  /\ beat' = None
  /\ ok' = (last_seq = None \/ beat = last_seq + 1)
  /\ UNCHANGED <<client, seq, asleep, dropped>>

ServeBeat ==
  /\ beat # None
  /\ reported' = reported \cup Gap(last_seq, beat)
  /\ first' = IF first = None THEN beat ELSE first
  /\ last_seq' = beat /\ recv_time' = TRUE /\ waited' = 0
  /\ beat' = None
  /\ ok' = TRUE
  /\ UNCHANGED <<client, seq, asleep, dropped>>

\* Prints "Client stopped" if there was a beat since it last did.
ServerTimeout ==
  /\ waited = Silence /\ beat = None
  /\ recv_time' = FALSE /\ waited' = 0
  /\ UNCHANGED <<client, seq, asleep, beat, ok, last_seq, dropped, reported,
                 first>>

\* Neither program has anything to do: the client sleeps, or waits in recvfrom.
AllRest ==
  /\ beat = None /\ ~ok /\ waited < Silence
  /\ client = "waiting" \/ (client \in {"pausing", "offline"} /\ asleep > 0)

Tick ==
  /\ AllRest
  /\ waited' = waited + 1
  /\ asleep' = IF client = "waiting" THEN asleep ELSE asleep - 1
  /\ UNCHANGED <<client, seq, beat, ok, last_seq, recv_time, dropped,
                 reported, first>>

HeartbeatNext == SkipBeat \/ GoOffline \/ SendBeat \/ GetAnswer \/ Wake
                   \/ ServeBeat \/ ServerTimeout \/ Tick

\* Both programs are always scheduled again.
HeartbeatSpec == /\ HeartbeatInit /\ [][HeartbeatNext]_heartbeatVars
                 /\ WF_heartbeatVars(ServeBeat) /\ WF_heartbeatVars(GetAnswer)
-----------------------------------------------------------------------------
HeartbeatTypeOK ==
  /\ client \in {"ready", "waiting", "pausing", "offline"}
  /\ seq \in 0..(MaxSeq + 1)
  /\ asleep \in 0..Offline
  /\ beat \in {None} \cup 1..MaxSeq
  /\ ok \in BOOLEAN
  /\ last_seq \in {None} \cup 1..MaxSeq
  /\ recv_time \in BOOLEAN
  /\ waited \in 0..Silence
  /\ dropped \subseteq 1..MaxSeq
  /\ reported \subseteq 1..MaxSeq
  /\ first \in {None} \cup 1..MaxSeq

\* What the server prints as lost was skipped in this session, although
\* last_seq outlives the session it was counted in; and when it has served a
\* beat, it has printed every beat skipped since the first it got.
ReportsGaps ==
  /\ reported \subseteq dropped
  /\ client = "pausing" => \A d \in dropped : d > first => d \in reported

\* When the server has served a beat it has printed every beat skipped before
\* it ("reports any lost packets", heartbeat_server.py:7; the client counts
\* from 1 in every session).
ReportsAnyLost == client = "pausing" => dropped \subseteq reported

\* "Client stopped" is printed only while the client is off line: a living
\* client never pauses long enough, however many beats it skips.
StoppedMeansOffline ==
  [][recv_time /\ ~recv_time' => client = "offline"]_heartbeatVars

\* A client that beat at all and went off line is reported before it is back.
OfflineIsNoticed ==
  [][client = "offline" /\ client' = "ready" => ~recv_time']_heartbeatVars

\* The client, which waits without a time-out, always gets its answer.
AnswerComes == client = "waiting" ~> client = "pausing"
=============================================================================

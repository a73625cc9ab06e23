----------------------------- MODULE FifoMedium -----------------------------
(***************************************************************************)
(* The services main.c offers to a protocol, without the clock: a channel  *)
(* that may lose or damage a packet but keeps the order ("medium can not   *)
(* reorder", main.c:356), and one timer per entity that is running or not. *)
(*                                                                         *)
(* A medium n is a record: n.chan[e] is the sequence of packets on their   *)
(* way to entity e, n.timer[e] says whether a TIMER_INTERRUPT for e is     *)
(* scheduled.  Transmit, SetTimer and ClearTimer are what tolayer3,        *)
(* starttimer and stoptimer of EventList.tla, with the event list and its  *)
(* times, come to.                                                         *)
(***************************************************************************)
EXTENDS RdtMedium

Medium == [chan : [Entity -> Seq(Pkt)], timer : [Entity -> BOOLEAN]]

EmptyMedium == [chan  |-> [e \in Entity |-> << >>],
                timer |-> [e \in Entity |-> FALSE]]

MediumReorders(n, AorB, packet, fate) ==
  IF fate = "lost"
  THEN n
  ELSE [n EXCEPT !.chan[Peer(AorB)] = << Damage(packet, fate) >> \o @]

Transmit(n, AorB, packet, fate) ==
  IF fate = "lost"
  THEN n
  ELSE [n EXCEPT !.chan[Peer(AorB)] = Append(@, Damage(packet, fate))]

\* What may become of len packets handed over one after the other: the ones
\* that are not lost keep their order, each has a fate of its own.
Survivals(len) ==
  UNION {{s \in [1..m -> (1..len) \X (Fates \ {"lost"})] :
             \A k \in 1..(m - 1) : s[k][1] < s[k + 1][1]} : m \in 0..len}

TransmitEach(n, AorB, packets, survivors) ==
  [n EXCEPT !.chan[Peer(AorB)] =
     @ \o [k \in DOMAIN survivors |->
             Damage(packets[survivors[k][1]], survivors[k][2])]]

\* A timer that is already running is left alone, and stopping one that is
\* not running changes nothing: main.c only prints a warning.
SetTimer(n, AorB, increment) == [n EXCEPT !.timer[AorB] = TRUE]

ClearTimer(n, AorB) == [n EXCEPT !.timer[AorB] = FALSE]

\* The main loop takes an event off the list before it calls the handler.
PacketTaken(n, e) == [n EXCEPT !.chan[e] = Tail(@)]

TimerTaken(n, e) == [n EXCEPT !.timer[e] = FALSE]
=============================================================================

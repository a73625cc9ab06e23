----------------------------- MODULE EventList -----------------------------
(***************************************************************************)
(* The event list of main.c and the services it offers to a protocol, with *)
(* the clock: the interface of FifoMedium.tla, one level closer to the     *)
(* code.  A medium n is the list evlist, a sequence of events.  evtime is  *)
(* the time left until the event: Taken, which moves the clock to the head *)
(* of the list, subtracts the head's time from the others.                 *)
(***************************************************************************)
EXTENDS RdtMedium, FiniteSetsExt, SequencesExt

CONSTANT Delays    \* the values of 1 + 9 * jimsrand()

ASSUME EventListAssumption == Delays \subseteq 1..10

TIMER_INTERRUPT == 0
FROM_LAYER5 == 1
FROM_LAYER3 == 2

\* The pktptr of an event that has no packet.
NoPkt == [seqnum |-> 0, acknum |-> 0, checksum |-> 0, payload |-> NoData]

Event == [evtime : Nat, evtype : {TIMER_INTERRUPT, FROM_LAYER5, FROM_LAYER3},
          eventity : Entity, pkt : Pkt]

\* What tolayer3 does with a packet, and how long it takes.
Ways == [fate : Fates, delay : Delays]

IsTimer(ev, AorB) == ev.evtype = TIMER_INTERRUPT /\ ev.eventity = AorB

InTransit(ev, AorB) == ev.evtype = FROM_LAYER3 /\ ev.eventity = AorB

LooksAtHeadOnly(n, p) ==
  IF n # << >> /\ p.evtime > n[1].evtime THEN Append(n, p) ELSE << p >> \o n

\* In front of the first event that is not earlier.
insertevent(n, p) ==
  InsertAt(n, Min({k \in 1..(Len(n) + 1) :
                     k > Len(n) \/ p.evtime <= n[k].evtime}), p)

OnlyWhenIdle(n, gap) ==
  IF n # << >>
  THEN n
  ELSE << [evtime |-> gap, evtype |-> FROM_LAYER5, eventity |-> A,
           pkt |-> NoPkt] >>

generate_next_arrival(n, gap) ==
  insertevent(n, [evtime |-> gap, evtype |-> FROM_LAYER5, eventity |-> A,
                  pkt |-> NoPkt])

ForgetsTimer(n, AorB) == n

\* The first timer of AorB is taken off the list.
stoptimer(n, AorB) ==
  LET timers == {k \in DOMAIN n : IsTimer(n[k], AorB)}
  IN  IF timers = {} THEN n ELSE RemoveAt(n, Min(timers))

starttimer(n, AorB, increment) ==
  IF \E k \in DOMAIN n : IsTimer(n[k], AorB)
  THEN n
  ELSE insertevent(n, [evtime |-> increment, evtype |-> TIMER_INTERRUPT,
                       eventity |-> AorB, pkt |-> NoPkt])

\* When the last packet on its way to AorB arrives; now if there is none.
LastTime(n, AorB) ==
  LET there == {k \in DOMAIN n : InTransit(n[k], AorB)}
  IN  IF there = {} THEN 0 ELSE n[Max(there)].evtime

IgnoresOthers(n, AorB, packet, how) ==
  IF how.fate = "lost"
  THEN n
  ELSE insertevent(n, [evtime |-> how.delay, evtype |-> FROM_LAYER3,
                       eventity |-> Peer(AorB),
                       pkt |-> Damage(packet, how.fate)])

tolayer3(n, AorB, packet, how) ==
  IF how.fate = "lost"
  THEN n
  ELSE insertevent(n, [evtime |-> LastTime(n, Peer(AorB)) + how.delay,
                       evtype |-> FROM_LAYER3,
                       eventity |-> Peer(AorB),
                       pkt |-> Damage(packet, how.fate)])

\* tolayer3 for packets handed over one after the other.
tolayer3each(n, AorB, packets, hows) ==
  LET after[k \in 0..Len(packets)] ==
        IF k = 0 THEN n ELSE tolayer3(after[k - 1], AorB, packets[k], hows[k])
  IN  after[Len(packets)]

\* The main loop takes the head off the list, and its time becomes now.
Taken(n) == [k \in 1..(Len(n) - 1) |->
               [n[k + 1] EXCEPT !.evtime = @ - n[1].evtime]]

\* The packets on their way to AorB, in the order of the list.
Arriving(n, AorB) ==
  LET upto[k \in 0..Len(n)] ==
        IF k = 0 THEN << >>
        ELSE IF InTransit(n[k], AorB) THEN Append(upto[k - 1], n[k].pkt)
        ELSE upto[k - 1]
  IN  upto[Len(n)]

\* The same medium without the clock, as FifoMedium.tla has it.
Untimed(n) ==
  [chan  |-> [e \in Entity |-> Arriving(n, e)],
   timer |-> [e \in Entity |-> \E k \in DOMAIN n : IsTimer(n[k], e)]]
=============================================================================

------------------------------- MODULE AbpSim -------------------------------
(***************************************************************************)
(* The alternating-bit program with its clock: the entities of abp.c over  *)
(* the event list of main.c, whose loop takes the earliest event and no    *)
(* other.  The steps are those of Abp.tla, at the times the code allows.   *)
(***************************************************************************)
EXTENDS EventList

CONSTANTS TIMEOUT, ExitAfter, nsimmax,
          Gaps         \* the values of lambda * jimsrand() * 2

ASSUME AbpSimAssumption == /\ nsimmax \in Nat
                           /\ ExitAfter \in Nat \ {0}
                           /\ TIMEOUT \in Nat
                           /\ Gaps \subseteq Nat

VARIABLES A_state, B_state, unacked_packet, received,
          net, status, accepted, delivered, nsim

INSTANCE AbpEntities

vars == <<A_state, B_state, unacked_packet, received,
          net, status, accepted, delivered, nsim>>

\* init() puts the first arrival on the list.
Init == /\ EntitiesInit
        /\ \E gap \in Gaps : net = generate_next_arrival(<< >>, gap)
        /\ status = "running"
        /\ nsim = 0

\* The main loop has taken the head of the list and found nsim # nsimmax.
Takes(evtype, eventity) ==
  /\ status = "running"
  /\ nsim # nsimmax
  /\ net # << >>
  /\ Head(net).evtype = evtype
  /\ Head(net).eventity = eventity

FromLayer5(how, gap) ==
  /\ Takes(FROM_LAYER5, A)
  /\ nsim' = nsim + 1
  /\ A_output(LayerFiveData(nsim), generate_next_arrival(Taken(net), gap), how)

FromLayer3AtA ==
  /\ Takes(FROM_LAYER3, A)
  /\ A_input(Head(net).pkt, Taken(net))
  /\ UNCHANGED nsim

FromLayer3AtB(how) ==
  /\ Takes(FROM_LAYER3, B)
  /\ B_input(Head(net).pkt, Taken(net), how)
  /\ UNCHANGED nsim

TimerInterrupt(how) ==
  /\ Takes(TIMER_INTERRUPT, A)
  /\ A_timerinterrupt(Taken(net), how)
  /\ UNCHANGED nsim

\* The list is empty, or the event taken off it finds nsim = nsimmax.  What
\* is on the list is of no use any more and left as it is.
NothingToDo == net = << >> \/ nsim = nsimmax

Terminate ==
  /\ status = "running"
  /\ NothingToDo
  /\ status' = "terminated"
  /\ UNCHANGED <<A_state, B_state, unacked_packet, received, net,
                 accepted, delivered, nsim>>

Next == \/ \E how \in Ways : \/ \E gap \in Gaps : FromLayer5(how, gap)
                             \/ FromLayer3AtB(how)
                             \/ TimerInterrupt(how)
        \/ FromLayer3AtA
        \/ Terminate

Spec == Init /\ [][Next]_vars

\* main() loops until it returns or a handler exits.
FairSpec == Spec /\ WF_vars(Next)

-----------------------------------------------------------------------------
\* The list is in the order of time and never holds an event of the past,
\* although insertevent, tolayer3 and stoptimer each walk it on their own;
\* and there is always a next arrival, exactly one, so the main loop never
\* finds the list empty.
EventsInOrder ==
  /\ net \in Seq(Event)
  /\ \A i, j \in 1..Len(net) : i < j => net[i].evtime <= net[j].evtime
  /\ Cardinality({k \in DOMAIN net : net[k].evtype = FROM_LAYER5}) = 1

\* The timer never goes off while the packet it guards, or its answer, is
\* still on its way: the round trip takes 20 at most, and TIMEOUT is 25.  So
\* there is never more than one packet in the medium, and the last 5 units
\* before a time-out nothing happens between A and B.
NoPrematureTimeout ==
  LET packets == {k \in DOMAIN net : net[k].evtype = FROM_LAYER3}
  IN  /\ Cardinality(packets) <= 1
      /\ \A k \in packets : \E m \in DOMAIN net :
           IsTimer(net[m], A) /\ net[m].evtime >= net[k].evtime + TIMEOUT - 20

\* Whatever is lost and however often, the program ends: there is no endless
\* round of packets and time-outs between two arrivals.
Ends == <>(status # "running")

\* What happens at the times the code computes is among what Abp.tla allows
\* at any time: nothing proved of Abp.tla depends on its lack of a clock.
AnyTime == INSTANCE Abp WITH net <- Untimed(net), ChanCap <- 1
ImplementsAbp == AnyTime!Spec
=============================================================================

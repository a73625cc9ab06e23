------------------------------- MODULE GbnSim -------------------------------
(***************************************************************************)
(* The go-back-N program with its clock: the entities of gbn.c over the    *)
(* event list of main.c.  Here time-outs may come too early: tolayer3 lets *)
(* a packet arrive after all those before it, so a window of N packets can *)
(* take 10 * N, and as long again for the answers, while TIMEOUT is 25.    *)
(***************************************************************************)
EXTENDS EventList

CONSTANTS TIMEOUT, N, AckLimit, nsimmax,
          Gaps,        \* the values of lambda * jimsrand() * 2
          ListCap      \* bound on the event list: A's timer does not go off
                       \* when it would be exceeded

ASSUME GbnSimAssumption == /\ nsimmax \in Nat
                           /\ TIMEOUT \in Nat
                           /\ N \in Nat \ {0}
                           /\ AckLimit \in Nat \ {0}
                           /\ Gaps \subseteq Nat
                           /\ ListCap \in Nat

VARIABLES base, nextseqnum, queue, expectedseqnum, B_sndpkt,
          net, status, accepted, delivered, nsim

INSTANCE GbnEntities

vars == <<base, nextseqnum, queue, expectedseqnum, B_sndpkt,
          net, status, accepted, delivered, nsim>>

\* init() puts the first arrival on the list.
Init == /\ EntitiesInit
        /\ \E gap \in Gaps : net = generate_next_arrival(<< >>, gap)
        /\ status = "running"
        /\ nsim = 0

\* The main loop has taken the head of the list and found nsim # nsimmax.
Takes(evtype, eventity) ==
  /\ status = "running"
  /\ nsim # nsimmax
  /\ net # << >>
  /\ Head(net).evtype = evtype
  /\ Head(net).eventity = eventity

FromLayer5(how, gap) ==
  /\ Takes(FROM_LAYER5, A)
  /\ nsim' = nsim + 1
  /\ A_output(LayerFiveData(nsim), generate_next_arrival(Taken(net), gap), how)

FromLayer3AtA ==
  /\ Takes(FROM_LAYER3, A)
  /\ A_input(Head(net).pkt, Taken(net))
  /\ UNCHANGED nsim

FromLayer3AtB(how) ==
  /\ Takes(FROM_LAYER3, B)
  /\ B_input(Head(net).pkt, Taken(net), how)
  /\ UNCHANGED nsim

TimerInterrupt(hows) ==
  /\ Takes(TIMER_INTERRUPT, A)
  /\ Len(net) + Len(queue) <= ListCap
  /\ A_timerinterrupt(Taken(net), hows)
  /\ UNCHANGED nsim

\* The list is empty, or the event taken off it finds nsim = nsimmax.
NothingToDo == net = << >> \/ nsim = nsimmax

Terminate ==
  /\ status = "running"
  /\ NothingToDo
  /\ status' = "terminated"
  /\ UNCHANGED <<base, nextseqnum, queue, expectedseqnum, B_sndpkt, net,
                 accepted, delivered, nsim>>

Next == \/ \E how \in Ways : \/ \E gap \in Gaps : FromLayer5(how, gap)
                             \/ FromLayer3AtB(how)
        \/ \E hows \in [1..Len(queue) -> Ways] : TimerInterrupt(hows)
        \/ FromLayer3AtA
        \/ Terminate

Spec == Init /\ [][Next]_vars
-----------------------------------------------------------------------------
\* The packets to one entity arrive one time unit apart at least, in the
\* order of the list, however many windows were sent on top of each other:
\* no two of them are ever due at the same time, where insertevent would put
\* the later one in front.
PacketsApart ==
  \A e \in Entity : \A i, j \in DOMAIN net :
     i < j /\ InTransit(net[i], e) /\ InTransit(net[j], e)
     => net[j].evtime >= net[i].evtime + 1

\* What happens at the times the code computes is among what Gbn.tla allows
\* at any time: nothing proved of Gbn.tla depends on its lack of a clock.  An
\* arrival adds two events at most to what the last time-out left.
AnyTime == INSTANCE Gbn WITH net <- Untimed(net),
                             ChanCap <- ListCap + 2 * nsimmax + 1
ImplementsGbn == AnyTime!Spec
=============================================================================

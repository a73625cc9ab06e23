-------------------------------- MODULE Gbn --------------------------------
(***************************************************************************)
(* The go-back-N program: the entities of gbn.c driven by the main loop of *)
(* main.c over the FIFO medium.  As in Abp.tla an event may be taken       *)
(* whenever it is pending, which covers the time-outs that come too early: *)
(* with several packets in the medium a round trip can exceed TIMEOUT.     *)
(***************************************************************************)
EXTENDS FifoMedium

CONSTANTS TIMEOUT, N, AckLimit,
          nsimmax,     \* messages to simulate, read by init()
          ChanCap      \* bound on the packets in a channel: B takes no packet
                       \* and A's timer does not go off when it would be
                       \* exceeded

ASSUME GbnAssumption == /\ nsimmax \in Nat
                        /\ N \in Nat \ {0}
                        /\ AckLimit \in Nat \ {0}
                        /\ ChanCap \in Nat \ {0}

VARIABLES base, nextseqnum, queue, expectedseqnum, B_sndpkt,
          net, status, accepted, delivered, nsim

INSTANCE GbnEntities WITH
  tolayer3 <- Transmit, tolayer3each <- TransmitEach,
  starttimer <- SetTimer, stoptimer <- ClearTimer

vars == <<base, nextseqnum, queue, expectedseqnum, B_sndpkt,
          net, status, accepted, delivered, nsim>>

Init == /\ EntitiesInit
        /\ net = EmptyMedium
        /\ status = "running"
        /\ nsim = 0

\* The test at the top of the main loop.
Simulating == status = "running" /\ nsim # nsimmax

FromLayer5(fate) ==
  /\ Simulating
  /\ nsim' = nsim + 1
  /\ A_output(LayerFiveData(nsim), net, fate)

FromLayer3AtA ==
  /\ Simulating
  /\ net.chan[A] # << >>
  /\ A_input(Head(net.chan[A]), PacketTaken(net, A))
  /\ UNCHANGED nsim

FromLayer3AtB(fate) ==
  /\ Simulating
  /\ net.chan[B] # << >>
  /\ Len(net.chan[A]) < ChanCap
  /\ B_input(Head(net.chan[B]), PacketTaken(net, B), fate)
  /\ UNCHANGED nsim

TimerInterrupt(survivors) ==
  /\ Simulating
  /\ net.timer[A]
  /\ Len(net.chan[B]) + Len(survivors) <= ChanCap
  /\ A_timerinterrupt(TimerTaken(net, A), survivors)
  /\ UNCHANGED nsim

\* A time-out after which at least the oldest unacknowledged packet arrives
\* as it was sent.
OldestResent ==
  \E survivors \in Survivals(Len(queue)) :
     /\ survivors # << >> /\ survivors[1] = <<1, "intact">>
     /\ TimerInterrupt(survivors)

\* B answers an undamaged packet, and the answer arrives as it was sent.
AnswerArrives ==
  /\ net.chan[B] # << >> /\ ~corrupt(Head(net.chan[B]))
  /\ FromLayer3AtB("intact")

\* The next event finds nsim = nsimmax and leaves the loop.
Terminate ==
  /\ status = "running"
  /\ nsim = nsimmax
  /\ status' = "terminated"
  /\ UNCHANGED <<base, nextseqnum, queue, expectedseqnum, B_sndpkt, net,
                 accepted, delivered, nsim>>

Next == \/ \E fate \in Fates : FromLayer5(fate) \/ FromLayer3AtB(fate)
        \/ \E survivors \in Survivals(Len(queue)) : TimerInterrupt(survivors)
        \/ FromLayer3AtA
        \/ Terminate

Spec == Init /\ [][Next]_vars

\* As for Abp.tla: pending events are taken, and the medium lets through
\* infinitely many of B's answers, and of the oldest packets of the windows
\* A sends again.
FairSpec == /\ Spec
            /\ WF_vars(FromLayer3AtA)
            /\ WF_vars(\E fate \in Fates : FromLayer3AtB(fate))
            /\ SF_vars(AnswerArrives)
            /\ SF_vars(OldestResent)
            /\ WF_vars(Terminate)

-----------------------------------------------------------------------------
TypeOK ==
  /\ base \in Nat \ {0}
  /\ nextseqnum \in Nat \ {0}
  /\ queue \in Seq(Pkt)
  /\ expectedseqnum \in Nat \ {0}
  /\ B_sndpkt \in Pkt
  /\ net \in Medium
  /\ status \in {"running", "exited", "crashed", "terminated"}
  /\ accepted \in Seq(Letters)
  /\ delivered \in Seq(Letters)
  /\ nsim \in 0..nsimmax

\* Layer 5 at B gets exactly the messages A did not refuse, in order, each
\* once, never one damaged by the medium, although A resends whole windows
\* and B may see them any number of times.
InOrderOnce ==
  /\ Len(delivered) <= Len(accepted)
  /\ \A i \in 1..Len(delivered) : delivered[i] = accepted[i]

\* A slides the window only over what B has handed over: base is at most one
\* past the last delivered message, also while acknowledgements are lost or
\* arrive for packets that were sent twice.
AckedWasDelivered == base - 1 <= Len(delivered) /\ Len(delivered) < nextseqnum

\* The queue is the window: the packets base .. nextseqnum - 1, at most N,
\* each as it was sent first.
QueueIsWindow ==
  /\ Len(queue) = nextseqnum - base
  /\ Len(queue) <= N
  /\ \A i \in 1..Len(queue) :
        queue[i] = make_pkt(base + i - 1, 0, accepted[base + i - 1])

\* A_input trusts acknum (gbn.c:72-77): a number beyond the packets in the
\* queue would remove the head of an empty list.  It never comes.
NeverCrashes == status # "crashed"

\* The message A prints when it exits (gbn.c:69) is true: AckLimit messages
\* were handed over at B.
ExitMeansTransferred == status = "exited" => Len(delivered) >= AckLimit

\* A's timer is pending exactly while a packet is unacknowledged, although
\* A_input sets base, and stops and restarts the timer, without a look at
\* what they were.
TimerIffOutstanding == net.timer[A] <=> base < nextseqnum

\* The acknowledgements in the channel to A never go back, and stay between
\* what A knows and what B has handed over.  "base = acknum + 1" (gbn.c:77),
\* which takes no maximum, relies on it.
AcksNeverGoBack ==
  LET c == net.chan[A]
  IN  \A i \in 1..Len(c) : ~corrupt(c[i]) =>
        /\ c[i].acknum \in (base - 1)..Len(delivered)
        /\ \A j \in i..Len(c) : ~corrupt(c[j]) => c[i].acknum <= c[j].acknum

\* Neither end of the window ever moves back.
WindowNeverMovesBack ==
  [][base' >= base /\ nextseqnum' >= nextseqnum
       /\ expectedseqnum' >= expectedseqnum]_vars

\* The promise of the protocol, with a window of N messages: while the
\* simulation goes on, what A has taken is delivered and acknowledged.
Transfer == INSTANCE ReliableTransfer WITH
              Data <- Letters, Window <- N,
              sent <- accepted, recvd <- delivered, acked <- base - 1,
              running <- (status = "running")
ImplementsTransfer == Transfer!FairSpec
=============================================================================

-------------------------------- MODULE Abp --------------------------------
(***************************************************************************)
(* The alternating-bit program: the entities of abp.c driven by the main   *)
(* loop of main.c over the FIFO medium.  An event may be taken whenever it *)
(* is pending, so every interleaving of arrivals, packets and time-outs is *)
(* covered, those the clock rules out included (AbpSim.tla adds the clock).*)
(***************************************************************************)
EXTENDS FifoMedium

CONSTANTS TIMEOUT, ExitAfter,
          nsimmax,     \* messages to simulate, read by init()
          ChanCap      \* bound on the packets in a channel: B takes no packet
                       \* and A's timer does not go off when it is reached

ASSUME AbpAssumption == /\ nsimmax \in Nat
                        /\ ExitAfter \in Nat \ {0}
                        /\ ChanCap \in Nat \ {0}

VARIABLES A_state, B_state, unacked_packet, received,
          net, status, accepted, delivered, nsim

INSTANCE AbpEntities WITH
  tolayer3 <- Transmit, starttimer <- SetTimer, stoptimer <- ClearTimer

vars == <<A_state, B_state, unacked_packet, received,
          net, status, accepted, delivered, nsim>>

Init == /\ EntitiesInit
        /\ net = EmptyMedium
        /\ status = "running"
        /\ nsim = 0

\* The test at the top of the main loop.
Simulating == status = "running" /\ nsim # nsimmax

FromLayer5(fate) ==
  /\ Simulating
  /\ nsim' = nsim + 1
  /\ A_output(LayerFiveData(nsim), net, fate)

FromLayer3AtA ==
  /\ Simulating
  /\ net.chan[A] # << >>
  /\ A_input(Head(net.chan[A]), PacketTaken(net, A))
  /\ UNCHANGED nsim

FromLayer3AtB(fate) ==
  /\ Simulating
  /\ net.chan[B] # << >>
  /\ Len(net.chan[A]) < ChanCap
  /\ B_input(Head(net.chan[B]), PacketTaken(net, B), fate)
  /\ UNCHANGED nsim

TimerInterrupt(fate) ==
  /\ Simulating
  /\ net.timer[A]
  /\ Len(net.chan[B]) < ChanCap
  /\ A_timerinterrupt(TimerTaken(net, A), fate)
  /\ UNCHANGED nsim

\* The next event finds nsim = nsimmax and leaves the loop.
Terminate ==
  /\ status = "running"
  /\ nsim = nsimmax
  /\ status' = "terminated"
  /\ UNCHANGED <<A_state, B_state, unacked_packet, received, net,
                 accepted, delivered, nsim>>

Next == \/ \E fate \in Fates : \/ FromLayer5(fate)
                               \/ FromLayer3AtB(fate)
                               \/ TimerInterrupt(fate)
        \/ FromLayer3AtA
        \/ Terminate

Spec == Init /\ [][Next]_vars

\* The main loop takes every pending event; the medium, whose loss and
\* damage probabilities are below 1, lets through infinitely many of the
\* packets it is given.  Nothing is assumed of layer 5.
FairSpec == /\ Spec
            /\ WF_vars(FromLayer3AtA)
            /\ WF_vars(\E fate \in Fates : FromLayer3AtB(fate))
            /\ SF_vars(FromLayer3AtB("intact"))
            /\ SF_vars(TimerInterrupt("intact"))
            /\ WF_vars(Terminate)

-----------------------------------------------------------------------------
TypeOK ==
  /\ A_state \in Stat
  /\ B_state \in {"WAIT_0", "WAIT_1"}
  /\ unacked_packet \in Pkt
  /\ received \in Nat
  /\ net \in Medium
  /\ status \in {"running", "exited", "terminated"}
  /\ accepted \in Seq(Letters)
  /\ delivered \in Seq(Letters)
  /\ nsim \in 0..nsimmax

\* Layer 5 at B gets exactly the messages A sent, in order, each once, never
\* one damaged by the medium: B's sequence check and checksum and A's
\* retransmissions work together over any loss, damage and early time-out.
InOrderOnce ==
  /\ Len(delivered) <= Len(accepted)
  /\ \A i \in 1..Len(delivered) : delivered[i] = accepted[i]

\* The n-th acknowledgement A counts (and reports, abp.c:76) is for a message
\* B did hand over, and A is never more than one message ahead of it.
AckedWasDelivered ==
  /\ received <= Len(delivered)
  /\ Len(accepted) <= received + 1

\* A timer is pending exactly while A waits for an acknowledgement.  Hence
\* starttimer never meets a running timer and stoptimer never a stopped one
\* (the two warnings of main.c), and a lost packet is always retried.
TimerIffWaiting == net.timer[A] <=> A_state \in Waiting

\* The bit of the message A sent last.
SentBit == IF A_state \in Waiting THEN Bit(A_state) ELSE 1 - Bit(A_state)

\* The bit of the last message B acknowledged.
AckBit == 1 - Bit(B_state)

\* A packet in the channel to B is damaged beyond doubt, or a copy of the
\* message A sent last, or of the one before; an older copy never follows a
\* newer one, and once B has the newest message only copies of it remain.
DataChannelOrdered ==
  LET c == net.chan[B]
  IN  \A i \in 1..Len(c) : ~corrupt(c[i]) =>
        /\ accepted # << >>
        /\ c[i].seqnum \in {0, 1}
        /\ c[i].seqnum = SentBit => c[i].payload = accepted[Len(accepted)]
        /\ AckBit = SentBit => c[i].seqnum = SentBit
        /\ \A j \in i..Len(c) :
             ~corrupt(c[j]) /\ c[i].seqnum = SentBit => c[j].seqnum = SentBit

\* The same for the acknowledgements: the one A waits for is in the channel
\* only when B has the message, and no older one comes after it.
AckChannelOrdered ==
  LET c == net.chan[A]
  IN  \A i \in 1..Len(c) : ~corrupt(c[i]) =>
        /\ c[i].acknum \in {0, 1}
        /\ c[i].acknum = Bit(A_state) => AckBit = Bit(A_state)
        /\ \A j \in i..Len(c) :
             ~corrupt(c[j]) /\ c[i].acknum = AckBit => c[j].acknum = AckBit

\* The order of both channels is what makes one bit enough.
ChannelsOrdered == DataChannelOrdered /\ AckChannelOrdered

\* The promise of the protocol, with a window of one message: while the
\* simulation goes on, what A has sent is delivered and acknowledged.
Transfer == INSTANCE ReliableTransfer WITH
              Data <- Letters, Window <- 1,
              sent <- accepted, recvd <- delivered, acked <- received,
              running <- (status = "running")
ImplementsTransfer == Transfer!FairSpec
=============================================================================

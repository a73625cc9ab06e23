-------------------------- MODULE ReliableTransfer --------------------------
(***************************************************************************)
(* What a reliable data transfer protocol promises its layer 5: the        *)
(* messages the sender takes are handed over at the other side in order,   *)
(* each once; the sender counts a message as acknowledged only after it    *)
(* was handed over, and takes no new message while Window of them are      *)
(* unacknowledged.  The run may stop at any moment.  Both abp.c and gbn.c  *)
(* are shown to implement this, with a window of 1 and of N.               *)
(***************************************************************************)
EXTENDS Integers, Sequences

CONSTANTS Data, Window

VARIABLES
  sent,     \* messages taken from layer 5 at the sender
  recvd,    \* messages given to layer 5 at the receiver
  acked,    \* how many the sender knows to have been delivered
  running

rtvars == <<sent, recvd, acked, running>>

Init == /\ sent = << >>
        /\ recvd = << >>
        /\ acked = 0
        /\ running = TRUE

Accept == /\ running
          /\ Len(sent) - acked < Window
          /\ \E d \in Data : sent' = Append(sent, d)
          /\ UNCHANGED <<recvd, acked, running>>

Deliver == /\ running
           /\ Len(recvd) < Len(sent)
           /\ recvd' = Append(recvd, sent[Len(recvd) + 1])
           /\ UNCHANGED <<sent, acked, running>>

\* An acknowledgement covers one or more messages; the program may exit on
\* the last one.
Ack == /\ running
       /\ acked' \in (acked + 1)..Len(recvd)
       /\ running' \in BOOLEAN
       /\ UNCHANGED <<sent, recvd>>

Stop == /\ running
        /\ running' = FALSE
        /\ UNCHANGED <<sent, recvd, acked>>

Next == Accept \/ Deliver \/ Ack \/ Stop

Spec == Init /\ [][Next]_rtvars

\* While the program runs, a message that was taken is delivered and then
\* acknowledged.
FairSpec == Spec /\ WF_rtvars(Deliver) /\ WF_rtvars(Ack)
=============================================================================

---------------------------- MODULE GbnEntities ----------------------------
(***************************************************************************)
(* The two entities of the go-back-N protocol, gbn.c: the handlers the     *)
(* emulator calls, over any medium that offers tolayer3, starttimer and    *)
(* stoptimer.  n is the medium as the main loop left it before the call,   *)
(* how is what the medium does with the packets sent by the call.          *)
(*                                                                         *)
(* queue is the STAILQ headed by head; accepted and delivered are          *)
(* histories: the messages A_output did not refuse and the payloads B gave *)
(* to tolayer5.                                                            *)
(***************************************************************************)
EXTENDS RdtPacket

CONSTANTS
  TIMEOUT,             \* gbn.c:10
  N,                   \* window size, gbn.c:11
  AckLimit,            \* acknowledgement number on which A exits, 20 in gbn.c
  tolayer3(_, _, _, _), tolayer3each(_, _, _, _),
  starttimer(_, _, _), stoptimer(_, _)

VARIABLES base, nextseqnum, queue, expectedseqnum, B_sndpkt,
          net, status, accepted, delivered

OneTooMany == nextseqnum <= base + N

WindowOpen == nextseqnum < base + N

A_output(message, n, how) ==
  /\ UNCHANGED <<base, expectedseqnum, B_sndpkt, status, delivered>>
  /\ \/ /\ WindowOpen
        /\ LET sndpkt == make_pkt(nextseqnum, 0, message)
               m      == tolayer3(n, A, sndpkt, how)
           IN  /\ queue' = Append(queue, sndpkt)
               /\ net' = IF base = nextseqnum THEN starttimer(m, A, TIMEOUT) ELSE m
        /\ nextseqnum' = nextseqnum + 1
        /\ accepted' = Append(accepted, message)
     \/ /\ ~WindowOpen       \* the message is refused
        /\ net' = n
        /\ UNCHANGED <<queue, nextseqnum, accepted>>

\* How many packets the loop of A_input takes off the queue.
OneTooFew(acknum) == IF acknum >= base THEN acknum - base ELSE 0

Covered(acknum) == IF acknum >= base THEN acknum - base + 1 ELSE 0

StopAlways(n, acknum) == stoptimer(n, A)

\* The timer runs on for the packets that are still unacknowledged.
Restart(n, acknum) ==
  IF acknum + 1 = nextseqnum
  THEN stoptimer(n, A)
  ELSE starttimer(stoptimer(n, A), A, TIMEOUT)

AcceptAck(acknum, n) ==
  IF Covered(acknum) > Len(queue)
  THEN \* STAILQ_REMOVE_HEAD dereferences the NULL head of an empty queue
       /\ status' = "crashed"
       /\ net' = n
       /\ UNCHANGED <<queue, base>>
  ELSE /\ queue' = SubSeq(queue, Covered(acknum) + 1, Len(queue))
       /\ base' = acknum + 1
       /\ net' = Restart(n, acknum)
       /\ UNCHANGED status

A_input(packet, n) ==
  /\ UNCHANGED <<nextseqnum, expectedseqnum, B_sndpkt, accepted, delivered>>
  /\ \/ /\ corrupt(packet)
        /\ net' = n
        /\ UNCHANGED <<queue, base, status>>
     \/ /\ ~corrupt(packet) /\ packet.acknum >= AckLimit
        /\ status' = "exited"
        /\ net' = n
        /\ UNCHANGED <<queue, base>>
     \/ /\ ~corrupt(packet) /\ packet.acknum < AckLimit
        /\ AcceptAck(packet.acknum, n)

\* STAILQ_FOREACH: all unacknowledged packets, the oldest first.
Resend(n, survivors) ==
  tolayer3each(starttimer(n, A, TIMEOUT), A, queue, survivors)

A_timerinterrupt(n, survivors) ==
  /\ net' = Resend(n, survivors)
  /\ UNCHANGED <<base, nextseqnum, queue, expectedseqnum, B_sndpkt, status,
                 accepted, delivered>>

\* B takes any undamaged packet from expectedseqnum on.
SkipsAhead(packet) == packet.seqnum >= expectedseqnum

\* hasseqnum(packet, expectedseqnum)
IsExpected(packet) == packet.seqnum = expectedseqnum

AcksAnything(packet, n, how) ==
  /\ UNCHANGED <<base, nextseqnum, queue, status, accepted>>
  /\ net' = IF corrupt(packet) THEN n
            ELSE tolayer3(n, B, make_pkt(0, packet.seqnum, NoData), how)
  /\ UNCHANGED B_sndpkt
  /\ IF ~corrupt(packet) /\ IsExpected(packet)
     THEN /\ delivered' = Append(delivered, packet.payload)
          /\ expectedseqnum' = expectedseqnum + 1
     ELSE UNCHANGED <<expectedseqnum, delivered>>

B_input(packet, n, how) ==
  /\ UNCHANGED <<base, nextseqnum, queue, status, accepted>>
  /\ \/ /\ corrupt(packet)
        /\ net' = n
        /\ UNCHANGED <<expectedseqnum, B_sndpkt, delivered>>
     \/ /\ ~corrupt(packet) /\ ~IsExpected(packet)
        /\ net' = tolayer3(n, B, B_sndpkt, how)
        /\ UNCHANGED <<expectedseqnum, B_sndpkt, delivered>>
     \/ /\ ~corrupt(packet) /\ IsExpected(packet)
        /\ delivered' = Append(delivered, packet.payload)
        /\ B_sndpkt' = make_pkt(0, expectedseqnum, NoData)
        /\ net' = tolayer3(n, B, B_sndpkt', how)
        /\ expectedseqnum' = expectedseqnum + 1

\* A_init and B_init, and the empty queue.
EntitiesInit ==
  /\ base = 1
  /\ nextseqnum = 1
  /\ queue = << >>
  /\ expectedseqnum = 1
  /\ B_sndpkt = make_pkt(0, 0, NoData)
  /\ accepted = << >>
  /\ delivered = << >>
=============================================================================

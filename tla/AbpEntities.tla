---------------------------- MODULE AbpEntities ----------------------------
(***************************************************************************)
(* The two entities of the alternating-bit protocol, abp.c: the handlers   *)
(* the emulator calls, over any medium that offers tolayer3, starttimer    *)
(* and stoptimer.  n is the medium as the main loop left it before the     *)
(* call, how is what the medium does with a packet sent by the call.       *)
(*                                                                         *)
(* accepted and delivered are histories: the messages A_output sent and    *)
(* the payloads B gave to tolayer5.                                        *)
(***************************************************************************)
EXTENDS RdtPacket

CONSTANTS
  TIMEOUT,             \* abp.c:8
  ExitAfter,           \* acknowledgements after which A exits, 10 in abp.c
  tolayer3(_, _, _, _), starttimer(_, _, _), stoptimer(_, _)

VARIABLES A_state, B_state, unacked_packet, received,
          net, status, accepted, delivered

Stat == {"WAIT_0", "WAIT_ACK_0", "WAIT_1", "WAIT_ACK_1"}
Waiting == {"WAIT_ACK_0", "WAIT_ACK_1"}

\* The sequence bit a state is about.
Bit(stat) == IF stat \in {"WAIT_0", "WAIT_ACK_0"} THEN 0 ELSE 1

A_output(message, n, how) ==
  \/ /\ A_state \notin Waiting
     /\ LET sndpkt == make_pkt(Bit(A_state), 0, message)
        IN  /\ net' = starttimer(tolayer3(n, A, sndpkt, how), A, TIMEOUT)
            /\ unacked_packet' = sndpkt
     /\ A_state' = IF A_state = "WAIT_0" THEN "WAIT_ACK_0" ELSE "WAIT_ACK_1"
     /\ accepted' = Append(accepted, message)
     /\ UNCHANGED <<B_state, received, status, delivered>>
  \/ /\ A_state \in Waiting       \* the message is dropped
     /\ net' = n
     /\ UNCHANGED <<A_state, B_state, unacked_packet, received, status,
                    accepted, delivered>>

AnyAckWillDo(packet) == A_state \in Waiting /\ ~corrupt(packet)

\* The acknowledgement A is waiting for.
IsAwaitedAck(packet) ==
  /\ A_state \in Waiting
  /\ ~corrupt(packet)
  /\ packet.acknum = Bit(A_state)

A_input(packet, n) ==
  \/ /\ IsAwaitedAck(packet)
     /\ net' = stoptimer(n, A)
     /\ A_state' = IF A_state = "WAIT_ACK_0" THEN "WAIT_1" ELSE "WAIT_0"
     /\ received' = received + 1
     /\ status' = IF received + 1 >= ExitAfter THEN "exited" ELSE status
     /\ UNCHANGED <<B_state, unacked_packet, accepted, delivered>>
  \/ /\ ~IsAwaitedAck(packet)
     /\ net' = n
     /\ UNCHANGED <<A_state, B_state, unacked_packet, received, status,
                    accepted, delivered>>

ResendOnce(n, how) == tolayer3(n, A, unacked_packet, how)

Resend(n, how) == starttimer(tolayer3(n, A, unacked_packet, how), A, TIMEOUT)

A_timerinterrupt(n, how) ==
  /\ net' = IF A_state \in Waiting THEN Resend(n, how) ELSE n
  /\ UNCHANGED <<A_state, B_state, unacked_packet, received, status,
                 accepted, delivered>>

AckPkt(bit) == make_pkt(0, bit, NoData)

B_input(packet, n, how) ==
  /\ UNCHANGED <<A_state, unacked_packet, received, status, accepted>>
  /\ LET bit == Bit(B_state)
     IN
      \/ /\ corrupt(packet) \/ packet.seqnum = 1 - bit
         /\ net' = tolayer3(n, B, AckPkt(1 - bit), how)
         /\ UNCHANGED <<B_state, delivered>>
      \/ /\ ~corrupt(packet) /\ packet.seqnum = bit
         /\ delivered' = Append(delivered, packet.payload)
         /\ net' = tolayer3(n, B, AckPkt(bit), how)
         /\ B_state' = IF B_state = "WAIT_0" THEN "WAIT_1" ELSE "WAIT_0"
      \/ /\ ~corrupt(packet) /\ packet.seqnum \notin {0, 1}
         /\ net' = n
         /\ UNCHANGED <<B_state, delivered>>

\* A_init and B_init, and the zeroed globals.
EntitiesInit ==
  /\ A_state = "WAIT_0"
  /\ B_state = "WAIT_0"
  /\ unacked_packet = [seqnum |-> 0, acknum |-> 0, checksum |-> 0,
                       payload |-> NoData]
  /\ received = 0
  /\ accepted = << >>
  /\ delivered = << >>
=============================================================================

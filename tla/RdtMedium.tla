----------------------------- MODULE RdtMedium -----------------------------
(***************************************************************************)
(* What the emulated medium of main.c may do to a packet, with a clock     *)
(* (EventList.tla) or without (FifoMedium.tla).                            *)
(***************************************************************************)
EXTENDS RdtPacket

CONSTANT DamageKinds   \* the ways in which the medium may damage a packet

ASSUME DamageAssumption == DamageKinds \subseteq {"payload", "seqnum", "acknum"}

\* What becomes of a packet: it is lost, it arrives as sent or damaged.
Fates == {"intact", "lost"} \cup DamageKinds

\* What tolayer3 may do to the copy of a packet in the medium: overwrite one
\* of three fields.
Damage(packet, fate) ==
  CASE fate = "payload" -> [packet EXCEPT !.payload.first = 90]
    [] fate = "seqnum"  -> [packet EXCEPT !.seqnum = 999999]
    [] fate = "acknum"  -> [packet EXCEPT !.acknum = 999999]
    [] OTHER            -> packet

\* The entity at which a packet sent by AorB arrives.
Peer(AorB) == (AorB + 1) % 2
=============================================================================

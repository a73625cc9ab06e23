----------------------------- MODULE RdtPacket -----------------------------
(***************************************************************************)
(* Packets of the reliable-data-transfer programs (rdt.h, rdt.c).          *)
(*                                                                         *)
(* The twenty payload bytes are kept as two numbers: byte 0, the only one  *)
(* the medium ever damages, and the value shared by the other nineteen     *)
(* (main.c fills a message with one letter).                               *)
(***************************************************************************)
EXTENDS Integers, Sequences

A == 0
B == 1
Entity == {A, B}

\* The payload of packets that carry no data: struct pkt is zeroed.
NoData == [first |-> 0, rest |-> 0]

\* The message the main loop hands to A_output: twenty times the letter
\* of the nsim-th call.
LayerFiveData(nsim) == [first |-> 97 + (nsim % 26), rest |-> 97 + (nsim % 26)]

Letters == {LayerFiveData(i) : i \in 0..25}

Pkt == [seqnum : Int, acknum : Int, checksum : Int,
        payload : [first : Int, rest : Int]]

ChecksumWithoutPayload(packet) == packet.seqnum + packet.acknum

calc_checksum(packet) ==
  packet.payload.first + 19 * packet.payload.rest
     + packet.seqnum + packet.acknum

corrupt(packet) == packet.checksum # calc_checksum(packet)

make_pkt(seq, ack, data) ==
  LET blank == [seqnum |-> seq, acknum |-> ack, checksum |-> 0, payload |-> data]
  IN  [blank EXCEPT !.checksum = calc_checksum(blank)]

=============================================================================

------------------------------ MODULE MCPings ------------------------------
(***************************************************************************)
(* Either of the two ping programs, ping_client.py with its server or      *)
(* ping.py.  They share nothing, so only one of them runs: the other one   *)
(* has ended before.                                                       *)
(***************************************************************************)
EXTENDS Pinger, IcmpPing

\* Words of a time that add up to nothing, to as much as they can, and with
\* the others to what does not fit 16 bits after it was folded once.
Pid == 65526

Words == {<<0, 0, 0, 0>>, <<65535, 65535, 65535, 65535>>, <<65535, 1, 0, 0>>,
          <<1, 0, 65535, 65535>>}

\* Nothing is on its way any more, and what was printed is of no interest.
PingerOver ==
  /\ phase = "done" /\ packets_received = 0
  /\ toServer = {} /\ toClient = {}
  /\ answers = << >> /\ ignored = {}

IcmpOver == /\ now = 0 /\ pc = "ended" /\ until = 0 /\ requests = 0
            /\ socket = << >> /\ printed = << >>
            /\ air = {} /\ lost = {}
            /\ sentAt = [k \in 1..Pings |-> Never]
            /\ arrivedAt = [k \in 1..Pings |-> Never]

PingsInit == \/ PingerInit /\ IcmpOver
             \/ IcmpInit /\ PingerOver

PingsNext == \/ PingerNext /\ UNCHANGED icmpVars
             \/ IcmpNext /\ UNCHANGED pingerVars

PingsSpec ==
  /\ PingsInit /\ [][PingsNext]_<<pingerVars, icmpVars>>
  /\ WF_pingerVars(PingClient /\ UNCHANGED icmpVars)
  /\ WF_icmpVars(Step /\ UNCHANGED pingerVars)
=============================================================================

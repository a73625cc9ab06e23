------------------------------ MODULE MCDvSim ------------------------------
\* The program of DvSim on the network of DvNetwork.  Between two routers a
\* packet takes one unit more than the packets before it, or, on its way from
\* router 0 or 1, up to three more.
EXTENDS DvSim, DvNetwork

Steady(r) == [d \in neighbors[r] |-> 1]
Rising(r) == [d \in neighbors[r] |-> 1 + ((d + r) % 3)]

SomeDelays(r) == IF r \in {0, 1} THEN {Steady(r), Rising(r)} ELSE {Steady(r)}

\* Two packets to one router may be due at the same time.
WithTies(r) == [neighbors[r] -> {0, 1}]

ASSUME NetworkAssumption ==
  AnyTime!Connected /\ AnyTime!LinksCost /\ AnyTime!StartsCautious
=============================================================================

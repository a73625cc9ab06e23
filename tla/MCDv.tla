-------------------------------- MODULE MCDv --------------------------------
\* The program of Dv on the network of DvNetwork.
EXTENDS Dv, DvNetwork

\* More than ever is on its way to a router, and little more than that.
UpTo20 == 0..20
UpTo4 == 0..4

ASSUME NetworkAssumption == Connected /\ LinksCost /\ StartsCautious
=============================================================================

------------------------------- MODULE MCGbn -------------------------------
EXTENDS Gbn
=============================================================================

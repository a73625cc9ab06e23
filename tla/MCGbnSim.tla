------------------------------ MODULE MCGbnSim ------------------------------
EXTENDS GbnSim
=============================================================================

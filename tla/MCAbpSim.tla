------------------------------ MODULE MCAbpSim ------------------------------
EXTENDS AbpSim
=============================================================================

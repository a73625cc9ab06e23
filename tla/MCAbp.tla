------------------------------- MODULE MCAbp -------------------------------
EXTENDS Abp
=============================================================================

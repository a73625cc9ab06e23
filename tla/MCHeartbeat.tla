---------------------------- MODULE MCHeartbeat ----------------------------
EXTENDS Heartbeat
=============================================================================

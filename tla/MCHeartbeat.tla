---------------------------- MODULE MCHeartbeat ----------------------------
(* An instance of Heartbeat for TLC; the period and the time to live are    *)
(* those of the code.                                                       *)
EXTENDS Heartbeat, TLC
============================================================================

----------------------------- MODULE MCHeartbeat -----------------------------
(* Small instances of Heartbeat; its runs only give the constants values.   *)
EXTENDS Heartbeat
=============================================================================

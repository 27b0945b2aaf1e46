-------------------------- MODULE MCChannelProcess --------------------------
(* Three PIDs; one process starting at a time, or two.                      *)
EXTENDS ChannelProcess
=============================================================================

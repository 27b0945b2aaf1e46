------------------------------ MODULE MCGateway ------------------------------
(* Small instances of Gateway; the bounds are given in the .cfg files.      *)
EXTENDS Gateway
=============================================================================

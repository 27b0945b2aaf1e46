---------------------------- MODULE MCBotManager ----------------------------
(* Two accounts: a user's message for one, a group's for the other, and a   *)
(* request of the API for the second.                                       *)
EXTENDS BotManager, TLC

CONSTANTS A, B, e1, f1, u1, u2, g, q1

MCAccountOf == (e1 :> A) @@ (f1 :> B)
MCSenderOf == (e1 :> u1) @@ (f1 :> u2)
MCGroupOf == (e1 :> NONE) @@ (f1 :> g)
MCTargetOf == (q1 :> B)
=============================================================================

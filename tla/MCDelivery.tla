---------------------------- MODULE MCDelivery ----------------------------
\* m1 and m3 are of one account and one sender, in two chats.
EXTENDS Delivery
AccountDef(e) == IF e = "m2" THEN "B" ELSE "A"
AuthorDef(e) == IF e = "m2" THEN "bob" ELSE "ann"
TypeDef(e) == CASE e = "m1" -> "C2C_MESSAGE_CREATE"
                [] e = "m2" -> "DIRECT_MESSAGE_CREATE"
                [] OTHER    -> "GROUP_AT_MESSAGE_CREATE"
PlaceDef(e) == "place"
===========================================================================

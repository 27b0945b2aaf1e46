--------------------------- MODULE MCMessageQueue ---------------------------
(***************************************************************************)
(* A small instance of MessageQueue: three calls of Enqueue, either all    *)
(* for key A, or two for A and one for B, or fewer.                        *)
(***************************************************************************)
EXTENDS MessageQueue

CONSTANTS A, B

MCKeyOf == [i \in Items |-> IF i = 4 THEN B ELSE A]

(* Bound: three calls begin, those for A in the order of their numbers,     *)
(* which are only names.  No call has to begin, so what is left out are     *)
(* other behaviours, not the ends of these.                                 *)
Calls == {i \in Items : epc[i] # "idle"}
ThreeCalls ==
  /\ Cardinality(Calls) <= 3
  /\ \A i \in 2 .. 3 : i \in Calls => i - 1 \in Calls
=============================================================================

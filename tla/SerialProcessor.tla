--------------------------- MODULE SerialProcessor ---------------------------
(***************************************************************************)
(* What the message queue promises (internal/gateway/queue.go:24): the     *)
(* items of one key are processed one at a time in the order they were     *)
(* accepted, keys in parallel up to a limit.  Nothing accepted is lost     *)
(* unless the processor is closing.                                        *)
(***************************************************************************)
EXTENDS Integers, Sequences, FiniteSets

CONSTANTS Keys, Items, KeyOf, Limit, MaxParallel, NONE

VARIABLES
  accepted,   \* the items taken so far
  pending,    \* per key, the accepted items that have not started
  running,    \* per key, the item being processed
  finished,   \* the items processed
  closing

avars == <<accepted, pending, running, finished, closing>>

AInit ==
  /\ accepted = {}
  /\ pending = [k \in Keys |-> << >>]
  /\ running = [k \in Keys |-> NONE]
  /\ finished = {}
  /\ closing = FALSE

Backlog(k) == Len(pending[k]) + (IF running[k] = NONE THEN 0 ELSE 1)

Accept(i) ==
  /\ i \notin accepted
  /\ closing \/ Backlog(KeyOf[i]) < Limit
  /\ accepted' = accepted \cup {i}
  /\ pending' = [pending EXCEPT ![KeyOf[i]] = Append(@, i)]
  /\ UNCHANGED <<running, finished, closing>>

Begin(k) ==
  /\ running[k] = NONE
  /\ pending[k] # << >>
  /\ Cardinality({j \in Keys : running[j] # NONE}) < MaxParallel
  /\ running' = [running EXCEPT ![k] = Head(pending[k])]
  /\ pending' = [pending EXCEPT ![k] = Tail(@)]
  /\ UNCHANGED <<accepted, finished, closing>>

Finish(k) ==
  /\ running[k] # NONE
  /\ finished' = finished \cup {running[k]}
  /\ running' = [running EXCEPT ![k] = NONE]
  /\ UNCHANGED <<accepted, pending, closing>>

Close ==
  /\ closing' = TRUE
  /\ UNCHANGED <<accepted, pending, running, finished>>

(* Closing abandons what has not started, and what still arrives.           *)
Abandon(k) ==
  /\ closing
  /\ pending' = [pending EXCEPT ![k] = << >>]
  /\ UNCHANGED <<accepted, running, finished, closing>>

AcceptAndAbandon(i) ==
  /\ closing
  /\ i \notin accepted
  /\ accepted' = accepted \cup {i}
  /\ UNCHANGED <<pending, running, finished, closing>>

ANext ==
  \/ \E i \in Items : Accept(i) \/ AcceptAndAbandon(i)
  \/ \E k \in Keys : Begin(k) \/ Finish(k) \/ Abandon(k)
  \/ Close

ASpec == AInit /\ [][ANext]_avars
=============================================================================

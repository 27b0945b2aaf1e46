----------------------------- MODULE EventStream -----------------------------
(***************************************************************************)
(* What a gateway promises to whoever handles its events, whatever the     *)
(* network, the server and restarts do (internal/gateway/gateway.go:90-385 *)
(* with internal/store/session.go:66-107): while it runs it keeps a        *)
(* session until the server ends it and takes the events of the session    *)
(* one after the other, none twice.  A restart goes on with the session    *)
(* opened last or with none.  It passes over nothing, and what it takes    *)
(* again is at most the last event taken.                                  *)
(***************************************************************************)
EXTENDS Integers

CONSTANTS Sessions, Places, NONE

VARIABLES
  running,
  current,    \* the session events are taken from
  place,      \* how far it has been taken; READY is the first place
  taken,      \* the events handed on, as <<session, place>>
  opened,     \* the sessions so far, numbered in the order they are opened
  ended       \* those the server has ended

svars == <<running, current, place, taken, opened, ended>>

SInit ==
  /\ running = FALSE
  /\ current = NONE /\ place = 0
  /\ taken = {} /\ opened = {} /\ ended = {}

Holding(s, n) == current' = s /\ place' = n

(* A place to go on from: nothing before it is missing, and nothing but the *)
(* event after it has been taken already.                                   *)
SafePlace(s, n) ==
  /\ n >= 1
  /\ \A m \in 2 .. n : <<s, m>> \in taken
  /\ \A e \in taken : e[1] = s => e[2] <= n + 1

StartAfresh ==
  /\ ~running /\ running' = TRUE
  /\ Holding(NONE, 0)
  /\ UNCHANGED <<taken, opened, ended>>

StartFrom(s, n) ==
  /\ ~running /\ running' = TRUE
  /\ s \in opened /\ \A t \in opened : t <= s
  /\ s \in ended \/ SafePlace(s, n)
  /\ Holding(s, n)
  /\ UNCHANGED <<taken, opened, ended>>

Open(s) ==
  /\ running /\ current = NONE
  /\ \A t \in opened : t < s
  /\ Holding(s, 1)
  /\ opened' = opened \cup {s}
  /\ UNCHANGED <<running, taken, ended>>

Take ==
  /\ running /\ current # NONE /\ current \notin ended
  /\ Holding(current, place + 1)
  /\ taken' = taken \cup {<<current, place + 1>>}
  /\ UNCHANGED <<running, opened, ended>>

(* The only way a running gateway lets go of a session.                     *)
End ==
  /\ running /\ current # NONE
  /\ Holding(NONE, 0)
  /\ ended' = ended \cup {current}
  /\ UNCHANGED <<running, taken, opened>>

Die ==
  /\ running /\ running' = FALSE
  /\ Holding(NONE, 0)
  /\ UNCHANGED <<taken, opened, ended>>

SNext ==
  \/ StartAfresh \/ Take \/ End \/ Die
  \/ \E s \in Sessions : Open(s) \/ \E n \in Places : StartFrom(s, n)

SSpec == SInit /\ [][SNext]_svars
=============================================================================

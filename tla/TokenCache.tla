----------------------------- MODULE TokenCache -----------------------------
(***************************************************************************)
(* internal/api/token.go: the access token of one app, the callers that    *)
(* need it (every API request and the gateway's Connect) and the goroutine *)
(* that refreshes it, with Init and Close of internal/api/client.go.       *)
(*                                                                         *)
(* Time is what is left: ttl until the cached token expires (0: it has, or *)
(* there is none), wait until the refresher's timer fires.  A request to   *)
(* the token server fails because the server failed, because its 30 s are  *)
(* over or because the context of the caller that makes it was cancelled;  *)
(* the callers that share the request get that error too.  Clear, ClearAll *)
(* and GetStatus have no callers.                                          *)
(***************************************************************************)
EXTENDS Integers

CONSTANTS
  Callers,
  Refresher,       \* the goroutine of StartBackgroundRefresh
  ExpiresIn,       \* what the server may answer in expires_in
  DefaultExpiry,   \* taken instead of an expires_in that is not positive
  EarlyExpiry,     \* a token is not handed out this long before it expires
  RefreshAhead,    \* and refreshed this long before
  MinRefresh, RetryDelay,
  NONE

ASSUME TokenAssumption ==
  /\ Refresher \notin Callers /\ NONE \notin Callers \cup {Refresher}
  /\ ExpiresIn \subseteq Nat
  /\ {DefaultExpiry, EarlyExpiry, RefreshAhead, MinRefresh, RetryDelay} \subseteq Nat

Procs == Callers \cup {Refresher}
Lifetime(e) == IF e > 0 THEN e ELSE DefaultExpiry

VARIABLES
  ttl,
  flight,          \* the caller whose function the singleflight group runs
  pc,
  wait,
  closed,          \* the refresher's context is cancelled
  failure          \* history: the request that p made or joined has failed

vars == <<ttl, flight, pc, wait, closed, failure>>

States == {"off", "idle", "missed", "leading", "fetching", "stored", "errored",
           "waiting", "returned", "failed", "sleeping", "stopped"}

TypeOK ==
  /\ ttl \in Nat
  /\ flight \in Procs \cup {NONE}
  /\ pc \in [Procs -> States]
  /\ wait \in Nat
  /\ closed \in BOOLEAN
  /\ failure \in [Procs -> BOOLEAN]

Init ==
  /\ ttl = 0 /\ flight = NONE /\ wait = 0 /\ closed = FALSE
  /\ pc = [p \in Procs |-> IF p = Refresher THEN "off" ELSE "idle"]
  /\ failure = [p \in Procs |-> FALSE]

Usable == ttl > EarlyExpiry
Goto(p, s) == pc' = [pc EXCEPT ![p] = s]

-----------------------------------------------------------------------------
(* BotManager.Start calls Init once, before anything needs a token.         *)
InitClient ==
  /\ pc[Refresher] = "off"
  /\ Goto(Refresher, "idle")
  /\ UNCHANGED <<ttl, flight, wait, closed, failure>>

Close ==
  /\ ~closed /\ pc[Refresher] # "off"
  /\ closed' = TRUE
  /\ UNCHANGED <<ttl, flight, pc, wait, failure>>

-----------------------------------------------------------------------------
\* Mutant: the refresher's loop does not ask its context.
GetUnasked(p) ==
  /\ pc[p] = "idle"
  /\ pc[Refresher] # "off"
  /\ Goto(p, IF Usable THEN "returned" ELSE "missed")
  /\ UNCHANGED <<ttl, flight, wait, closed, failure>>

(* GetAccessToken: the first look at the cache, under the read lock.  The   *)
(* refresher first asks its context.                                        *)
GetAccessToken(p) ==
  /\ pc[p] = "idle"
  /\ pc[Refresher] # "off"
  /\ p = Refresher => ~closed
  /\ Goto(p, IF Usable THEN "returned" ELSE "missed")
  /\ UNCHANGED <<ttl, flight, wait, closed, failure>>

(* sf.Do: the first caller runs fetchToken, the others wait for its result. *)
Do(p) ==
  /\ pc[p] = "missed"
  /\ \/ flight = NONE /\ flight' = p /\ Goto(p, "leading")
     \/ flight # NONE /\ UNCHANGED flight /\ Goto(p, "waiting")
  /\ failure' = [failure EXCEPT ![p] = flight # NONE /\ pc[flight] = "errored"]
  /\ UNCHANGED <<ttl, wait, closed>>

\* Mutant: fetchToken does not look at the cache again.
FetchAtOnce(p) ==
  /\ pc[p] = "leading"
  /\ Goto(p, "fetching")
  /\ UNCHANGED <<ttl, flight, wait, closed, failure>>

DoubleCheck(p) ==
  /\ pc[p] = "leading"
  /\ Goto(p, IF Usable THEN "stored" ELSE "fetching")
  /\ UNCHANGED <<ttl, flight, wait, closed, failure>>

(* The answer, and the token stored under the lock.                         *)
FetchSucceeds(p, e) ==
  /\ pc[p] = "fetching"
  /\ ttl' = Lifetime(e)
  /\ Goto(p, "stored")
  /\ UNCHANGED <<flight, wait, closed, failure>>

FetchFails(p) ==
  /\ pc[p] = "fetching"
  /\ Goto(p, "errored")
  /\ failure' = [q \in Procs |-> failure[q] \/ q = p \/ pc[q] = "waiting"]
  /\ UNCHANGED <<ttl, flight, wait, closed>>

(* fetchToken returns: the group forgets the call and hands its result to   *)
(* every caller that waits for it.                                          *)
EndFlight(p) ==
  /\ pc[p] \in {"stored", "errored"}
  /\ flight' = NONE
  /\ pc' = [q \in Procs |->
             IF q = p \/ pc[q] = "waiting"
             THEN IF pc[p] = "stored" THEN "returned" ELSE "failed"
             ELSE pc[q]]
  /\ UNCHANGED <<ttl, wait, closed, failure>>

Return(c) ==
  /\ c \in Callers
  /\ pc[c] \in {"returned", "failed"}
  /\ Goto(c, "idle")
  /\ UNCHANGED <<ttl, flight, wait, closed, failure>>

-----------------------------------------------------------------------------
\* Mutant: the time to the next refresh has no lower bound.
ScheduleUnbounded ==
  /\ \/ pc[Refresher] = "returned" /\ wait' = ttl - RefreshAhead /\ Goto(Refresher, "sleeping")
     \/ /\ pc[Refresher] = "failed" /\ ~closed
        /\ wait' = RetryDelay
        /\ Goto(Refresher, "sleeping")
     \/ pc[Refresher] = "failed" /\ closed /\ UNCHANGED wait /\ Goto(Refresher, "stopped")
  /\ UNCHANGED <<ttl, flight, closed, failure>>

\* Mutant: the refresher ends when it could not get a token.
RefreshGivesUp ==
  /\ \/ /\ pc[Refresher] = "returned"
        /\ wait' = IF ttl - RefreshAhead > MinRefresh THEN ttl - RefreshAhead ELSE MinRefresh
        /\ Goto(Refresher, "sleeping")
     \/ pc[Refresher] = "failed" /\ UNCHANGED wait /\ Goto(Refresher, "stopped")
  /\ UNCHANGED <<ttl, flight, closed, failure>>

(* The loop's body after GetAccessToken.                                    *)
Schedule ==
  /\ \/ /\ pc[Refresher] = "returned"
        /\ wait' = IF ttl - RefreshAhead > MinRefresh THEN ttl - RefreshAhead ELSE MinRefresh
        /\ Goto(Refresher, "sleeping")
     \/ /\ pc[Refresher] = "failed" /\ ~closed
        /\ wait' = RetryDelay
        /\ Goto(Refresher, "sleeping")
     \/ pc[Refresher] = "failed" /\ closed /\ UNCHANGED wait /\ Goto(Refresher, "stopped")
  /\ UNCHANGED <<ttl, flight, closed, failure>>

Wake ==
  /\ pc[Refresher] = "sleeping" /\ wait = 0
  /\ Goto(Refresher, "idle")
  /\ UNCHANGED <<ttl, flight, wait, closed, failure>>

RefreshStops ==
  /\ closed /\ pc[Refresher] \in {"idle", "sleeping"}
  /\ Goto(Refresher, "stopped")
  /\ UNCHANGED <<ttl, flight, wait, closed, failure>>

Tick ==
  /\ ttl > 0 \/ wait > 0
  /\ ttl' = IF ttl = 0 THEN 0 ELSE ttl - 1
  /\ wait' = IF wait = 0 THEN 0 ELSE wait - 1
  /\ UNCHANGED <<flight, pc, closed, failure>>

Get(p) ==
  \/ GetAccessToken(p) \/ Do(p) \/ DoubleCheck(p) \/ EndFlight(p)
  \/ FetchFails(p) \/ \E e \in ExpiresIn : FetchSucceeds(p, e)
Refresh == Schedule \/ Wake \/ RefreshStops

Next ==
  \/ \E p \in Procs : Get(p) \/ Return(p)
  \/ InitClient \/ Close \/ Refresh \/ Tick

Spec == Init /\ [][Next]_vars

(* Every goroutine runs on: GetAccessToken once called, the refresher, the  *)
(* clock.  The 30 s timeout ends a request.  A server that is asked again   *)
(* and again does answer with a token that lives longer than EarlyExpiry.   *)
FairSpec ==
  /\ Spec /\ WF_vars(Tick) /\ WF_vars(Refresh) /\ WF_vars(GetAccessToken(Refresher))
  /\ \A p \in Procs :
       WF_vars(Do(p) \/ DoubleCheck(p) \/ EndFlight(p) \/ FetchFails(p))
  /\ SF_vars(\E p \in Procs, e \in ExpiresIn :
               Lifetime(e) > EarlyExpiry /\ FetchSucceeds(p, e))

-----------------------------------------------------------------------------
(* The token server is asked by one caller at a time, and never while the   *)
(* cache holds a token that would have done: singleflight alone does not    *)
(* give that to a caller that missed the cache before the last request      *)
(* ended.                                                                   *)
NoNeedlessFetch ==
  \A p \in Procs : pc[p] = "fetching" => ~Usable /\ flight = p

(* GetAccessToken returns an error only to the callers that made or joined  *)
(* the request that failed: a failure is never handed to a later caller.    *)
FailureHasCause ==
  \A p \in Procs : pc[p] = "failed" => failure[p]

(* Both ends of a shared request (token.go:105-124).                        *)
FetchesJustified == NoNeedlessFetch /\ FailureHasCause

(* A call of GetAccessToken returns, whoever makes the request; and once    *)
(* the client is closed the refresher ends.                                 *)
CallsReturn ==
  /\ \A p \in Procs : pc[p] = "missed" ~> pc[p] \in {"returned", "failed"}
  /\ closed ~> pc[Refresher] = "stopped"

(* As long as the client is open, the cache gets a usable token again after *)
(* every expiry and every failure, without any caller asking for one.       *)
TokenComesBack ==
  [](pc[Refresher] # "off" => <>(Usable \/ closed))
=============================================================================

-------------------------- MODULE TokenCacheProofs --------------------------
(***************************************************************************)
(* Theorems about TokenCache for any set of callers, any lifetimes the     *)
(* server may answer and any margins.                                      *)
(***************************************************************************)
EXTENDS TokenCache, TLAPS

Running == {"leading", "fetching", "stored", "errored"}

(* The group runs the function of exactly one process, the one it names.    *)
OneFlight == \A p \in Procs : pc[p] \in Running <=> flight = p

(* Whoever waits, waits for a call that is under way.                       *)
WaitersAreServed == \A p \in Procs : pc[p] = "waiting" => flight # NONE

(* Only the process that asks the server stores a token, and it found none. *)
NothingCached == \A p \in Procs : pc[p] = "fetching" => ~Usable

(* A call that failed is noted for the process that made it, for those that *)
(* wait for it and for those it has been handed to.                         *)
FailureNoted ==
  \A p \in Procs :
    /\ pc[p] \in {"errored", "failed"} => failure[p]
    /\ \A q \in Procs :
         (pc[p] = "waiting" /\ flight = q /\ pc[q] = "errored") => failure[p]

(* The inductive invariant of the theorems below.                           *)
IInv == TypeOK /\ OneFlight /\ WaitersAreServed /\ NothingCached /\ FailureNoted

USE TokenAssumption DEF Procs

LEMMA InitIInv == Init => IInv
  <1> SUFFICES ASSUME Init PROVE IInv
    OBVIOUS
  <1>1. /\ flight = NONE /\ \A p \in Procs : flight # p
        /\ \A p \in Procs : pc[p] \in {"off", "idle"}
    BY DEF Init
  <1>2. TypeOK
    <2>1. pc \in [Procs -> States]
      BY DEF Init, States
    <2>2. failure \in [Procs -> BOOLEAN]
      BY DEF Init
    <2> QED
      BY <2>1, <2>2 DEF Init, TypeOK
  <1>3. OneFlight
    BY <1>1 DEF OneFlight, Running
  <1>4. WaitersAreServed /\ NothingCached /\ FailureNoted
    BY <1>1 DEF WaitersAreServed, NothingCached, FailureNoted
  <1> QED
    BY <1>2, <1>3, <1>4 DEF IInv

(* What the server answers is stored as a natural number.                   *)
LEMMA LifetimeIsNat == \A e \in ExpiresIn : Lifetime(e) \in Nat
  BY DEF Lifetime

(* The steps that move one process outside the group's call.                *)
LEMMA QuietSteps ==
  ASSUME IInv, NEW p \in Procs,
         InitClient \/ Close \/ GetAccessToken(p) \/ Return(p) \/ Refresh \/ Tick
  PROVE  IInv'
  <1> USE DEF IInv, TypeOK, Goto, Usable, States
  <1> DEFINE Parts == OneFlight' /\ WaitersAreServed' /\ NothingCached' /\ FailureNoted'
  <1> USE DEF OneFlight, WaitersAreServed, NothingCached, FailureNoted, Running
  <1>1. CASE InitClient
    BY <1>1 DEF InitClient
  <1>2. CASE Close
    BY <1>2 DEF Close
  <1>3. CASE GetAccessToken(p)
    BY <1>3 DEF GetAccessToken
  <1>4. CASE Return(p)
    BY <1>4 DEF Return
  <1>5. CASE Schedule
    <2>1. wait' \in Nat
      BY <1>5 DEF Schedule
    <2> QED
      BY <1>5, <2>1 DEF Schedule
  <1>6. CASE Wake \/ RefreshStops
    BY <1>6 DEF Wake, RefreshStops
  <1>7. CASE Tick
    <2>1. ttl' \in Nat /\ wait' \in Nat /\ ttl' <= ttl
      BY <1>7 DEF Tick
    <2>2. UNCHANGED <<flight, pc, closed, failure>>
      BY <1>7 DEF Tick
    <2> QED
      BY <2>1, <2>2
  <1> QED
    BY <1>1, <1>2, <1>3, <1>4, <1>5, <1>6, <1>7 DEF Refresh

(* A process begins the shared call or joins it.                            *)
LEMMA DoStep ==
  ASSUME IInv, NEW p \in Procs, Do(p)
  PROVE  IInv'
  <1> USE DEF IInv, TypeOK, Goto, Usable, States, OneFlight, WaitersAreServed,
              NothingCached, FailureNoted, Running
  <1>1. pc[p] = "missed" /\ UNCHANGED <<ttl, wait, closed>>
    BY DEF Do
  <1>2. CASE flight = NONE /\ flight' = p /\ Goto(p, "leading")
    BY <1>1, <1>2 DEF Do
  <1>3. CASE flight # NONE /\ UNCHANGED flight /\ Goto(p, "waiting")
    BY <1>1, <1>3 DEF Do
  <1> QED
    BY <1>2, <1>3 DEF Do

(* The call itself: the second look at the cache and the request.           *)
LEMMA FetchSteps ==
  ASSUME IInv, NEW p \in Procs,
         DoubleCheck(p) \/ FetchFails(p) \/ \E e \in ExpiresIn : FetchSucceeds(p, e)
  PROVE  IInv'
  <1> USE DEF IInv, TypeOK, Goto, Usable, States, OneFlight, WaitersAreServed,
              NothingCached, FailureNoted, Running
  <1>1. CASE DoubleCheck(p)
    BY <1>1 DEF DoubleCheck
  <1>2. CASE FetchFails(p)
    BY <1>2 DEF FetchFails
  <1>3. CASE \E e \in ExpiresIn : FetchSucceeds(p, e)
    <2>1. ttl' \in Nat
      BY <1>3, LifetimeIsNat DEF FetchSucceeds
    <2>2. pc[p] = "fetching" /\ Goto(p, "stored") /\ UNCHANGED <<flight, wait, closed, failure>>
      BY <1>3 DEF FetchSucceeds
    <2>3. \A q \in Procs : pc[q] = "fetching" => q = p
      BY <2>2
    <2> QED
      BY <2>1, <2>2, <2>3
  <1> QED
    BY <1>1, <1>2, <1>3

(* The call ends, for the process that made it and for all that wait.       *)
LEMMA EndFlightStep ==
  ASSUME IInv, NEW p \in Procs, EndFlight(p)
  PROVE  IInv'
  <1> USE DEF IInv, TypeOK, Usable, States, OneFlight, WaitersAreServed,
              NothingCached, FailureNoted, Running
  <1>1. /\ pc[p] \in {"stored", "errored"} /\ flight = p
        /\ flight' = NONE /\ UNCHANGED <<ttl, wait, closed, failure>>
    BY DEF EndFlight
  <1>2. TypeOK'
    BY <1>1 DEF EndFlight
  <1>3. \A q \in Procs : pc'[q] \notin Running /\ pc'[q] # "waiting"
    BY <1>1 DEF EndFlight
  <1>4. \A q \in Procs : pc'[q] = "failed" => failure[q]
    BY <1>1 DEF EndFlight
  <1> QED
    BY <1>1, <1>2, <1>3, <1>4

LEMMA NextIInv == IInv /\ [Next]_vars => IInv'
  <1> SUFFICES ASSUME IInv, [Next]_vars PROVE IInv'
    OBVIOUS
  <1>1. CASE \E p \in Procs : Get(p)
    BY <1>1, QuietSteps, DoStep, FetchSteps, EndFlightStep DEF Get
  <1>2. CASE \E p \in Procs : Return(p)
    BY <1>2, QuietSteps
  <1>3. CASE InitClient \/ Close \/ Refresh \/ Tick
    BY <1>3, QuietSteps
  <1>4. CASE UNCHANGED vars
    BY <1>4 DEF vars, IInv, TypeOK, OneFlight, WaitersAreServed, NothingCached,
                FailureNoted, Usable
  <1> QED
    BY <1>1, <1>2, <1>3, <1>4 DEF Next

LEMMA IInvHolds == Spec => []IInv
  BY InitIInv, NextIInv, PTL DEF Spec

-----------------------------------------------------------------------------
(* Every variable keeps its type.                                           *)
THEOREM TypeCorrect == Spec => []TypeOK
  <1>1. IInv => TypeOK
    BY DEF IInv
  <1> QED
    BY IInvHolds, <1>1, PTL

(* The server is asked by one process at a time, never while a token that   *)
(* would do is cached; and whoever gets an error made or joined the request *)
(* that failed.                                                             *)
THEOREM FetchesAreJustified == Spec => []FetchesJustified
  <1>1. IInv => FetchesJustified
    BY DEF IInv, OneFlight, NothingCached, FailureNoted, Running, FetchesJustified,
           NoNeedlessFetch, FailureHasCause
  <1> QED
    BY IInvHolds, <1>1, PTL
=============================================================================

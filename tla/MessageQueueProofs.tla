------------------------- MODULE MessageQueueProofs -------------------------
(***************************************************************************)
(* Theorems about MessageQueue for any number of keys, items and callers.  *)
(***************************************************************************)
EXTENDS MessageQueue, FiniteSetTheorems, TLAPS

(* The set of workers in a state of S.                                      *)
WorkersIn(S) == {w \in Items : wpc[w] \in S}

LEMMA WorkersInFinite == \A S : IsFiniteSet(WorkersIn(S))
  BY QueueAssumption, FS_Subset DEF WorkersIn

(* A worker that enters S makes WorkersIn(S) one larger.                    *)
LEMMA WorkerEnters ==
  ASSUME NEW w \in Items, NEW S, NEW to, TypeOK,
         wpc' = [wpc EXCEPT ![w] = to], to \in S, wpc[w] \notin S
  PROVE  Cardinality(WorkersIn(S)') = Cardinality(WorkersIn(S)) + 1
  <1>1. WorkersIn(S)' = WorkersIn(S) \cup {w}
    BY DEF WorkersIn, TypeOK
  <1>2. w \notin WorkersIn(S)
    BY DEF WorkersIn
  <1>3. QED
    BY <1>1, <1>2, WorkersInFinite, FS_AddElement

(* A worker that leaves S makes WorkersIn(S) one smaller, and S held it.    *)
LEMMA WorkerLeaves ==
  ASSUME NEW w \in Items, NEW S, NEW to, TypeOK,
         wpc' = [wpc EXCEPT ![w] = to], to \notin S, wpc[w] \in S
  PROVE  /\ Cardinality(WorkersIn(S)') = Cardinality(WorkersIn(S)) - 1
         /\ Cardinality(WorkersIn(S)) \in Nat \ {0}
  <1>1. WorkersIn(S)' = WorkersIn(S) \ {w}
    BY DEF WorkersIn, TypeOK
  <1>2. w \in WorkersIn(S)
    BY DEF WorkersIn
  <1>3. Cardinality(WorkersIn(S)') = Cardinality(WorkersIn(S)) - 1
    BY <1>1, <1>2, WorkersInFinite, FS_RemoveElement
  <1>4. Cardinality(WorkersIn(S)) \in Nat
    BY WorkersInFinite, FS_CardinalityType
  <1>5. Cardinality(WorkersIn(S)) # 0
    BY <1>2, WorkersInFinite, FS_EmptySet
  <1>6. QED
    BY <1>3, <1>4, <1>5

(* A worker that moves without entering or leaving S leaves it alone.       *)
LEMMA WorkerStays ==
  ASSUME NEW w \in Items, NEW S, NEW to, TypeOK,
         wpc' = [wpc EXCEPT ![w] = to], to \in S <=> wpc[w] \in S
  PROVE  WorkersIn(S)' = WorkersIn(S)
  BY DEF WorkersIn, TypeOK

-----------------------------------------------------------------------------
(* A call that has not reserved yet has created no worker.                  *)
FreshCalls == \A i \in Items : epc[i] \in {"idle", "checked"} => wpc[i] = "none"

(* A worker past its receive holds an item.                                 *)
BusyHasItem ==
  \A w \in Items :
    wpc[w] \in {"acquire", "handle", "decrement", "drop"} => cur[w] \in Items

(* The inductive invariant.  TypeOK alone is not inductive: the semaphore   *)
(* stays non-negative because only counted workers give a slot back         *)
(* (SemaphoreExact), and a created worker is counted once because its name  *)
(* was never used before (FreshCalls).                                      *)
IInv ==
  /\ TypeOK
  /\ FreshCalls
  /\ BusyHasItem
  /\ WorkerOwnsKey
  /\ SemaphoreExact
  /\ WaitGroupExact

Handling == WorkersIn({"handle"})
Counted  == WorkersIn(WorkerStates \ {"none", "gone"})

LEMMA ExactCounts ==
  TypeOK => /\ SemaphoreExact <=> semaphore = Cardinality(Handling)
            /\ WaitGroupExact <=> wg = Cardinality(Counted)
  <1> SUFFICES ASSUME TypeOK
               PROVE  /\ SemaphoreExact <=> semaphore = Cardinality(Handling)
                      /\ WaitGroupExact <=> wg = Cardinality(Counted)
    OBVIOUS
  <1>1. {w \in Items : wpc[w] = "handle"} = Handling
    BY DEF Handling, WorkersIn
  <1>2. {w \in Items : wpc[w] \notin {"none", "gone"}} = Counted
    BY DEF Counted, WorkersIn, TypeOK
  <1> QED
    BY <1>1, <1>2 DEF SemaphoreExact, WaitGroupExact

LEMMA InitIInv == Init => IInv
  <1> SUFFICES ASSUME Init PROVE IInv
    OBVIOUS
  <1>1. TypeOK
    <2>1. buf \in [Items -> Seq(Items)]
      BY DEF Init
    <2>2. semaphore \in 0 .. MaxConcurrent /\ wg \in Int
      BY QueueAssumption DEF Init
    <2>3. perUserCount \in [Keys -> 0 .. PerUserSize]
      BY QueueAssumption DEF Init
    <2> QED
      BY <2>1, <2>2, <2>3 DEF Init, TypeOK, EnqueueStates, WorkerStates, StopStates
  <1>2. FreshCalls /\ BusyHasItem /\ WorkerOwnsKey
    BY DEF Init, FreshCalls, BusyHasItem, WorkerOwnsKey, Live
  <1>3. Handling = {} /\ Counted = {}
    BY DEF Init, Handling, Counted, WorkersIn
  <1>4. SemaphoreExact /\ WaitGroupExact
    BY <1>1, <1>3, ExactCounts, FS_EmptySet DEF Init
  <1> QED
    BY <1>1, <1>2, <1>4 DEF IInv

(* A worker in its handler holds one of the slots counted.                  *)
LEMMA SlotInUse ==
  ASSUME NEW w \in Items, TypeOK, SemaphoreExact, wpc[w] = "handle"
  PROVE  semaphore \in 1 .. MaxConcurrent
  <1>1. w \in Handling /\ IsFiniteSet(Handling)
    BY WorkersInFinite DEF Handling, WorkersIn
  <1>2. Cardinality(Handling) # 0
    BY <1>1, FS_EmptySet
  <1>3. semaphore = Cardinality(Handling) /\ semaphore \in 0 .. MaxConcurrent
    BY ExactCounts DEF TypeOK
  <1> QED
    BY <1>2, <1>3, QueueAssumption

(* Type correctness of the steps, one action at a time.                     *)
LEMMA TypeStep ==
  ASSUME IInv, [Next]_vars
  PROVE  TypeOK'
  <1> USE QueueAssumption DEF IInv, TypeOK, EnqueueStates, WorkerStates,
        StopStates, enqueueVars, mapVars, workerVars, stopVars
  <1>1. ASSUME NEW i \in Items, Enqueue(i) PROVE TypeOK'
    <2>1. CASE CheckStopped(i)   BY <2>1 DEF CheckStopped, EnqueueStep
    <2>2. CASE RejectFull(i)     BY <2>2 DEF RejectFull, EnqueueStep
    <2>3. CASE Reserve(i)
      <3>1. perUserCount' \in [Keys -> 0 .. PerUserSize]
        BY <2>3 DEF Reserve
      <3>2. /\ perUserCh' \in [Keys -> Items \cup {NONE}]
            /\ ech' \in [Items -> Items \cup {NONE}]
            /\ wpc' \in [Items -> WorkerStates]
            /\ wg' \in Int
        <4>1. KeyOf[i] \in Keys
          OBVIOUS
        <4>2. CASE /\ perUserCh[KeyOf[i]] # NONE
                   /\ ech' = [ech EXCEPT ![i] = perUserCh[KeyOf[i]]]
                   /\ UNCHANGED <<perUserCh, wpc, wg>>
          BY <4>1, <4>2
        <4>3. CASE /\ perUserCh[KeyOf[i]] = NONE
                   /\ perUserCh' = [perUserCh EXCEPT ![KeyOf[i]] = i]
                   /\ ech' = [ech EXCEPT ![i] = i]
                   /\ wpc' = [wpc EXCEPT ![i] = "select"]
                   /\ wg' = wg + 1
          BY <4>1, <4>3
        <4> QED
          BY <2>3, <4>2, <4>3 DEF Reserve
      <3> QED
        BY <2>3, <3>1, <3>2 DEF Reserve, EnqueueStep
    <2>4. CASE Send(i)
      <3>1. \A c \in Items : Append(buf[c], i) \in Seq(Items)
        OBVIOUS
      <3>2. buf' = [buf EXCEPT ![ech[i]] = Append(@, i)]
        BY <2>4 DEF Send
      <3>3. buf' \in [Items -> Seq(Items)]
        <4>1. /\ DOMAIN buf' = Items
              /\ buf' = [c \in Items |-> IF c = ech[i] THEN Append(buf[c], i) ELSE buf[c]]
          BY ONLY <3>2, buf \in [Items -> Seq(Items)]
        <4> QED
          BY ONLY <4>1, <3>1, buf \in [Items -> Seq(Items)]
      <3> QED
        BY <2>4, <3>3 DEF Send, EnqueueStep
    <2>5. CASE SendCancelled(i)  BY <2>5 DEF SendCancelled, EnqueueStep
    <2>6. CASE UndoReserve(i)
      BY <2>6 DEF UndoReserve, EnqueueStep, DecrementCount
    <2> QED
      BY <1>1, <2>1, <2>2, <2>3, <2>4, <2>5, <2>6 DEF Enqueue
  <1>2. ASSUME NEW w \in Items, Worker(w) PROVE TypeOK'
    <2>1. CASE Receive(w)
      <3>1. buf[w] \in Seq(Items) /\ buf[w] # << >>
        BY <2>1 DEF Receive
      <3>2. Head(buf[w]) \in Items /\ Tail(buf[w]) \in Seq(Items)
        BY <3>1
      <3> QED
        BY <2>1, <3>2 DEF Receive, WorkerStep
    <2>2. CASE SelectCancelled(w)  BY <2>2 DEF SelectCancelled, WorkerStep
    <2>3. CASE Acquire(w)          BY <2>3 DEF Acquire, WorkerStep
    <2>4. CASE AcquireCancelled(w) BY <2>4 DEF AcquireCancelled, WorkerStep
    <2>5. CASE DropItem(w)
      BY <2>5 DEF DropItem, WorkerStep, DecrementCount
    <2>6. CASE HandlerReturns(w)
      <3>1. wpc[w] = "handle" /\ semaphore' = semaphore - 1
        BY <2>6 DEF HandlerReturns, WorkerStep
      <3>4. semaphore' \in 0 .. MaxConcurrent
        <4>1. semaphore \in 1 .. MaxConcurrent
          BY ONLY IInv, <3>1, w \in Items, SlotInUse DEF IInv
        <4> QED
          BY <3>1, <4>1
      <3>5. handled' \in SUBSET Items
        BY <2>6, <3>1 DEF HandlerReturns, BusyHasItem
      <3> QED
        BY <2>6, <3>4, <3>5 DEF HandlerReturns, WorkerStep
    <2>7. CASE Decrement(w)
      BY <2>7 DEF Decrement, WorkerStep, DecrementCount
    <2>8. CASE Cleanup(w)          BY <2>8 DEF Cleanup, WorkerStep
    <2>9. CASE WorkerDone(w)       BY <2>9 DEF WorkerDone, WorkerStep
    <2> QED
      BY <1>2, <2>1, <2>2, <2>3, <2>4, <2>5, <2>6, <2>7, <2>8, <2>9 DEF Worker
  <1>3. ASSUME NEW s \in Stoppers, Stop(s) PROVE TypeOK'
    BY <1>3 DEF Stop, StopSwap, StopCancel, StopWait, StopResume, StopStep
  <1>4. CASE UNCHANGED vars
    BY <1>4 DEF vars
  <1> QED
    BY <1>1, <1>2, <1>3, <1>4 DEF Next

(* What a step does to the map and to the states of the workers: nothing,   *)
(* the creation of one worker, or one move of one worker.                   *)
Created(i) ==
  /\ epc[i] = "checked"
  /\ epc' = [epc EXCEPT ![i] = "send"]
  /\ perUserCh[KeyOf[i]] = NONE
  /\ perUserCh' = [perUserCh EXCEPT ![KeyOf[i]] = i]
  /\ wpc' = [wpc EXCEPT ![i] = "select"]
  /\ wg' = wg + 1
  /\ UNCHANGED <<semaphore, cur>>

Moved(w) ==
  /\ wpc[w] \notin {"none", "gone"}
  /\ \/ /\ wpc[w] = "cleanup"
        /\ wpc' = [wpc EXCEPT ![w] = "done"]
        /\ perUserCh' = [perUserCh EXCEPT ![KeyOf[w]] = NONE]
        /\ UNCHANGED <<wg, semaphore, cur>>
     \/ /\ wpc[w] = "done"
        /\ wpc' = [wpc EXCEPT ![w] = "gone"]
        /\ wg' = wg - 1
        /\ UNCHANGED <<perUserCh, semaphore, cur>>
     \/ /\ wpc[w] = "acquire"
        /\ wpc' = [wpc EXCEPT ![w] = "handle"]
        /\ semaphore' = semaphore + 1
        /\ UNCHANGED <<perUserCh, wg, cur>>
     \/ /\ wpc[w] = "handle"
        /\ wpc' = [wpc EXCEPT ![w] = "decrement"]
        /\ semaphore' = semaphore - 1
        /\ UNCHANGED <<perUserCh, wg, cur>>
     \/ /\ wpc[w] = "select"
        /\ wpc' = [wpc EXCEPT ![w] = "acquire"]
        /\ buf[w] # << >>
        /\ cur' = [cur EXCEPT ![w] = Head(buf[w])]
        /\ UNCHANGED <<perUserCh, wg, semaphore>>
     \/ /\ \E to \in {"cleanup", "drop", "select"} :
             /\ wpc' = [wpc EXCEPT ![w] = to]
             /\ to = "drop" => wpc[w] = "acquire"
        /\ wpc[w] \in {"select", "acquire", "drop", "decrement"}
        /\ UNCHANGED <<perUserCh, wg, semaphore, cur>>

Untouched == UNCHANGED <<perUserCh, wpc, wg, semaphore, cur>>

LEMMA StepShape ==
  ASSUME [Next]_vars
  PROVE  \/ \E i \in Items : Created(i)
         \/ \E w \in Items : Moved(w)
         \/ Untouched
  <1> USE DEF enqueueVars, mapVars, workerVars, stopVars
  <1>1. ASSUME NEW i \in Items, Enqueue(i)
        PROVE  Created(i) \/ Untouched
    BY <1>1 DEF Enqueue, CheckStopped, RejectFull, Reserve, Send,
       SendCancelled, UndoReserve, EnqueueStep, Created, Untouched
  <1>2. ASSUME NEW w \in Items, Worker(w)
        PROVE  Moved(w)
    BY <1>2 DEF Worker, Receive, SelectCancelled, Acquire, AcquireCancelled,
       DropItem, HandlerReturns, Decrement, Cleanup, WorkerDone, WorkerStep, Moved
  <1>3. ASSUME NEW s \in Stoppers, Stop(s)
        PROVE  Untouched
    BY <1>3 DEF Stop, StopSwap, StopCancel, StopWait, StopResume, Untouched
  <1>4. CASE UNCHANGED vars
    BY <1>4 DEF vars, Untouched
  <1> QED
    BY <1>1, <1>2, <1>3, <1>4 DEF Next

(* A call stays past its reservation.                                       *)
LEMMA EnqueueOnward ==
  ASSUME TypeOK, [Next]_vars, NEW i \in Items,
         epc'[i] \in {"idle", "checked"}
  PROVE  epc[i] \in {"idle", "checked"}
  <1> USE DEF TypeOK, enqueueVars
  <1>1. ASSUME NEW j \in Items, Enqueue(j)
        PROVE  epc[i] \in {"idle", "checked"}
    BY <1>1 DEF Enqueue, CheckStopped, RejectFull, Reserve, Send,
       SendCancelled, UndoReserve, EnqueueStep
  <1>2. ASSUME NEW w \in Items, Worker(w)
        PROVE  epc' = epc
    BY <1>2 DEF Worker, Receive, SelectCancelled, Acquire, AcquireCancelled,
       DropItem, HandlerReturns, Decrement, Cleanup, WorkerDone
  <1>3. ASSUME NEW s \in Stoppers, Stop(s)
        PROVE  epc' = epc
    BY <1>3 DEF Stop, StopSwap, StopCancel, StopWait, StopResume
  <1>4. CASE UNCHANGED vars
    BY <1>4 DEF vars
  <1> QED
    BY <1>1, <1>2, <1>3, <1>4 DEF Next

LEMMA OwnsStep ==
  ASSUME IInv, [Next]_vars
  PROVE  WorkerOwnsKey'
  <1> USE QueueAssumption DEF IInv, TypeOK, WorkerStates, WorkerOwnsKey, Live
  <1>1. ASSUME NEW i \in Items, Created(i) PROVE WorkerOwnsKey'
    BY <1>1 DEF Created
  <1>2. ASSUME NEW w \in Items, Moved(w) PROVE WorkerOwnsKey'
    <2>1. CASE wpc[w] = "cleanup"
      <3>1. /\ wpc' = [wpc EXCEPT ![w] = "done"]
            /\ perUserCh' = [perUserCh EXCEPT ![KeyOf[w]] = NONE]
        BY <1>2, <2>1 DEF Moved
      <3>2. KeyOf[w] \in Keys /\ perUserCh[KeyOf[w]] = w
        <4>1. w \in Items /\ \A v \in Items : Live(v) => perUserCh[KeyOf[v]] = v
          OBVIOUS
        <4>2. KeyOf[w] \in Keys
          BY ONLY <4>1, QueueAssumption
        <4> QED
          BY ONLY <4>1, <4>2, <2>1
      <3>3. \A v \in Items : Live(v)' => v # w /\ Live(v) /\ KeyOf[v] # KeyOf[w]
        <4>1. wpc \in [Items -> WorkerStates] /\ w \in Items
              /\ \A v \in Items : Live(v) => perUserCh[KeyOf[v]] = v
          OBVIOUS
        <4> QED
          BY ONLY <3>1, <3>2, <4>1 DEF Live
      <3>4. \A v \in Items : Live(v)' => perUserCh'[KeyOf[v]] = v
        BY <3>1, <3>3
      <3>5. \A k \in Keys : perUserCh'[k] # NONE =>
              k # KeyOf[w] /\ perUserCh'[k] = perUserCh[k] /\ perUserCh[k] # w
        BY <3>1, <3>2
      <3> QED
        BY <3>1, <3>4, <3>5
    <2>2. CASE wpc[w] = "done"
      <3>1. wpc' = [wpc EXCEPT ![w] = "gone"] /\ perUserCh' = perUserCh
        BY <1>2, <2>2 DEF Moved
      <3> QED
        BY <2>2, <3>1
    <2>3. CASE wpc[w] \notin {"cleanup", "done"}
      <3>1. PICK to \in WorkerStates \ {"none", "done", "gone"} :
              wpc' = [wpc EXCEPT ![w] = to] /\ perUserCh' = perUserCh
        BY <1>2, <2>3 DEF Moved
      <3> QED
        BY <1>2, <2>3, <3>1 DEF Moved
    <2> QED
      BY <2>1, <2>2, <2>3
  <1>3. CASE Untouched
    BY <1>3 DEF Untouched
  <1> QED
    BY <1>1, <1>2, <1>3, StepShape

LEMMA BusyStep ==
  ASSUME IInv, [Next]_vars
  PROVE  BusyHasItem'
  <1> USE QueueAssumption DEF IInv, TypeOK, WorkerStates, BusyHasItem
  <1>1. ASSUME NEW i \in Items, Created(i) PROVE BusyHasItem'
    BY <1>1 DEF Created
  <1>2. ASSUME NEW w \in Items, Moved(w) PROVE BusyHasItem'
    <2>1. buf[w] # << >> => Head(buf[w]) \in Items
      OBVIOUS
    <2> QED
      BY <1>2, <2>1 DEF Moved
  <1>3. CASE Untouched
    BY <1>3 DEF Untouched
  <1> QED
    BY <1>1, <1>2, <1>3, StepShape

LEMMA FreshStep ==
  ASSUME IInv, [Next]_vars
  PROVE  FreshCalls'
  <1> SUFFICES ASSUME NEW i \in Items, epc'[i] \in {"idle", "checked"}
               PROVE  wpc'[i] = "none"
    BY DEF FreshCalls
  <1>1. epc[i] \in {"idle", "checked"} /\ wpc[i] = "none"
    BY EnqueueOnward DEF IInv, FreshCalls
  <1>2. ASSUME NEW j \in Items, Created(j) PROVE wpc'[i] = "none"
    <2>1. CASE i # j
      BY <1>1, <1>2, <2>1 DEF Created, IInv, TypeOK
    <2>2. CASE i = j
      \* The call that creates its worker leaves "checked".
      BY <1>2, <2>2 DEF Created, IInv, TypeOK
    <2> QED
      BY <2>1, <2>2
  <1>3. ASSUME NEW w \in Items, Moved(w) PROVE wpc'[i] = "none"
    BY <1>1, <1>3 DEF Moved, IInv, TypeOK, WorkerStates
  <1>4. CASE Untouched
    BY <1>1, <1>4 DEF Untouched
  <1> QED
    BY <1>2, <1>3, <1>4, StepShape

LEMMA CountStep ==
  ASSUME IInv, [Next]_vars
  PROVE  SemaphoreExact' /\ WaitGroupExact'
  <1>1. /\ TypeOK /\ TypeOK'
        /\ semaphore = Cardinality(Handling)
        /\ wg = Cardinality(Counted)
    BY TypeStep, ExactCounts DEF IInv
  <1> SUFFICES /\ semaphore' = Cardinality(Handling')
               /\ wg' = Cardinality(Counted')
    <2>1. {w \in Items : wpc'[w] = "handle"} = Handling'
      BY DEF Handling, WorkersIn
    <2>2. {w \in Items : wpc'[w] \notin {"none", "gone"}} = Counted'
      BY <1>1 DEF Counted, WorkersIn, TypeOK
    <2> QED
      BY <2>1, <2>2 DEF SemaphoreExact, WaitGroupExact
  <1>2. ASSUME NEW i \in Items, Created(i)
        PROVE  /\ semaphore' = Cardinality(Handling')
               /\ wg' = Cardinality(Counted')
    <2>1. wpc[i] = "none" /\ wpc' = [wpc EXCEPT ![i] = "select"]
      BY <1>2 DEF Created, IInv, FreshCalls
    <2>2. Handling' = Handling
      BY <1>1, <2>1, WorkerStays DEF Handling
    <2>3. Cardinality(Counted') = Cardinality(Counted) + 1
      BY <1>1, <2>1, WorkerEnters DEF Counted, WorkerStates
    <2> QED
      BY <1>1, <1>2, <2>2, <2>3 DEF Created
  <1>3. ASSUME NEW w \in Items, Moved(w)
        PROVE  /\ semaphore' = Cardinality(Handling')
               /\ wg' = Cardinality(Counted')
    <2>1. CASE wpc[w] = "done"
      <3>1. wpc' = [wpc EXCEPT ![w] = "gone"] /\ wg' = wg - 1 /\ semaphore' = semaphore
        BY <1>3, <2>1 DEF Moved
      <3>2. Handling' = Handling
        BY <1>1, <2>1, <3>1, WorkerStays DEF Handling
      <3>3. Cardinality(Counted') = Cardinality(Counted) - 1
        BY <1>1, <2>1, <3>1, WorkerLeaves DEF Counted, WorkerStates
      <3> QED
        BY <1>1, <3>1, <3>2, <3>3
    <2>2. CASE wpc[w] = "handle"
      <3>1. wpc' = [wpc EXCEPT ![w] = "decrement"] /\ wg' = wg /\ semaphore' = semaphore - 1
        BY <1>3, <2>2 DEF Moved
      <3>2. Cardinality(Handling') = Cardinality(Handling) - 1
        <4>1. wpc[w] \in {"handle"} /\ "decrement" \notin {"handle"}
          BY <2>2
        <4> QED
          BY ONLY <1>1, <3>1, <4>1, w \in Items, WorkerLeaves DEF Handling
      <3>3. Counted' = Counted
        BY <1>1, <2>2, <3>1, WorkerStays DEF Counted, WorkerStates
      <3> QED
        BY <1>1, <3>1, <3>2, <3>3
    <2>3. CASE wpc[w] \notin {"done", "handle"}
      <3>1. PICK to \in WorkerStates \ {"none", "gone"} :
              /\ wpc' = [wpc EXCEPT ![w] = to]
              /\ wg' = wg
              /\ to = "handle" => semaphore' = semaphore + 1
              /\ to # "handle" => semaphore' = semaphore
        BY <1>3, <2>3 DEF Moved, WorkerStates
      <3>2. Counted' = Counted
        BY <1>1, <1>3, <3>1, WorkerStays DEF Counted, WorkerStates, Moved, TypeOK
      <3>3. CASE to = "handle"
        BY <1>1, <2>3, <3>1, <3>2, <3>3, WorkerEnters DEF Handling
      <3>4. CASE to # "handle"
        <4>1. Handling' = Handling
          BY <1>1, <2>3, <3>1, <3>4, WorkerStays DEF Handling
        <4> QED
          BY <1>1, <3>1, <3>2, <3>4, <4>1
      <3> QED
        BY <3>3, <3>4
    <2> QED
      BY <2>1, <2>2, <2>3
  <1>4. CASE Untouched
    <2>1. Handling' = Handling /\ Counted' = Counted
      BY <1>4 DEF Untouched, Handling, Counted, WorkersIn
    <2> QED
      BY <1>1, <1>4, <2>1 DEF Untouched
  <1> QED
    BY <1>2, <1>3, <1>4, StepShape

LEMMA IInvStep == IInv /\ [Next]_vars => IInv'
  BY TypeStep, FreshStep, BusyStep, OwnsStep, CountStep DEF IInv

LEMMA IInvAlways == Spec => []IInv
  BY InitIInv, IInvStep, PTL DEF Spec

-----------------------------------------------------------------------------
(* Every variable keeps its type; in particular the count of a key stays    *)
(* within perUserSize and the semaphore within maxConcurrentUsers           *)
(* (queue.go:84-90, 147-159).                                               *)
THEOREM TypeCorrect == Spec => []TypeOK
  <1>1. IInv => TypeOK
    BY DEF IInv
  <1> QED
    BY IInvAlways, <1>1, PTL

(* The map names the one live worker of each key (queue.go:92-98, 131-137). *)
THEOREM OwnershipHolds == Spec => []WorkerOwnsKey
  <1>1. IInv => WorkerOwnsKey
    BY DEF IInv
  <1> QED
    BY IInvAlways, <1>1, PTL

(* No two workers of one key process an item at the same time, for any      *)
(* number of callers, also while the queue stops (queue.go:24).             *)
THEOREM PerKeySerial == Spec => []SerialPerKey
  <1>1. IInv => SerialPerKey
    BY DEF IInv, WorkerOwnsKey, SerialPerKey, Processing, Live
  <1> QED
    BY IInvAlways, <1>1, PTL

(* Semaphore slots are taken exactly by the workers inside a handler, so at *)
(* most maxConcurrentUsers handlers run (queue.go:147-159).                 *)
THEOREM SlotsExact == Spec => []SemaphoreExact
  <1>1. IInv => SemaphoreExact
    BY DEF IInv
  <1> QED
    BY IInvAlways, <1>1, PTL

(* The WaitGroup counts the workers that have not finished (queue.go:73).   *)
THEOREM WorkersCounted == Spec => []WaitGroupExact
  <1>1. IInv => WaitGroupExact
    BY DEF IInv
  <1> QED
    BY IInvAlways, <1>1, PTL

(* The four together, for any keys, items, callers and limits: the books of *)
(* the queue agree with its workers at every step (queue.go:92-159).        *)
THEOREM BooksAgree == Spec => []BooksExact
  BY OwnershipHolds, PerKeySerial, SlotsExact, WorkersCounted, PTL DEF BooksExact

(* An entry of the map is removed by the worker that serves its channel and *)
(* by no other: the cleanup of a worker finds its own entry, not that of a  *)
(* successor started in the meantime (queue.go:92-98, 131-137).             *)
THEOREM OwnEntryRemoved == Spec => OnlyOwnEntryRemoved
  <1> DEFINE Own == \A k \in Keys :
               perUserCh[k] # NONE /\ perUserCh'[k] # perUserCh[k] =>
                 /\ perUserCh'[k] = NONE
                 /\ wpc[perUserCh[k]] = "cleanup" /\ wpc'[perUserCh[k]] = "done"
  <1>1. IInv /\ [Next]_vars => [Own]_vars
    <2> SUFFICES ASSUME IInv, [Next]_vars PROVE Own
      OBVIOUS
    <2>0. /\ wpc \in [Items -> WorkerStates] /\ perUserCh \in [Keys -> Items \cup {NONE}]
          /\ \A v \in Items : Live(v) => perUserCh[KeyOf[v]] = v
          /\ \A v \in Items : KeyOf[v] \in Keys
      BY QueueAssumption DEF IInv, TypeOK, WorkerOwnsKey
    <2>1. ASSUME NEW i \in Items, Created(i) PROVE Own
      BY <2>0, <2>1 DEF Created
    <2>2. ASSUME NEW w \in Items, Moved(w) PROVE Own
      <3>1. CASE wpc[w] = "cleanup"
        <4>1. /\ wpc' = [wpc EXCEPT ![w] = "done"]
              /\ perUserCh' = [perUserCh EXCEPT ![KeyOf[w]] = NONE]
          BY <2>2, <3>1 DEF Moved
        <4>2. perUserCh[KeyOf[w]] = w
          BY <2>0, <3>1 DEF Live
        <4> QED
          BY <2>0, <3>1, <4>1, <4>2
      <3>2. CASE wpc[w] # "cleanup"
        BY <2>2, <3>2 DEF Moved
      <3> QED
        BY <3>1, <3>2
    <2>3. CASE Untouched
      BY <2>3 DEF Untouched
    <2> QED
      BY <2>1, <2>2, <2>3, StepShape
  <1> QED
    BY <1>1, IInvAlways, PTL DEF Spec, OnlyOwnEntryRemoved

-----------------------------------------------------------------------------
(* Where an item is.  A worker that has received an item and not taken the  *)
(* next one holds it.                                                       *)
Holding(w) == wpc[w] \in {"acquire", "handle", "decrement", "drop"}

(* A call past its reservation holds a channel of its own key that a worker *)
(* has served.                                                              *)
CallHoldsChannel ==
  \A i \in Items : epc[i] \in {"send", "undo", "true"} =>
    ech[i] \in Items /\ KeyOf[ech[i]] = KeyOf[i] /\ wpc[ech[i]] # "none"

(* A channel holds accepted items that were sent to it, each once, none of  *)
(* them handled.                                                            *)
QueuedOnce ==
  \A w \in Items :
    /\ \A n \in 1 .. Len(buf[w]) :
         epc[buf[w][n]] = "true" /\ ech[buf[w][n]] = w /\ buf[w][n] \notin handled
    /\ \A m, n \in 1 .. Len(buf[w]) : buf[w][m] = buf[w][n] => m = n

(* The item a worker holds came out of its channel, is no longer in it, and *)
(* counts as handled from the return of the handler on.                     *)
HeldOnce ==
  \A w \in Items : Holding(w) =>
    /\ epc[cur[w]] = "true" /\ ech[cur[w]] = w
    /\ cur[w] \in handled <=> wpc[w] = "decrement"
    /\ \A n \in 1 .. Len(buf[w]) : buf[w][n] # cur[w]

HandledAccepted == \A i \in handled : epc[i] = "true"

(* Until the context is cancelled no worker leaves and no call gives its    *)
(* reservation back.                                                        *)
NoneLeft ==
  ~cancelled =>
    /\ \A w \in Items : wpc[w] \notin {"drop", "cleanup", "done", "gone"}
    /\ \A i \in Items : epc[i] # "undo"

(* An item that has been accepted is in one place only: the channel its     *)
(* call holds, the hands of that channel's worker, or done.                 *)
Places ==
  /\ CallHoldsChannel
  /\ QueuedOnce
  /\ HeldOnce
  /\ HandledAccepted
  /\ NoneLeft

LEMMA InitPlaces == Init => Places
  BY DEF Init, Places, CallHoldsChannel, QueuedOnce, HeldOnce, HandledAccepted,
     NoneLeft, Holding

(* The shape of a channel's contents, apart from the rest of TypeOK.        *)
LEMMA Shapes ==
  ASSUME TypeOK
  PROVE  /\ epc \in [Items -> EnqueueStates] /\ wpc \in [Items -> WorkerStates]
         /\ ech \in [Items -> Items \cup {NONE}] /\ cur \in [Items -> Items \cup {NONE}]
         /\ buf \in [Items -> Seq(Items)] /\ handled \in SUBSET Items
         /\ \A w \in Items : \A n \in 1 .. Len(buf[w]) : buf[w][n] \in Items
  BY DEF TypeOK

LEMMA PlacesAfterReserve ==
  ASSUME IInv, Places, NEW i \in Items, Reserve(i)
  PROVE  Places'
  <1>1. /\ epc[i] = "checked" /\ epc' = [epc EXCEPT ![i] = "send"]
        /\ UNCHANGED <<cur, handled, buf, cancelled>>
    BY DEF Reserve, EnqueueStep, stopVars
  <1>2. wpc[i] = "none"
    BY <1>1 DEF FreshCalls, IInv
  <1>3. /\ \A j \in Items : j # i => ech'[j] = ech[j] /\ wpc'[j] = wpc[j]
        /\ wpc'[i] \in {"none", "select"}
        /\ ech'[i] \in Items /\ KeyOf[ech'[i]] = KeyOf[i]
        /\ wpc'[ech'[i]] # "none"
    <2> DEFINE k == KeyOf[i]
    <2>1. k \in Keys /\ ech \in [Items -> Items \cup {NONE}] /\ wpc \in [Items -> WorkerStates]
          /\ perUserCh[k] \in Items \cup {NONE}
      BY QueueAssumption DEF IInv, TypeOK
    <2>2. CASE perUserCh[k] # NONE
      <3>1. perUserCh[k] \in Items /\ KeyOf[perUserCh[k]] = k /\ wpc[perUserCh[k]] # "none"
        BY <2>1, <2>2 DEF IInv, WorkerOwnsKey, Live
      <3>2. ech' = [ech EXCEPT ![i] = perUserCh[k]] /\ wpc' = wpc
        BY <2>2 DEF Reserve
      <3> QED
        BY <1>2, <2>1, <3>1, <3>2
    <2>3. CASE perUserCh[k] = NONE
      <3>1. ech' = [ech EXCEPT ![i] = i] /\ wpc' = [wpc EXCEPT ![i] = "select"]
        BY <2>3 DEF Reserve
      <3> QED
        BY <2>1, <3>1
    <2> QED
      BY <2>2, <2>3
  <1>4. /\ epc'[i] = "send" /\ \A j \in Items : j # i => epc'[j] = epc[j]
        /\ \A w \in Items : \A n \in 1 .. Len(buf[w]) : buf[w][n] \in Items
    BY <1>1, Shapes DEF IInv
  <1> HIDE DEF Reserve
  <1>5. CallHoldsChannel'
    BY <1>2, <1>3, <1>4 DEF Places, CallHoldsChannel
  <1>6. QueuedOnce'
    <2> SUFFICES ASSUME NEW w \in Items
                 PROVE  /\ \A n \in 1 .. Len(buf[w]) : epc'[buf[w][n]] = "true"
                             /\ ech'[buf[w][n]] = w /\ buf[w][n] \notin handled
                        /\ \A m, n \in 1 .. Len(buf[w]) : buf[w][m] = buf[w][n] => m = n
      BY <1>1 DEF QueuedOnce
    <2> QED
      BY <1>1, <1>3, <1>4 DEF Places, QueuedOnce
  <1>7. HeldOnce'
    <2>1. \A w \in Items : Holding(w)' => Holding(w) /\ wpc'[w] = wpc[w] /\ cur[w] \in Items
      BY <1>2, <1>3 DEF Holding, IInv, BusyHasItem
    <2> QED
      BY <1>1, <1>3, <1>4, <2>1 DEF Places, HeldOnce
  <1>8. HandledAccepted'
    BY <1>1, <1>4, Shapes DEF Places, HandledAccepted, IInv
  <1>9. NoneLeft'
    BY <1>1, <1>3, <1>4 DEF Places, NoneLeft
  <1> QED
    BY <1>5, <1>6, <1>7, <1>8, <1>9 DEF Places

LEMMA PlacesAfterSend ==
  ASSUME IInv, Places, NEW i \in Items, Send(i)
  PROVE  Places'
  <1>0. TypeOK
    BY DEF IInv
  <1>1. /\ epc[i] = "send" /\ epc' = [epc EXCEPT ![i] = "true"]
        /\ UNCHANGED <<ech, wpc, cur, handled, cancelled>>
    BY DEF Send, EnqueueStep, workerVars, stopVars
  <1>2. PICK c \in Items : c = ech[i] /\ wpc[c] # "none"
    BY <1>1 DEF Places, CallHoldsChannel
  <1>3. /\ Len(buf'[c]) = Len(buf[c]) + 1 /\ Len(buf[c]) \in Nat
        /\ buf'[c][Len(buf[c]) + 1] = i
        /\ \A n \in 1 .. Len(buf[c]) : buf'[c][n] = buf[c][n]
        /\ \A w \in Items : w # c => buf'[w] = buf[w]
    <2>1. buf' = [buf EXCEPT ![c] = Append(@, i)]
      BY <1>2 DEF Send
    <2> QED
      BY <1>0, <2>1, Shapes
  <1>4. \A n \in 1 .. Len(buf'[c]) :
          \/ n \in 1 .. Len(buf[c]) /\ buf'[c][n] = buf[c][n]
          \/ n = Len(buf[c]) + 1 /\ buf'[c][n] = i
    BY <1>3
  <1>5. /\ epc'[i] = "true" /\ \A j \in Items : j # i => epc'[j] = epc[j]
        /\ \A w \in Items : \A n \in 1 .. Len(buf[w]) : buf[w][n] \in Items
    BY <1>0, <1>1, Shapes
  <1>6. i \notin handled /\ \A w \in Items : \A n \in 1 .. Len(buf[w]) : buf[w][n] # i
    BY <1>1 DEF Places, QueuedOnce, HandledAccepted
  <1> HIDE DEF Send
  <1>7. CallHoldsChannel'
    BY <1>1, <1>5 DEF Places, CallHoldsChannel
  <1>8. QueuedOnce'
    <2>1. \A w \in Items : \A n \in 1 .. Len(buf[w]) :
            epc'[buf[w][n]] = "true" /\ ech[buf[w][n]] = w /\ buf[w][n] \notin handled
      BY <1>5 DEF Places, QueuedOnce
    <2>2. \A n \in 1 .. Len(buf'[c]) :
            epc'[buf'[c][n]] = "true" /\ ech'[buf'[c][n]] = c /\ buf'[c][n] \notin handled'
      BY <1>1, <1>2, <1>4, <1>5, <1>6, <2>1
    <2>3. \A m, n \in 1 .. Len(buf'[c]) : buf'[c][m] = buf'[c][n] => m = n
      BY <1>4, <1>6 DEF Places, QueuedOnce
    <2>4. \A w \in Items : w # c =>
            /\ \A n \in 1 .. Len(buf'[w]) :
                 epc'[buf'[w][n]] = "true" /\ ech'[buf'[w][n]] = w /\ buf'[w][n] \notin handled'
            /\ \A m, n \in 1 .. Len(buf'[w]) : buf'[w][m] = buf'[w][n] => m = n
      BY <1>1, <1>3, <2>1 DEF Places, QueuedOnce
    <2> QED
      BY <2>2, <2>3, <2>4 DEF QueuedOnce
  <1>9. HeldOnce'
    <2>1. \A w \in Items : Holding(w)' =>
            Holding(w) /\ wpc'[w] = wpc[w] /\ cur[w] \in Items /\ cur'[w] = cur[w]
      BY <1>1 DEF Holding, IInv, BusyHasItem
    <2>2. \A w \in Items : Holding(w) => cur[w] # i
      BY <1>1 DEF Places, HeldOnce
    <2>3. \A w \in Items : Holding(w) =>
            \A n \in 1 .. Len(buf'[w]) : buf'[w][n] # cur[w]
      BY <1>3, <1>4, <2>2 DEF Places, HeldOnce
    <2> QED
      BY <1>1, <1>5, <2>1, <2>3 DEF Places, HeldOnce
  <1>10. HandledAccepted'
    BY <1>0, <1>1, <1>5, Shapes DEF Places, HandledAccepted
  <1>11. NoneLeft'
    BY <1>1, <1>5 DEF Places, NoneLeft
  <1> QED
    BY <1>7, <1>8, <1>9, <1>10, <1>11 DEF Places

LEMMA PlacesAfterUndo ==
  ASSUME IInv, Places, NEW i \in Items, UndoReserve(i)
  PROVE  Places'
  <1>1. /\ epc[i] = "undo" /\ epc' = [epc EXCEPT ![i] = "false"]
        /\ UNCHANGED <<ech, wpc, cur, handled, buf, cancelled>>
    BY DEF UndoReserve, EnqueueStep, workerVars, stopVars
  <1>2. /\ epc'[i] = "false" /\ \A j \in Items : j # i => epc'[j] = epc[j]
        /\ \A j \in Items : epc[j] = "true" => epc'[j] = "true"
        /\ \A w \in Items : \A n \in 1 .. Len(buf[w]) : buf[w][n] \in Items
        /\ \A w \in Items : Holding(w) => cur[w] \in Items
        /\ handled \subseteq Items
    BY <1>1, Shapes DEF IInv, BusyHasItem, Holding
  <1> HIDE DEF UndoReserve
  <1>3. CallHoldsChannel' /\ NoneLeft' /\ HandledAccepted'
    BY <1>1, <1>2 DEF Places, CallHoldsChannel, NoneLeft, HandledAccepted
  <1>4. QueuedOnce'
    BY <1>1, <1>2 DEF Places, QueuedOnce
  <1>5. HeldOnce'
    BY <1>1, <1>2 DEF Places, HeldOnce, Holding
  <1> QED
    BY <1>3, <1>4, <1>5 DEF Places

LEMMA PlacesAfterReceive ==
  ASSUME IInv, Places, NEW w \in Items, Receive(w)
  PROVE  Places'
  <1>0. TypeOK
    BY DEF IInv
  <1>1. /\ wpc[w] = "select" /\ wpc' = [wpc EXCEPT ![w] = "acquire"]
        /\ UNCHANGED <<epc, ech, handled, cancelled>>
    BY DEF Receive, WorkerStep, enqueueVars, stopVars
  <1>2. /\ Len(buf[w]) \in Nat \ {0} /\ Len(buf'[w]) = Len(buf[w]) - 1
        /\ cur'[w] = buf[w][1]
        /\ \A n \in 1 .. Len(buf'[w]) : buf'[w][n] = buf[w][n + 1]
        /\ \A v \in Items : v # w => buf'[v] = buf[v] /\ cur'[v] = cur[v]
    BY <1>0, Shapes DEF Receive
  <1>3. /\ \A n \in 1 .. Len(buf'[w]) :
             n + 1 \in 1 .. Len(buf[w]) /\ n + 1 # 1 /\ buf'[w][n] = buf[w][n + 1]
        /\ 1 \in 1 .. Len(buf[w])
    BY <1>2
  <1>4. \A v \in Items : v # w => wpc'[v] = wpc[v]
    BY <1>0, <1>1, Shapes
  <1> HIDE DEF Receive
  <1>5. CallHoldsChannel' /\ NoneLeft' /\ HandledAccepted'
    BY <1>0, <1>1, Shapes DEF Places, CallHoldsChannel, NoneLeft, HandledAccepted
  <1>6. QueuedOnce'
    <2>1. \A n \in 1 .. Len(buf'[w]) :
            epc'[buf'[w][n]] = "true" /\ ech'[buf'[w][n]] = w /\ buf'[w][n] \notin handled'
      BY <1>1, <1>3, SMTT(20) DEF Places, QueuedOnce
    <2>2. \A v \in Items : v # w =>
            /\ \A n \in 1 .. Len(buf'[v]) :
                 epc'[buf'[v][n]] = "true" /\ ech'[buf'[v][n]] = v /\ buf'[v][n] \notin handled'
            /\ \A m, n \in 1 .. Len(buf'[v]) : buf'[v][m] = buf'[v][n] => m = n
      BY <1>1, <1>2 DEF Places, QueuedOnce
    <2>3. \A m, n \in 1 .. Len(buf'[w]) : buf'[w][m] = buf'[w][n] => m = n
      <3> SUFFICES ASSUME NEW m \in 1 .. Len(buf'[w]), NEW n \in 1 .. Len(buf'[w]),
                          buf'[w][m] = buf'[w][n]
                   PROVE  m = n
        OBVIOUS
      <3>1. m + 1 = n + 1
        BY <1>3 DEF Places, QueuedOnce
      <3> QED
        BY <1>2, <3>1
    <2> QED
      BY <2>1, <2>2, <2>3 DEF QueuedOnce
  <1>7. HeldOnce'
    <2>1. /\ epc'[cur'[w]] = "true" /\ ech'[cur'[w]] = w /\ cur'[w] \notin handled'
          /\ \A n \in 1 .. Len(buf'[w]) : buf'[w][n] # cur'[w]
      BY <1>1, <1>2, <1>3 DEF Places, QueuedOnce
    <2> QED
      <3>1. \A v \in Items : v # w /\ Holding(v)' =>
              /\ epc'[cur'[v]] = "true" /\ ech'[cur'[v]] = v
              /\ cur'[v] \in handled' <=> wpc'[v] = "decrement"
              /\ \A n \in 1 .. Len(buf'[v]) : buf'[v][n] # cur'[v]
        BY <1>1, <1>2, <1>4 DEF Places, HeldOnce, Holding
      <3>2. wpc'[w] = "acquire"
        BY <1>0, <1>1, Shapes
      <3> QED
        BY <2>1, <3>1, <3>2 DEF HeldOnce
  <1> QED
    BY <1>5, <1>6, <1>7 DEF Places

(* A step of a call that is not the reservation, the send or the undoing,   *)
(* or a step of Stop, leaves every item where it is.                        *)
LEMMA PlacesStay ==
  ASSUME IInv, Places, UNCHANGED <<ech, wpc, cur, buf, handled>>,
         cancelled' \in BOOLEAN, cancelled => cancelled',
         \A j \in Items :
           /\ epc[j] = "true" => epc'[j] = "true"
           /\ epc'[j] \in {"send", "undo", "true"} => epc[j] \in {"send", "undo", "true"}
           /\ epc'[j] = "undo" => epc[j] = "undo" \/ cancelled
  PROVE  Places'
  <1>1. CallHoldsChannel'
    BY DEF Places, CallHoldsChannel
  <1>2. QueuedOnce'
    <2>1. \A w \in Items : \A n \in 1 .. Len(buf[w]) : buf[w][n] \in Items
      BY Shapes DEF IInv
    <2> QED
      BY <2>1 DEF Places, QueuedOnce
  <1>3. HeldOnce'
    <2>1. \A w \in Items : Holding(w) => cur[w] \in Items
      BY DEF IInv, BusyHasItem, Holding
    <2>2. \A w \in Items : Holding(w)' <=> Holding(w)
      BY DEF Holding
    <2> QED
      BY <2>1, <2>2 DEF Places, HeldOnce
  <1>4. HandledAccepted'
    BY Shapes DEF IInv, Places, HandledAccepted
  <1>5. NoneLeft'
    BY DEF Places, NoneLeft
  <1> QED
    BY <1>1, <1>2, <1>3, <1>4, <1>5 DEF Places

(* So does a step of a worker that receives nothing: it goes on with the    *)
(* item it holds, has it handled, or lets it go.                            *)
LEMMA PlacesAfterMove ==
  ASSUME IInv, Places, NEW w \in Items, NEW to \in WorkerStates \ {"none"},
         wpc' = [wpc EXCEPT ![w] = to], wpc[w] # "none",
         UNCHANGED <<epc, ech, cur, buf, cancelled>>,
         to \in {"drop", "cleanup", "done", "gone"} => cancelled,
         to \in {"acquire", "handle", "decrement", "drop"} => Holding(w),
         \/ /\ handled' = handled
            /\ to = "decrement" => wpc[w] = "decrement"
            /\ to \in {"acquire", "handle", "drop"} => wpc[w] # "decrement"
         \/ /\ handled' = handled \cup {cur[w]}
            /\ to = "decrement"
  PROVE  Places'
  <1>0. /\ wpc \in [Items -> WorkerStates] /\ wpc'[w] = to
        /\ \A v \in Items : v # w => wpc'[v] = wpc[v]
    BY Shapes DEF IInv
  <1>1. CallHoldsChannel' /\ NoneLeft'
    BY <1>0 DEF Places, CallHoldsChannel, NoneLeft
  <1>2. /\ \A v \in Items : Holding(v)' => Holding(v)
        /\ \A v \in Items : v # w => (Holding(v)' <=> Holding(v))
    BY <1>0 DEF Holding
  <1>3. QueuedOnce'
    <2>1. \A v \in Items : \A n \in 1 .. Len(buf[v]) : buf[v][n] \notin handled'
      BY DEF Places, QueuedOnce, HeldOnce
    <2> QED
      BY <2>1 DEF Places, QueuedOnce
  <1>4. HeldOnce'
    <2>1. \A v \in Items : v # w /\ Holding(v) => (cur[v] \in handled' <=> cur[v] \in handled)
      BY DEF Places, HeldOnce
    <2>2. Holding(w)' => (cur[w] \in handled' <=> to = "decrement")
      BY <1>0, <1>2 DEF Places, HeldOnce, Holding
    <2> QED
      BY <1>0, <1>2, <2>1, <2>2 DEF Places, HeldOnce
  <1>5. HandledAccepted'
    BY DEF Places, HandledAccepted, HeldOnce
  <1> QED
    BY <1>1, <1>3, <1>4, <1>5 DEF Places

LEMMA PlacesStep ==
  ASSUME IInv, IInv', Places, [Next]_vars
  PROVE  Places'
  <1>0. IInv /\ Places
    OBVIOUS
  <1>1. ASSUME NEW i \in Items, Enqueue(i) PROVE Places'
    <2>1. CASE CheckStopped(i) \/ RejectFull(i) \/ SendCancelled(i)
      <3>1. /\ UNCHANGED <<ech, wpc, cur, buf, handled, cancelled>>
            /\ epc[i] \in {"idle", "checked", "send"} /\ epc \in [Items -> EnqueueStates]
            /\ \E to \in {"false", "checked", "undo"} :
                 /\ epc' = [epc EXCEPT ![i] = to]
                 /\ to = "undo" => epc[i] = "send" /\ cancelled
        BY <1>0, <2>1, Shapes DEF IInv, CheckStopped, RejectFull, SendCancelled,
           EnqueueStep, workerVars, stopVars
      <3>2. \A j \in Items :
              /\ epc[j] = "true" => epc'[j] = "true"
              /\ epc'[j] \in {"send", "undo", "true"} => epc[j] \in {"send", "undo", "true"}
              /\ epc'[j] = "undo" => epc[j] = "undo" \/ cancelled
        BY <3>1
      <3> QED
        BY <1>0, <3>1, <3>2, PlacesStay DEF IInv, TypeOK
    <2>3. CASE Reserve(i)        BY <1>0, <2>3, PlacesAfterReserve
    <2>4. CASE Send(i)           BY <1>0, <2>4, PlacesAfterSend
    <2>6. CASE UndoReserve(i)    BY <1>0, <2>6, PlacesAfterUndo
    <2> QED
      BY <1>1, <2>1, <2>3, <2>4, <2>6 DEF Enqueue
  <1>2. ASSUME NEW w \in Items, Worker(w) PROVE Places'
    <2>1. CASE Receive(w)
      BY <1>0, <2>1, PlacesAfterReceive
    <2>2. CASE HandlerReturns(w)
      <3>1. /\ wpc[w] = "handle" /\ wpc' = [wpc EXCEPT ![w] = "decrement"]
            /\ handled' = handled \cup {cur[w]}
            /\ UNCHANGED <<epc, ech, cur, buf, cancelled>>
        BY <2>2 DEF HandlerReturns, WorkerStep, enqueueVars, stopVars
      <3> QED
        BY <1>0, <3>1, PlacesAfterMove DEF WorkerStates, Holding
    <2>3. CASE ~Receive(w) /\ ~HandlerReturns(w)
      <3> DEFINE Goes(from, to) ==
            /\ wpc[w] = from /\ wpc' = [wpc EXCEPT ![w] = to]
            /\ UNCHANGED <<epc, ech, cur, buf, handled, cancelled>>
      <3>1. \/ cancelled /\ (Goes("select", "cleanup") \/ Goes("acquire", "drop"))
            \/ Goes("acquire", "handle") \/ Goes("drop", "cleanup")
            \/ Goes("decrement", "select") \/ Goes("cleanup", "done") \/ Goes("done", "gone")
        BY <1>2, <2>3
           DEF Worker, SelectCancelled, Acquire, AcquireCancelled, DropItem, Decrement,
               Cleanup, WorkerDone, WorkerStep, enqueueVars, stopVars
      <3>2. wpc[w] \in {"drop", "cleanup", "done"} => cancelled
        BY <1>0 DEF Places, NoneLeft
      <3> QED
        BY <1>0, <3>1, <3>2, PlacesAfterMove DEF WorkerStates, Holding
    <2> QED
      BY <2>1, <2>2, <2>3
  <1>3. ASSUME NEW s \in Stoppers, Stop(s) PROVE Places'
    <2>1. /\ UNCHANGED <<epc, ech, wpc, cur, buf, handled>>
          /\ cancelled' \in BOOLEAN
          /\ cancelled => cancelled'
      BY <1>0, <1>3 DEF IInv, TypeOK, Stop, StopSwap, StopCancel, StopWait, StopResume,
         enqueueVars, workerVars
    <2> QED
      BY <1>0, <2>1, PlacesStay
  <1>4. CASE UNCHANGED vars
    BY <1>0, <1>4, PlacesStay DEF vars, enqueueVars, workerVars, stopVars, IInv, TypeOK
  <1> QED
    BY <1>1, <1>2, <1>3, <1>4 DEF Next

-----------------------------------------------------------------------------
(* An item counts until the worker that handled it has given its place back;*)
(* that worker can only be the one of the channel the item was sent to.     *)
Open(i) ==
  /\ epc[i] \in {"send", "undo", "true"}
  /\ i \in handled => wpc[ech[i]] = "decrement" /\ cur[ech[i]] = i

LEMMA OutstandingIsOpen ==
  ASSUME IInv, Places, NEW k
  PROVE  Outstanding(k) = {i \in Items : KeyOf[i] = k /\ Open(i)}
  <1>1. \A i, w \in Items :
          wpc[w] = "decrement" /\ cur[w] = i => ech[i] = w
    BY DEF Places, HeldOnce, Holding
  <1>2. \A i \in Items : epc[i] \in {"send", "undo", "true"} => ech[i] \in Items
    BY DEF Places, CallHoldsChannel
  <1> QED
    BY <1>1, <1>2 DEF Outstanding, Open

LEMMA OutstandingFinite == \A k : IsFiniteSet(Outstanding(k))
  BY QueueAssumption, FS_Subset DEF Outstanding

(* While the queue runs, an item opens at its reservation and closes when   *)
(* its worker gives the place back; no other step changes the books.        *)
LEMMA OpenSteps ==
  ASSUME IInv, Places, [Next]_vars, ~cancelled'
  PROVE  /\ ~cancelled
         /\ \/ \E i \in Items :
                 /\ ~Open(i) /\ \A j \in Items : Open(j)' <=> Open(j) \/ j = i
                 /\ perUserCount' = [perUserCount EXCEPT ![KeyOf[i]] = @ + 1]
            \/ \E w \in Items :
                 /\ cur[w] \in Items /\ Open(cur[w]) /\ KeyOf[cur[w]] = KeyOf[w]
                 /\ \A j \in Items : Open(j)' <=> Open(j) /\ j # cur[w]
                 /\ DecrementCount(KeyOf[w])
            \/ /\ \A j \in Items : Open(j)' <=> Open(j)
               /\ UNCHANGED perUserCount
  <1> DEFINE Opened == \E i \in Items :
                 /\ ~Open(i) /\ \A j \in Items : Open(j)' <=> Open(j) \/ j = i
                 /\ perUserCount' = [perUserCount EXCEPT ![KeyOf[i]] = @ + 1]
             Closed == \E w \in Items :
                 /\ cur[w] \in Items /\ Open(cur[w]) /\ KeyOf[cur[w]] = KeyOf[w]
                 /\ \A j \in Items : Open(j)' <=> Open(j) /\ j # cur[w]
                 /\ DecrementCount(KeyOf[w])
             Same == /\ \A j \in Items : Open(j)' <=> Open(j)
                     /\ UNCHANGED perUserCount
  <1>0. /\ epc \in [Items -> EnqueueStates] /\ wpc \in [Items -> WorkerStates]
        /\ ech \in [Items -> Items \cup {NONE}] /\ cur \in [Items -> Items \cup {NONE}]
        /\ \A j \in Items : epc[j] \in {"send", "undo", "true"} => ech[j] \in Items
        /\ \A j \in Items : j \in handled => epc[j] = "true"
    BY DEF IInv, TypeOK, Places, CallHoldsChannel, HandledAccepted
  <1>1. ASSUME NEW i \in Items, Enqueue(i), ~cancelled PROVE Opened \/ Same
    <2> USE DEF EnqueueStep, mapVars, workerVars, stopVars
    <2>1. CASE CheckStopped(i) \/ RejectFull(i)
      <3>1. /\ epc[i] \in {"idle", "checked"} /\ epc'[i] \in {"checked", "false"}
            /\ \A j \in Items : j # i => epc'[j] = epc[j]
            /\ UNCHANGED <<ech, wpc, cur, handled, perUserCount>>
        BY <1>0, <2>1 DEF CheckStopped, RejectFull
      <3> QED
        BY <3>1 DEF Open
    <2>2. CASE Reserve(i)
      <3>1. /\ epc[i] = "checked" /\ epc'[i] = "send"
            /\ \A j \in Items : j # i => epc'[j] = epc[j]
            /\ UNCHANGED <<cur, handled>>
            /\ perUserCount' = [perUserCount EXCEPT ![KeyOf[i]] = @ + 1]
        BY <1>0, <2>2 DEF Reserve
      <3>2. wpc[i] = "none" /\ i \notin handled
        BY <1>0, <3>1 DEF IInv, FreshCalls
      <3>3. \A j \in Items : /\ j # i => ech'[j] = ech[j]
                             /\ wpc'[j] = "decrement" <=> wpc[j] = "decrement"
        BY <1>0, <2>2, <3>2 DEF Reserve
      <3>4. \A j \in Items : Open(j)' <=> Open(j) \/ j = i
        BY <1>0, <3>1, <3>2, <3>3 DEF Open
      <3> QED
        BY <3>1, <3>4 DEF Open
    <2>3. CASE Send(i)
      <3>1. /\ epc[i] = "send" /\ epc'[i] = "true"
            /\ \A j \in Items : j # i => epc'[j] = epc[j]
            /\ UNCHANGED <<ech, wpc, cur, handled, perUserCount>>
        BY <1>0, <2>3 DEF Send
      <3> QED
        BY <1>0, <3>1 DEF Open
    <2>4. CASE SendCancelled(i) \/ UndoReserve(i)
      BY <1>1, <2>4 DEF SendCancelled, UndoReserve, Places, NoneLeft
    <2> QED
      BY <1>1, <2>1, <2>2, <2>3, <2>4 DEF Enqueue
  <1>2. ASSUME NEW w \in Items, Worker(w), ~cancelled PROVE Closed \/ Same
    <2> USE DEF WorkerStep, enqueueVars, mapVars, stopVars
    <2>1. CASE Receive(w) \/ Acquire(w)
      <3>1. /\ wpc[w] \in {"select", "acquire"} /\ wpc'[w] \in {"acquire", "handle"}
            /\ \A v \in Items : v # w => wpc'[v] = wpc[v] /\ cur'[v] = cur[v]
            /\ UNCHANGED <<epc, ech, handled, perUserCount>>
        BY <1>0, <2>1 DEF Receive, Acquire
      <3> QED
        BY <1>0, <3>1 DEF Open
    <2>2. CASE HandlerReturns(w)
      <3>1. /\ wpc[w] = "handle" /\ wpc'[w] = "decrement"
            /\ \A v \in Items : v # w => wpc'[v] = wpc[v]
            /\ handled' = handled \cup {cur[w]}
            /\ UNCHANGED <<epc, ech, cur, perUserCount>>
        BY <1>0, <2>2 DEF HandlerReturns
      <3>2. /\ cur[w] \in Items /\ epc[cur[w]] = "true" /\ ech[cur[w]] = w
            /\ cur[w] \notin handled
        BY <3>1 DEF IInv, BusyHasItem, Places, HeldOnce, Holding
      <3> QED
        BY <1>0, <3>1, <3>2 DEF Open
    <2>3. CASE Decrement(w)
      <3>1. /\ wpc[w] = "decrement" /\ wpc'[w] = "select"
            /\ \A v \in Items : v # w => wpc'[v] = wpc[v]
            /\ UNCHANGED <<epc, ech, cur, handled>>
            /\ DecrementCount(KeyOf[w])
        BY <1>0, <2>3 DEF Decrement
      <3>2. /\ cur[w] \in Items /\ epc[cur[w]] = "true" /\ ech[cur[w]] = w
            /\ cur[w] \in handled
        BY <3>1 DEF IInv, BusyHasItem, Places, HeldOnce, Holding
      <3>3. KeyOf[cur[w]] = KeyOf[w]
        BY <3>2 DEF Places, CallHoldsChannel
      <3>4. Open(cur[w]) /\ \A j \in Items : Open(j)' <=> Open(j) /\ j # cur[w]
        BY <1>0, <3>1, <3>2 DEF Open
      <3> QED
        BY <3>1, <3>2, <3>3, <3>4
    <2>4. CASE \/ SelectCancelled(w) \/ AcquireCancelled(w) \/ DropItem(w)
               \/ Cleanup(w) \/ WorkerDone(w)
      BY <1>2, <2>4 DEF SelectCancelled, AcquireCancelled, DropItem, Cleanup,
         WorkerDone, Places, NoneLeft
    <2> QED
      BY <1>2, <2>1, <2>2, <2>3, <2>4 DEF Worker
  <1>3. ASSUME NEW s \in Stoppers, Stop(s) PROVE Same
    BY <1>3 DEF Stop, StopSwap, StopCancel, StopWait, StopResume, Open,
       enqueueVars, mapVars, workerVars
  <1>4. ASSUME UNCHANGED vars PROVE Same
    BY <1>4 DEF vars, enqueueVars, mapVars, workerVars, Open
  <1>5. ~cancelled
    <2>1. ASSUME NEW i \in Items, Enqueue(i) PROVE cancelled' = cancelled
      BY <2>1 DEF Enqueue, CheckStopped, RejectFull, Reserve, Send,
         SendCancelled, UndoReserve, stopVars
    <2>2. ASSUME NEW w \in Items, Worker(w) PROVE cancelled' = cancelled
      BY <2>2 DEF Worker, Receive, SelectCancelled, Acquire, AcquireCancelled,
         DropItem, HandlerReturns, Decrement, Cleanup, WorkerDone, stopVars
    <2>3. ASSUME NEW s \in Stoppers, Stop(s) PROVE cancelled => cancelled'
      BY <2>3 DEF Stop, StopSwap, StopCancel, StopWait, StopResume
    <2> QED
      BY <2>1, <2>2, <2>3 DEF Next, vars, stopVars
  <1> HIDE DEF Opened, Closed, Same
  <1>6. Opened \/ Closed \/ Same
    BY <1>1, <1>2, <1>3, <1>4, <1>5 DEF Next
  <1> QED
    BY <1>5, <1>6 DEF Opened, Closed, Same

LEMMA CountExactStep ==
  ASSUME IInv, IInv', Places, Places', CountExact, [Next]_vars
  PROVE  CountExact'
  <1> SUFFICES ASSUME ~cancelled', NEW k \in Keys
               PROVE  perUserCount'[k] = Cardinality(Outstanding(k)')
    BY DEF CountExact
  <1> DEFINE O == {i \in Items : KeyOf[i] = k /\ Open(i)}
             P == {i \in Items : KeyOf[i] = k /\ Open(i)'}
  <1>1. Outstanding(k) = O /\ Outstanding(k)' = P
    <2>1. Outstanding(k) = O
      BY OutstandingIsOpen
    <2>2. \A i, w \in Items : wpc'[w] = "decrement" /\ cur'[w] = i => ech'[i] = w
      BY DEF Places, HeldOnce, Holding
    <2>3. \A i \in Items : epc'[i] \in {"send", "undo", "true"} => ech'[i] \in Items
      BY DEF Places, CallHoldsChannel
    <2> QED
      BY <2>1, <2>2, <2>3 DEF Outstanding, Open
  <1>2. IsFiniteSet(O) /\ IsFiniteSet(P)
    BY QueueAssumption, FS_Subset
  <1>3. /\ perUserCount[k] = Cardinality(O) /\ Cardinality(O) \in Nat
        /\ perUserCount \in [Keys -> 0 .. PerUserSize]
        /\ \A i \in Items : KeyOf[i] \in Keys
    BY <1>1, <1>2, OpenSteps, FS_CardinalityType, QueueAssumption
    DEF CountExact, IInv, TypeOK
  <1>4. ASSUME NEW i \in Items, ~Open(i), \A j \in Items : Open(j)' <=> Open(j) \/ j = i,
               perUserCount' = [perUserCount EXCEPT ![KeyOf[i]] = @ + 1]
        PROVE  perUserCount'[k] = Cardinality(P)
    <2>1. CASE KeyOf[i] = k
      <3>1. P = O \cup {i} /\ i \notin O
        BY <1>4, <2>1
      <3>2. Cardinality(P) = Cardinality(O) + 1
        BY <1>2, <3>1, FS_AddElement
      <3> QED
        BY <1>3, <1>4, <2>1, <3>2
    <2>2. CASE KeyOf[i] # k
      <3>1. P = O
        BY <1>4, <2>2
      <3> QED
        BY <1>3, <1>4, <2>2, <3>1
    <2> QED
      BY <2>1, <2>2
  <1>5. ASSUME NEW w \in Items, cur[w] \in Items, Open(cur[w]),
               KeyOf[cur[w]] = KeyOf[w],
               \A j \in Items : Open(j)' <=> Open(j) /\ j # cur[w],
               DecrementCount(KeyOf[w])
        PROVE  perUserCount'[k] = Cardinality(P)
    <2>1. CASE KeyOf[w] = k
      <3>1. P = O \ {cur[w]} /\ cur[w] \in O
        BY <1>5, <2>1
      <3>2. Cardinality(P) = Cardinality(O) - 1 /\ Cardinality(O) # 0
        BY <1>2, <3>1, FS_RemoveElement, FS_EmptySet
      <3> QED
        BY <1>3, <1>5, <2>1, <3>2 DEF DecrementCount
    <2>2. CASE KeyOf[w] # k
      <3>1. P = O
        BY <1>5, <2>2
      <3> QED
        BY <1>3, <1>5, <2>2, <3>1 DEF DecrementCount
    <2> QED
      BY <2>1, <2>2
  <1>6. ASSUME \A j \in Items : Open(j)' <=> Open(j), UNCHANGED perUserCount
        PROVE  perUserCount'[k] = Cardinality(P)
    <2>1. P = O
      BY <1>6
    <2> QED
      BY <1>3, <1>6, <2>1
  <1> HIDE DEF O, P
  <1> QED
    BY <1>1, <1>4, <1>5, <1>6, OpenSteps

(* The room a reservation stands for: besides the item to be sent, what is  *)
(* in the channel and in its worker's hands is outstanding, each item once. *)
LEMMA RoomLeft ==
  ASSUME IInv, Places, CountExact, ~cancelled, NEW i \in Items, epc[i] = "send"
  PROVE  /\ Len(buf[ech[i]]) < PerUserSize
         /\ Processing(ech[i]) => Len(buf[ech[i]]) + 1 < PerUserSize
  <1> DEFINE c == ech[i]
             k == KeyOf[i]
             S == Outstanding(k) \ {i}
             lo == IF Processing(c) THEN 0 ELSE 1
             L == Len(buf[c])
             f == [n \in lo .. L |-> IF n = 0 THEN cur[c] ELSE buf[c][n]]
  <1>1. /\ c \in Items /\ KeyOf[c] = k /\ k \in Keys
        /\ L \in Nat /\ lo \in {0, 1} /\ (lo = 0 <=> Processing(c))
        /\ \A n \in 1 .. L : buf[c][n] \in Items
    BY QueueAssumption, Shapes DEF Places, CallHoldsChannel, IInv
  <1>2. i \notin handled
    BY DEF Places, HandledAccepted
  <1>3. \A j \in Items : epc[j] = "true" /\ ech[j] = c /\ j \notin handled => j \in S
    <2>1. \A j \in Items : epc[j] = "true" => j # i /\ KeyOf[ech[j]] = KeyOf[j]
      BY DEF Places, CallHoldsChannel
    <2> QED
      BY <1>1, <2>1 DEF Outstanding
  <1>4. \A n \in 1 .. L : buf[c][n] \in S
    BY <1>1, <1>3 DEF Places, QueuedOnce
  <1>5. Processing(c) => cur[c] \in S /\ \A n \in 1 .. L : buf[c][n] # cur[c]
    BY <1>1, <1>3 DEF Places, HeldOnce, Holding, Processing, IInv, BusyHasItem
  <1>6. \A m, n \in 1 .. L : buf[c][m] = buf[c][n] => m = n
    BY <1>1 DEF Places, QueuedOnce
  <1>7. IsFiniteSet(S) /\ Cardinality(S) \in Nat /\ Cardinality(S) < PerUserSize
    <2>1. i \in Outstanding(k)
      BY <1>2 DEF Outstanding
    <2>2. /\ IsFiniteSet(Outstanding(k)) /\ IsFiniteSet(S)
          /\ Cardinality(S) = Cardinality(Outstanding(k)) - 1
      BY <2>1, OutstandingFinite, FS_RemoveElement
    <2>3. Cardinality(Outstanding(k)) \in 0 .. PerUserSize
      BY <1>1 DEF CountExact, IInv, TypeOK
    <2> QED
      BY <2>2, <2>3, QueueAssumption, FS_CardinalityType
  <1>8. \A n \in lo .. L : n # 0 => n \in 1 .. L
    BY <1>1
  <1>9. f \in [lo .. L -> S]
    BY <1>4, <1>5, <1>8
  <1>10. \A m, n \in lo .. L : f[m] = f[n] => m = n
    BY <1>5, <1>6, <1>8
  <1> HIDE DEF f, S, lo, L
  <1>11. IsFiniteSet(lo .. L) /\ Cardinality(lo .. L) = L - lo + 1
    <2>1. lo \in Int /\ L \in Int /\ (lo > L => L - lo + 1 = 0)
      BY <1>1
    <2> QED
      BY <2>1, FS_Interval
  <1>12. ~(Cardinality(S) < Cardinality(lo .. L))
    BY <1>7, <1>9, <1>10, <1>11, FS_PigeonHole
  <1> QED
    <2>1. L - lo + 1 < PerUserSize
      BY <1>1, <1>7, <1>11, <1>12, QueueAssumption
    <2>2. L < PerUserSize /\ (Processing(c) => L + 1 < PerUserSize)
      BY <1>1, <2>1, QueueAssumption
    <2> QED
      BY <2>2 DEF L

(* The inductive invariant with the places of the items and the counts.     *)
QInv == IInv /\ Places /\ CountExact

LEMMA InitQInv == Init => QInv
  <1> SUFFICES ASSUME Init PROVE CountExact
    BY InitIInv, InitPlaces DEF QInv
  <1>1. \A k : Outstanding(k) = {}
    BY DEF Init, Outstanding
  <1> QED
    BY <1>1, FS_EmptySet DEF CountExact, Init

LEMMA QInvAlways == Spec => []QInv
  <1>1. QInv /\ [Next]_vars => QInv'
    BY IInvStep, PlacesStep, CountExactStep DEF QInv
  <1> QED
    BY InitQInv, <1>1, PTL DEF Spec

(* The count taken under the lock is exact until the queue is cancelled,    *)
(* so the limit is neither overrun nor used up by items long gone, and the  *)
(* send after the reservation always finds room (queue.go:84-103, 168-174). *)
THEOREM CountsAlwaysFit == Spec => []CountsFit
  <1>1. QInv => CountsFit
    <2> SUFFICES ASSUME QInv, ~cancelled, NEW i \in Items, epc[i] = "send"
                 PROVE  Len(buf[ech[i]]) < PerUserSize
      BY DEF CountsFit, SendNeverBlocks, QInv
    <2>1. ech[i] \in Items /\ Len(buf[ech[i]]) \in Nat
      BY DEF QInv, IInv, TypeOK, Places, CallHoldsChannel
    <2> QED
      BY <2>1, RoomLeft, QueueAssumption DEF QInv
  <1> QED
    BY QInvAlways, <1>1, PTL

-----------------------------------------------------------------------------
(* The refinement.  The abstract state, by name.                            *)
Accepted == {i \in Items : epc[i] = "true"}
Pending  == [k \in Keys |-> PendingOf(k)]
Running  == [k \in Keys |-> RunningOf(k)]

(* The instance's copy of Cardinality is the one used here.                 *)
LEMMA PromiseCardinality == \A S : Promise!Cardinality(S) = Cardinality(S)
  BY DEF Promise!Cardinality, Cardinality

LEMMA InitPromised == Init => Promise!AInit
  BY DEF Init, Promise!AInit, PendingOf, RunningOf

(* What the map's worker of a key means for the abstract processor, by the  *)
(* state that worker is in.                                                 *)
LEMMA PromisedState ==
  ASSUME IInv, NEW w \in Items
  PROVE  /\ KeyOf[w] \in Keys
         /\ \A k \in Keys : perUserCh[k] = w => k = KeyOf[w] /\ Live(w)
         /\ Live(w) => perUserCh[KeyOf[w]] = w
         /\ wpc[w] = "acquire" => PendingOf(KeyOf[w]) = <<cur[w]>> \o buf[w]
         /\ wpc[w] \in {"select", "handle", "decrement"} => PendingOf(KeyOf[w]) = buf[w]
         /\ wpc[w] \in {"drop", "cleanup"} => PendingOf(KeyOf[w]) = << >>
         /\ wpc[w] = "handle" => RunningOf(KeyOf[w]) = cur[w]
         /\ Live(w) /\ wpc[w] # "handle" => RunningOf(KeyOf[w]) = NONE
  <1>1. /\ KeyOf[w] \in Keys /\ w # NONE
        /\ \A k \in Keys : perUserCh[k] = w => k = KeyOf[w] /\ Live(w)
        /\ Live(w) => perUserCh[KeyOf[w]] = w
    BY QueueAssumption DEF IInv, WorkerOwnsKey
  <1>2. wpc[w] \in {"select", "acquire", "handle", "decrement", "drop", "cleanup"} => Live(w)
    BY DEF Live
  <1>3. ASSUME Live(w)
        PROVE  /\ PendingOf(KeyOf[w]) =
                    IF wpc[w] \in {"drop", "cleanup"} THEN << >>
                    ELSE IF wpc[w] = "acquire" THEN <<cur[w]>> \o buf[w] ELSE buf[w]
               /\ RunningOf(KeyOf[w]) = IF wpc[w] = "handle" THEN cur[w] ELSE NONE
    BY <1>1, <1>3 DEF PendingOf, RunningOf
  <1> QED
    BY <1>1, <1>2, <1>3

(* A step that leaves the map's entry and the entry's worker of a key alone *)
(* leaves the abstract state of that key alone.                             *)
LEMMA PromiseKept ==
  ASSUME NEW k \in Keys, perUserCh'[k] = perUserCh[k],
         perUserCh[k] # NONE =>
           LET w == perUserCh[k]
           IN  wpc'[w] = wpc[w] /\ cur'[w] = cur[w] /\ buf'[w] = buf[w]
  PROVE  PendingOf(k)' = PendingOf(k) /\ RunningOf(k)' = RunningOf(k)
  BY DEF PendingOf, RunningOf

LEMMA PromiseStutters ==
  ASSUME \A k \in Keys : PendingOf(k)' = PendingOf(k) /\ RunningOf(k)' = RunningOf(k),
         \A i \in Items : epc'[i] = "true" <=> epc[i] = "true",
         UNCHANGED <<handled, cancelled>>
  PROVE  UNCHANGED Promise!avars
  BY DEF Promise!avars

(* The keys that run something are no more than the workers in a handler.   *)
LEMMA RunningBounded ==
  ASSUME IInv
  PROVE  /\ Cardinality({k \in Keys : Running[k] # NONE}) \in Nat
         /\ Cardinality({k \in Keys : Running[k] # NONE}) <= semaphore
  <1> DEFINE R == {k \in Keys : Running[k] # NONE}
             f == [k \in R |-> perUserCh[k]]
  <1>1. \A k \in R : /\ perUserCh[k] \in Items /\ wpc[perUserCh[k]] = "handle"
                     /\ KeyOf[perUserCh[k]] = k
    BY DEF Running, RunningOf, IInv, TypeOK, WorkerOwnsKey
  <1>2. f \in Injection(R, Handling)
    BY <1>1 DEF Handling, WorkersIn, Injection, IsInjective
  <1>3. IsFiniteSet(Handling) /\ semaphore = Cardinality(Handling)
    BY WorkersInFinite, ExactCounts DEF Handling, IInv
  <1>4. IsFiniteSet(R) /\ Cardinality(R) <= Cardinality(Handling)
    BY <1>2, <1>3, FS_Injection
  <1> QED
    BY <1>3, <1>4, FS_CardinalityType


(* The steps of Enqueue: a send is an acceptance, and one that comes too    *)
(* late is abandoned at once; the others change nothing that is promised.   *)
LEMMA EnqueueImplements ==
  ASSUME QInv, NEW i \in Items, Enqueue(i)
  PROVE  Promise!ANext \/ UNCHANGED Promise!avars
  <1> USE DEF EnqueueStep, mapVars, workerVars, stopVars
  <1>0. /\ IInv /\ Places /\ CountExact
        /\ epc \in [Items -> EnqueueStates] /\ wpc \in [Items -> WorkerStates]
        /\ perUserCh \in [Keys -> Items \cup {NONE}]
        /\ buf \in [Items -> Seq(Items)]
        /\ \A j \in Items : KeyOf[j] \in Keys /\ j # NONE
    BY QueueAssumption DEF QInv, IInv, TypeOK
  <1>1. CASE CheckStopped(i) \/ RejectFull(i) \/ SendCancelled(i) \/ UndoReserve(i)
    <2>1. /\ UNCHANGED <<perUserCh, wpc, cur, buf, handled, cancelled>>
          /\ epc[i] # "true" /\ epc'[i] # "true"
          /\ \A j \in Items : j # i => epc'[j] = epc[j]
      BY <1>0, <1>1 DEF CheckStopped, RejectFull, SendCancelled, UndoReserve
    <2>2. \A k \in Keys : PendingOf(k)' = PendingOf(k) /\ RunningOf(k)' = RunningOf(k)
      BY <2>1 DEF PendingOf, RunningOf
    <2> QED
      BY <2>1, <2>2, PromiseStutters
  <1>2. CASE Reserve(i)
    <2>1. /\ UNCHANGED <<cur, buf, handled, cancelled>>
          /\ epc[i] = "checked" /\ epc'[i] = "send"
          /\ \A j \in Items : j # i => epc'[j] = epc[j]
      BY <1>0, <1>2 DEF Reserve
    <2>2. wpc[i] = "none" /\ buf[i] = << >>
      <3>1. wpc[i] = "none"
        BY <1>0, <2>1 DEF IInv, FreshCalls
      <3>2. \A n \in 1 .. Len(buf[i]) : FALSE
        BY <1>0, <3>1, Shapes DEF Places, QueuedOnce, CallHoldsChannel, IInv
      <3>3. Len(buf[i]) = 0
        BY <1>0, <3>2
      <3> QED
        BY <1>0, <3>1, <3>3
    <2>3. ASSUME NEW k \in Keys
          PROVE  PendingOf(k)' = PendingOf(k) /\ RunningOf(k)' = RunningOf(k)
      <3>1. CASE perUserCh[k] # NONE
        <4>1. perUserCh[k] # i
          BY <1>0, <2>2 DEF IInv, WorkerOwnsKey, Live
        <4>2. perUserCh'[k] = perUserCh[k] /\ wpc'[perUserCh[k]] = wpc[perUserCh[k]]
          BY <1>0, <1>2, <3>1, <4>1 DEF Reserve
        <4> QED
          BY <2>1, <4>2, PromiseKept
      <3>2. CASE perUserCh[k] = NONE /\ perUserCh'[k] = NONE
        BY <3>2 DEF PendingOf, RunningOf
      <3>3. CASE perUserCh[k] = NONE /\ perUserCh'[k] # NONE
        <4>1. perUserCh'[k] = i /\ wpc'[i] = "select"
          BY <1>0, <1>2, <3>3 DEF Reserve
        <4> QED
          BY <1>0, <2>1, <2>2, <3>3, <4>1 DEF PendingOf, RunningOf
      <3> QED
        BY <3>1, <3>2, <3>3
    <2> QED
      BY <2>1, <2>3, PromiseStutters
  <1>3. CASE Send(i)
    <2> DEFINE c == ech[i]
               k == KeyOf[i]
    <2>1. /\ c \in Items /\ KeyOf[c] = k /\ wpc[c] # "none" /\ k \in Keys
          /\ epc[i] = "send" /\ epc'[i] = "true"
          /\ \A j \in Items : j # i => epc'[j] = epc[j]
          /\ UNCHANGED <<perUserCh, wpc, cur, handled, cancelled>>
          /\ buf' = [buf EXCEPT ![c] = Append(@, i)]
          /\ buf'[c] = Append(buf[c], i)
          /\ \A w \in Items : w # c => buf'[w] = buf[w]
      BY <1>0, <1>3 DEF Send, Places, CallHoldsChannel
    <2> HIDE DEF c
    <2>2. Accepted' = Accepted \cup {i} /\ i \notin Accepted
      BY <1>0, <2>1 DEF Accepted
    <2>3. \A j \in Keys : RunningOf(j)' = RunningOf(j)
      BY <2>1 DEF RunningOf
    <2>4. \A j \in Keys : j # k => PendingOf(j)' = PendingOf(j)
      <3>1. ASSUME NEW j \in Keys, j # k PROVE PendingOf(j)' = PendingOf(j)
        <4>1. perUserCh[j] # c
          BY <1>0, <2>1, <3>1, PromisedState
        <4>2. perUserCh[j] # NONE => buf'[perUserCh[j]] = buf[perUserCh[j]]
          BY <1>0, <2>1, <3>1, <4>1
        <4> QED
          BY <2>1, <3>1, <4>2, PromiseKept
      <3> QED
        BY <3>1
    <2>5. CASE wpc[c] \in {"select", "acquire", "handle", "decrement"}
      <3>1. /\ PendingOf(k) = (IF wpc[c] = "acquire" THEN <<cur[c]>> \o buf[c] ELSE buf[c])
            /\ perUserCh[k] = c
            /\ wpc[c] # "handle" => RunningOf(k) = NONE
        BY <1>0, <2>1, <2>5, PromisedState DEF Live
      <3>2. PendingOf(k)' = (IF wpc[c] = "acquire" THEN <<cur[c]>> \o buf'[c] ELSE buf'[c])
        BY <1>0, <2>1, <2>5, <3>1 DEF PendingOf
      <3>3. wpc[c] = "acquire" => cur[c] \in Items
        BY <1>0, <2>1 DEF IInv, BusyHasItem
      <3>4. PendingOf(k)' = Append(PendingOf(k), i) /\ PendingOf(k) \in Seq(Items)
        BY <1>0, <2>1, <3>1, <3>2, <3>3, SMTT(20)
      <3>5. Pending' = [Pending EXCEPT ![k] = Append(@, i)]
        BY <2>1, <2>4, <3>4 DEF Pending
      <3>6. cancelled \/ Len(PendingOf(k)) + (IF RunningOf(k) = NONE THEN 0 ELSE 1) < PerUserSize
        <4>1. CASE ~cancelled
          <5>1. Len(buf[c]) < PerUserSize /\ (Processing(c) => Len(buf[c]) + 1 < PerUserSize)
            <6>1. epc[i] = "send"
              BY <2>1
            <6>2. /\ Len(buf[ech[i]]) < PerUserSize
                  /\ Processing(ech[i]) => Len(buf[ech[i]]) + 1 < PerUserSize
              BY ONLY <6>1, <4>1, QInv, i \in Items, RoomLeft DEF QInv
            <6> QED
              BY <6>2 DEF c
          <5>2. Len(buf[c]) \in Nat
            BY <1>0, <2>1
          <5>3. wpc[c] = "acquire" => Len(PendingOf(k)) = Len(buf[c]) + 1
            BY <1>0, <2>1, <3>1, <3>3
          <5>4. /\ wpc[c] = "handle" => Len(PendingOf(k)) = Len(buf[c])
                /\ wpc[c] \notin {"acquire", "handle"} => Len(PendingOf(k)) = Len(buf[c])
            BY <3>1
          <5> DEFINE running == RunningOf(k)
                     left == Len(PendingOf(k))
                     sent == Len(buf[c])
          <5>5. /\ wpc[c] # "handle" => running = NONE
                /\ wpc[c] = "acquire" => left = sent + 1
                /\ wpc[c] # "acquire" => left = sent
                /\ sent \in Nat /\ PerUserSize \in Nat /\ sent < PerUserSize
                /\ wpc[c] \in {"acquire", "handle"} => sent + 1 < PerUserSize
            BY <3>1, <5>1, <5>2, <5>3, <5>4, QueueAssumption DEF Processing
          <5> HIDE DEF running, left, sent
          <5>6. left + (IF running = NONE THEN 0 ELSE 1) < PerUserSize
            BY <5>5
          <5> QED
            BY <5>6 DEF running, left
        <4> QED
          BY <4>1
      <3>7. Promise!Accept(i)
        BY <2>1, <2>2, <2>3, <3>5, <3>6
        DEF Promise!Accept, Promise!Backlog, Accepted, Pending
      <3> QED
        BY <3>7 DEF Promise!ANext
    <2>6. CASE wpc[c] \in {"drop", "cleanup", "done", "gone"}
      <3>1. cancelled
        BY <1>0, <2>1, <2>6 DEF Places, NoneLeft
      <3>2. PendingOf(k)' = PendingOf(k)
        <4>1. CASE wpc[c] \in {"drop", "cleanup"}
          <5>1. perUserCh[k] = c
            BY <1>0, <2>1, <4>1, PromisedState DEF Live
          <5> QED
            BY <2>1, <4>1, <5>1 DEF PendingOf
        <4>2. CASE wpc[c] \in {"done", "gone"}
          <5>1. perUserCh[k] # c
            <6>1. c \in Items /\ k \in Keys /\ ~Live(c)
              BY <1>0, <2>1, <4>2 DEF Live
            <6>2. \A j \in Keys : perUserCh[j] = c => Live(c)
              BY <1>0, <6>1, PromisedState
            <6> QED
              BY ONLY <6>1, <6>2
          <5>2. perUserCh[k] # NONE => buf'[perUserCh[k]] = buf[perUserCh[k]]
            <6>1. /\ buf' = [buf EXCEPT ![c] = Append(@, i)] /\ buf \in [Items -> Seq(Items)]
                  /\ perUserCh[k] \in Items \cup {NONE} /\ c \in Items
              BY <1>0, <2>1
            <6> QED
              BY ONLY <5>1, <6>1
          <5>3. k \in Keys /\ UNCHANGED <<perUserCh, wpc, cur>>
            BY <2>1
          <5> HIDE DEF k
          <5> QED
            BY <5>2, <5>3, PromiseKept
        <4> QED
          BY <2>6, <4>1, <4>2
      <3>3. Promise!AcceptAndAbandon(i)
        BY <2>1, <2>2, <2>3, <2>4, <3>1, <3>2 DEF Promise!AcceptAndAbandon, Accepted
      <3> QED
        BY <3>3 DEF Promise!ANext
    <2> QED
      BY <1>0, <2>1, <2>5, <2>6 DEF WorkerStates
  <1> QED
    BY <1>1, <1>2, <1>3 DEF Enqueue

(* A step of one worker disturbs the abstract state of its own key only,    *)
(* and that only while the map names it.                                    *)
LEMMA OtherKeysKept ==
  ASSUME IInv, NEW w \in Items, Worker(w), NEW k \in Keys, perUserCh[k] # w
  PROVE  PendingOf(k)' = PendingOf(k) /\ RunningOf(k)' = RunningOf(k)
  <1> USE DEF WorkerStep, mapVars
  <1>1. /\ wpc \in [Items -> WorkerStates] /\ buf \in [Items -> Seq(Items)]
        /\ cur \in [Items -> Items \cup {NONE}]
        /\ perUserCh \in [Keys -> Items \cup {NONE}]
    BY DEF IInv, TypeOK
  <1>2. perUserCh'[k] = perUserCh[k]
    <2>1. CASE Cleanup(w)
      <3>1. k # KeyOf[w]
        BY <2>1, PromisedState DEF Cleanup, Live
      <3> QED
        BY <1>1, <2>1, <3>1 DEF Cleanup
    <2>2. CASE ~Cleanup(w)
      BY <2>2 DEF Worker, Receive, SelectCancelled, Acquire, AcquireCancelled,
         DropItem, HandlerReturns, Decrement, WorkerDone
    <2> QED
      BY <2>1, <2>2
  <1>3. \A v \in Items : v # w => wpc'[v] = wpc[v] /\ cur'[v] = cur[v] /\ buf'[v] = buf[v]
    <2>1. CASE Receive(w)
      BY <1>1, <2>1 DEF Receive
    <2>2. CASE ~Receive(w)
      BY <1>1, <2>2 DEF Worker, SelectCancelled, Acquire, AcquireCancelled,
         DropItem, HandlerReturns, Decrement, Cleanup, WorkerDone
    <2> QED
      BY <2>1, <2>2
  <1> QED
    BY <1>1, <1>2, <1>3, PromiseKept

(* The steps of a worker: taking a slot begins an item, the handler's       *)
(* return finishes it, leaving on cancellation abandons what is queued; the *)
(* others change nothing that is promised.                                  *)
LEMMA WorkerImplements ==
  ASSUME QInv, NEW w \in Items, Worker(w)
  PROVE  Promise!ANext \/ UNCHANGED Promise!avars
  <1> DEFINE k == KeyOf[w]
  <1>0. /\ IInv /\ Places
        /\ wpc \in [Items -> WorkerStates] /\ buf \in [Items -> Seq(Items)]
        /\ cur \in [Items -> Items \cup {NONE}]
        /\ perUserCh \in [Keys -> Items \cup {NONE}]
        /\ k \in Keys /\ w # NONE
    BY QueueAssumption DEF QInv, IInv, TypeOK
  <1>1. /\ UNCHANGED <<epc, cancelled>>
        /\ \A j \in Keys : j # k => PendingOf(j)' = PendingOf(j) /\ RunningOf(j)' = RunningOf(j)
    <2>1. UNCHANGED <<epc, cancelled>>
      BY DEF Worker, Receive, SelectCancelled, Acquire, AcquireCancelled, DropItem,
         HandlerReturns, Decrement, Cleanup, WorkerDone, enqueueVars, stopVars
    <2>2. \A j \in Keys : j # k => perUserCh[j] # w
      BY <1>0, PromisedState
    <2> QED
      BY <1>0, <2>1, <2>2, OtherKeysKept
  <1> USE DEF WorkerStep, mapVars, stopVars, enqueueVars
  <1>2. CASE Receive(w)
    <2>1. /\ wpc[w] = "select" /\ wpc'[w] = "acquire" /\ perUserCh' = perUserCh
          /\ buf[w] # << >> /\ cur'[w] = Head(buf[w]) /\ buf'[w] = Tail(buf[w])
          /\ handled' = handled
      BY <1>0, <1>2 DEF Receive
    <2>2. perUserCh[k] = w
      BY <1>0, <2>1, PromisedState DEF Live
    <2>3. PendingOf(k) = buf[w] /\ PendingOf(k)' = <<Head(buf[w])>> \o Tail(buf[w])
      BY <1>0, <2>1, <2>2 DEF PendingOf
    <2>4. <<Head(buf[w])>> \o Tail(buf[w]) = buf[w]
      BY <1>0, <2>1
    <2>5. RunningOf(k)' = RunningOf(k)
      BY <1>0, <2>1, <2>2 DEF RunningOf
    <2> QED
      BY <1>1, <2>1, <2>3, <2>4, <2>5, PromiseStutters
  <1>3. CASE SelectCancelled(w) \/ AcquireCancelled(w)
    <2>1. /\ wpc[w] \in {"select", "acquire"} /\ wpc'[w] \in {"cleanup", "drop"}
          /\ cancelled /\ perUserCh' = perUserCh /\ handled' = handled
      BY <1>0, <1>3 DEF SelectCancelled, AcquireCancelled
    <2>2. perUserCh[k] = w
      BY <1>0, <2>1, PromisedState DEF Live
    <2>3. PendingOf(k)' = << >> /\ RunningOf(k)' = RunningOf(k)
      BY <1>0, <2>1, <2>2 DEF PendingOf, RunningOf
    <2>4. Promise!Abandon(k)
      BY <1>0, <1>1, <2>1, <2>3 DEF Promise!Abandon
    <2> QED
      BY <1>0, <2>4 DEF Promise!ANext
  <1>4. CASE Acquire(w)
    <2>1. /\ wpc[w] = "acquire" /\ wpc'[w] = "handle" /\ semaphore < MaxConcurrent
          /\ UNCHANGED <<perUserCh, handled, cur, buf>>
      BY <1>0, <1>4 DEF Acquire
    <2>2. perUserCh[k] = w /\ cur[w] \in Items
      BY <1>0, <2>1, PromisedState DEF Live, IInv, BusyHasItem
    <2>3. /\ PendingOf(k) = <<cur[w]>> \o buf[w] /\ PendingOf(k)' = buf[w]
          /\ RunningOf(k) = NONE /\ RunningOf(k)' = cur[w]
      BY <1>0, <2>1, <2>2 DEF PendingOf, RunningOf
    <2>4. PendingOf(k) # << >> /\ Head(PendingOf(k)) = cur[w] /\ Tail(PendingOf(k)) = buf[w]
      BY <1>0, <2>2, <2>3
    <2>5. Cardinality({j \in Keys : [l \in Keys |-> RunningOf(l)][j] # NONE}) < MaxConcurrent
      <3>1. /\ Cardinality({j \in Keys : Running[j] # NONE}) \in Nat
            /\ Cardinality({j \in Keys : Running[j] # NONE}) <= semaphore
            /\ semaphore \in Nat
        BY <1>0, RunningBounded DEF IInv, TypeOK
      <3>2. Cardinality({j \in Keys : Running[j] # NONE}) < MaxConcurrent
        BY <2>1, <3>1, QueueAssumption
      <3> QED
        BY <3>2 DEF Running
    <2>6. /\ Pending' = [Pending EXCEPT ![k] = Tail(@)]
          /\ Running' = [Running EXCEPT ![k] = Head(Pending[k])]
      BY <1>0, <1>1, <2>3, <2>4 DEF Pending, Running
    <2>7. /\ Running[k] = NONE /\ Pending[k] # << >>
          /\ UNCHANGED <<Accepted, handled, cancelled>>
      BY <1>0, <1>1, <2>1, <2>3, <2>4 DEF Running, Pending, Accepted
    <2>8. Promise!Begin(k)
      BY ONLY <2>5, <2>6, <2>7, PromiseCardinality DEF Promise!Begin, Pending, Running, Accepted
    <2> QED
      BY <1>0, <2>8 DEF Promise!ANext
  <1>5. CASE HandlerReturns(w)
    <2>1. /\ wpc[w] = "handle" /\ wpc'[w] = "decrement"
          /\ handled' = handled \cup {cur[w]} /\ UNCHANGED <<perUserCh, cur, buf>>
      BY <1>0, <1>5 DEF HandlerReturns
    <2>2. perUserCh[k] = w /\ cur[w] # NONE
      <3>1. perUserCh[k] = w
        BY <1>0, <2>1, PromisedState DEF Live
      <3>2. cur[w] \in Items
        BY <1>0, <2>1 DEF IInv, BusyHasItem
      <3> QED
        BY <3>1, <3>2, QueueAssumption
    <2>3. /\ PendingOf(k)' = PendingOf(k)
          /\ RunningOf(k) = cur[w] /\ RunningOf(k)' = NONE
      BY <1>0, <2>1, <2>2 DEF PendingOf, RunningOf
    <2>4. Running' = [Running EXCEPT ![k] = NONE] /\ Pending' = Pending
      BY <1>0, <1>1, <2>3 DEF Running, Pending
    <2>5. Promise!Finish(k)
      BY <1>0, <1>1, <2>1, <2>2, <2>3, <2>4 DEF Promise!Finish, Running, Pending
    <2> QED
      BY <1>0, <2>5 DEF Promise!ANext
  <1>6. CASE DropItem(w) \/ Decrement(w)
    <2>1. /\ \/ wpc[w] = "drop" /\ wpc'[w] = "cleanup"
             \/ wpc[w] = "decrement" /\ wpc'[w] = "select"
          /\ UNCHANGED <<perUserCh, cur, buf, handled>>
      BY <1>0, <1>6 DEF DropItem, Decrement
    <2>2. perUserCh[k] = w
      BY <1>0, <2>1, PromisedState DEF Live
    <2>3. PendingOf(k)' = PendingOf(k) /\ RunningOf(k)' = RunningOf(k)
      BY <1>0, <2>1, <2>2 DEF PendingOf, RunningOf
    <2> QED
      BY <1>1, <2>1, <2>3, PromiseStutters
  <1>7. CASE Cleanup(w)
    <2>1. /\ wpc[w] = "cleanup" /\ perUserCh'[k] = NONE /\ UNCHANGED handled
      BY <1>0, <1>7 DEF Cleanup
    <2>2. perUserCh[k] = w
      BY <1>0, <2>1, PromisedState DEF Live
    <2>3. PendingOf(k)' = PendingOf(k) /\ RunningOf(k)' = RunningOf(k)
      BY <1>0, <2>1, <2>2 DEF PendingOf, RunningOf
    <2> QED
      BY <1>1, <2>1, <2>3, PromiseStutters
  <1>8. CASE WorkerDone(w)
    <2>1. wpc[w] = "done" /\ UNCHANGED handled
      BY <1>8 DEF WorkerDone
    <2>2. perUserCh[k] # w
      BY <1>0, <2>1, PromisedState DEF Live
    <2>3. PendingOf(k)' = PendingOf(k) /\ RunningOf(k)' = RunningOf(k)
      BY <1>0, <2>2, OtherKeysKept
    <2> QED
      BY <1>1, <2>1, <2>3, PromiseStutters
  <1> QED
    BY <1>2, <1>3, <1>4, <1>5, <1>6, <1>7, <1>8 DEF Worker

(* Of Stop only the cancellation of the context is seen from outside.       *)
LEMMA StopImplements ==
  ASSUME NEW s \in Stoppers, Stop(s)
  PROVE  Promise!ANext \/ UNCHANGED Promise!avars
  <1> USE DEF enqueueVars, mapVars, workerVars, PendingOf, RunningOf
  <1>1. CASE StopCancel(s)
    BY <1>1 DEF StopCancel, Promise!Close, Promise!ANext
  <1>2. CASE StopSwap(s) \/ StopWait(s) \/ StopResume(s)
    BY <1>2 DEF StopSwap, StopWait, StopResume, Promise!avars
  <1> QED
    BY <1>1, <1>2 DEF Stop

(* The queue implements SerialProcessor, for any keys, items, callers and   *)
(* limits: the accepted items of a key start in the order of acceptance,    *)
(* one at a time and at most maxConcurrentUsers keys at once, no more than  *)
(* perUserQueueSize wait or run, and none is lost before Stop cancels the   *)
(* context (queue.go:24, 84-110, 126-159).                                  *)
THEOREM QueueImplementsPromise == Spec => ImplementsPromise
  <1>1. QInv /\ [Next]_vars => [Promise!ANext]_Promise!avars
    <2> SUFFICES ASSUME QInv, [Next]_vars
                 PROVE  Promise!ANext \/ UNCHANGED Promise!avars
      OBVIOUS
    <2>1. CASE UNCHANGED vars
      BY <2>1 DEF vars, enqueueVars, mapVars, workerVars, stopVars,
         PendingOf, RunningOf, Promise!avars
    <2> QED
      BY <2>1, EnqueueImplements, WorkerImplements, StopImplements DEF Next
  <1> QED
    BY <1>1, InitPromised, QInvAlways, PTL DEF Spec, ImplementsPromise, Promise!ASpec
=============================================================================

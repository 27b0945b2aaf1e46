---------------------------- MODULE MessageQueue ----------------------------
(***************************************************************************)
(* internal/gateway/queue.go: the queue between a gateway's read loop and  *)
(* the event handlers.  Enqueue may be called from any number of           *)
(* goroutines; one worker goroutine per key (MessageItem.AccountID) runs   *)
(* the handlers of that key one after another, and a semaphore bounds how  *)
(* many workers are inside a handler.                                      *)
(*                                                                         *)
(* One step is one critical section of q.mu, one channel operation, one    *)
(* atomic load or swap, or one WaitGroup call.  Every item is passed to    *)
(* Enqueue at most once, so an item also names the call that enqueues it;  *)
(* a worker and its channel are named by the call that created them.       *)
(***************************************************************************)
EXTENDS Integers, Sequences, FiniteSets

CONSTANTS
  Keys,            \* values of MessageItem.AccountID
  Items,           \* the messages; also the Enqueue calls and the workers
  KeyOf,           \* the key of each item
  Stoppers,        \* goroutines that call Stop
  PerUserSize,     \* perUserQueueSize
  MaxConcurrent,   \* maxConcurrentUsers
  NONE

ASSUME QueueAssumption ==
  /\ IsFiniteSet(Items)
  /\ KeyOf \in [Items -> Keys]
  /\ PerUserSize \in Nat \ {0}
  /\ MaxConcurrent \in Nat \ {0}
  /\ NONE \notin Items

VARIABLES
  stopped,         \* q.stopped
  cancelled,       \* q.ctx is done
  perUserCh,       \* q.perUserCh: the channel of a key, NONE when absent
  perUserCount,    \* q.perUserCount: 0 when absent
  semaphore,       \* occupied slots of q.semaphore
  wg,              \* counter of q.wg
  buf,             \* contents of each per-user channel
  epc,             \* where each Enqueue call is
  ech,             \* the channel an Enqueue call read from the map
  wpc,             \* where each worker is
  cur,             \* the item a worker has received
  spc,             \* where each Stop call is
  handled          \* history: the items whose handler has returned

enqueueVars == <<epc, ech>>
mapVars     == <<perUserCh, perUserCount>>
workerVars  == <<wpc, cur, semaphore, handled>>
stopVars    == <<stopped, cancelled, spc>>
vars == <<enqueueVars, mapVars, workerVars, stopVars, buf, wg>>

EnqueueStates == {"idle", "checked", "send", "undo", "true", "false"}
WorkerStates  == {"none", "select", "acquire", "handle", "decrement", "drop",
                  "cleanup", "done", "gone"}
StopStates    == {"idle", "cancel", "wait", "parked", "woken", "returned",
                  "panicked"}

TypeOK ==
  /\ stopped \in BOOLEAN
  /\ cancelled \in BOOLEAN
  /\ perUserCh \in [Keys -> Items \cup {NONE}]
  /\ perUserCount \in [Keys -> 0 .. PerUserSize]
  /\ semaphore \in 0 .. MaxConcurrent
  /\ wg \in Int
  /\ buf \in [Items -> Seq(Items)]
  /\ epc \in [Items -> EnqueueStates]
  /\ ech \in [Items -> Items \cup {NONE}]
  /\ wpc \in [Items -> WorkerStates]
  /\ cur \in [Items -> Items \cup {NONE}]
  /\ spc \in [Stoppers -> StopStates]
  /\ handled \in SUBSET Items

\* NewMessageQueue followed by Start, whose dispatchLoop does nothing.
Init ==
  /\ stopped = FALSE
  /\ cancelled = FALSE
  /\ perUserCh = [k \in Keys |-> NONE]
  /\ perUserCount = [k \in Keys |-> 0]
  /\ semaphore = 0
  /\ wg = 0
  /\ buf = [i \in Items |-> << >>]
  /\ epc = [i \in Items |-> "idle"]
  /\ ech = [i \in Items |-> NONE]
  /\ wpc = [w \in Items |-> "none"]
  /\ cur = [w \in Items |-> NONE]
  /\ spc = [s \in Stoppers |-> "idle"]
  /\ handled = {}

-----------------------------------------------------------------------------
(* A panic in one goroutine ends the process: no goroutine moves after it.  *)
Panicked == \E s \in Stoppers : spc[s] = "panicked"

(* decrementCount: one critical section; an absent or zero count stays.     *)
DecrementCount(k) ==
  perUserCount' = [perUserCount EXCEPT ![k] = IF @ > 0 THEN @ - 1 ELSE @]

EnqueueStep(i, from, to) ==
  /\ ~Panicked
  /\ epc[i] = from
  /\ epc' = [epc EXCEPT ![i] = to]

(* Enqueue reads q.stopped without q.mu, then reserves under q.mu.          *)
CheckStopped(i) ==
  /\ EnqueueStep(i, "idle", IF stopped THEN "false" ELSE "checked")
  /\ UNCHANGED <<ech, mapVars, workerVars, stopVars, buf, wg>>

RejectFull(i) ==
  /\ EnqueueStep(i, "checked", "false")
  /\ perUserCount[KeyOf[i]] >= PerUserSize
  /\ UNCHANGED <<ech, mapVars, workerVars, stopVars, buf, wg>>

\* Mutant: the limit is off by one.
ReserveOneTooMany(i) ==
  LET k == KeyOf[i] IN
  /\ EnqueueStep(i, "checked", "send")
  /\ perUserCount[k] <= PerUserSize
  /\ perUserCount' = [perUserCount EXCEPT ![k] = @ + 1]
  /\ IF perUserCh[k] # NONE
     THEN /\ ech' = [ech EXCEPT ![i] = perUserCh[k]]
          /\ UNCHANGED <<perUserCh, wpc, wg>>
     ELSE /\ perUserCh' = [perUserCh EXCEPT ![k] = i]
          /\ ech' = [ech EXCEPT ![i] = i]
          /\ wpc' = [wpc EXCEPT ![i] = "select"]
          /\ wg' = wg + 1
  /\ UNCHANGED <<cur, semaphore, handled, stopVars, buf>>

\* Mutant: every reservation starts a worker the map is not told of.
ReserveForgetsMap(i) ==
  LET k == KeyOf[i] IN
  /\ EnqueueStep(i, "checked", "send")
  /\ perUserCount[k] < PerUserSize
  /\ perUserCount' = [perUserCount EXCEPT ![k] = @ + 1]
  /\ ech' = [ech EXCEPT ![i] = i]
  /\ wpc' = [wpc EXCEPT ![i] = "select"]
  /\ wg' = wg + 1
  /\ UNCHANGED <<perUserCh, cur, semaphore, handled, stopVars, buf>>

(* The reservation: count the item, find the channel or create it together  *)
(* with its worker.                                                         *)
Reserve(i) ==
  LET k == KeyOf[i] IN
  /\ EnqueueStep(i, "checked", "send")
  /\ perUserCount[k] < PerUserSize
  /\ perUserCount' = [perUserCount EXCEPT ![k] = @ + 1]
  /\ \/ /\ perUserCh[k] # NONE
        /\ ech' = [ech EXCEPT ![i] = perUserCh[k]]
        /\ UNCHANGED <<perUserCh, wpc, wg>>
     \/ /\ perUserCh[k] = NONE
        /\ perUserCh' = [perUserCh EXCEPT ![k] = i]
        /\ ech' = [ech EXCEPT ![i] = i]
        /\ wpc' = [wpc EXCEPT ![i] = "select"]
        /\ wg' = wg + 1
  /\ UNCHANGED <<cur, semaphore, handled, stopVars, buf>>

(* The select of Enqueue: both cases may be ready, Go takes either.         *)
Send(i) ==
  /\ EnqueueStep(i, "send", "true")
  /\ Len(buf[ech[i]]) < PerUserSize
  /\ buf' = [buf EXCEPT ![ech[i]] = Append(@, i)]
  /\ UNCHANGED <<ech, mapVars, workerVars, stopVars, wg>>

SendCancelled(i) ==
  /\ EnqueueStep(i, "send", "undo")
  /\ cancelled
  /\ UNCHANGED <<ech, mapVars, workerVars, stopVars, buf, wg>>

UndoReserve(i) ==
  /\ EnqueueStep(i, "undo", "false")
  /\ DecrementCount(KeyOf[i])
  /\ UNCHANGED <<ech, perUserCh, workerVars, stopVars, buf, wg>>

Enqueue(i) ==
  \/ CheckStopped(i) \/ RejectFull(i) \/ Reserve(i)
  \/ Send(i) \/ SendCancelled(i) \/ UndoReserve(i)

-----------------------------------------------------------------------------
WorkerStep(w, from, to) ==
  /\ ~Panicked
  /\ wpc[w] = from
  /\ wpc' = [wpc EXCEPT ![w] = to]

(* The outer select of userWorker.                                          *)
Receive(w) ==
  /\ WorkerStep(w, "select", "acquire")
  /\ buf[w] # << >>
  /\ cur' = [cur EXCEPT ![w] = Head(buf[w])]
  /\ buf' = [buf EXCEPT ![w] = Tail(@)]
  /\ UNCHANGED <<enqueueVars, mapVars, stopVars, semaphore, handled, wg>>

SelectCancelled(w) ==
  /\ WorkerStep(w, "select", "cleanup")
  /\ cancelled
  /\ UNCHANGED <<enqueueVars, mapVars, stopVars, cur, semaphore, handled, buf, wg>>

(* The inner select: a semaphore slot, or the cancelled context.            *)
Acquire(w) ==
  /\ WorkerStep(w, "acquire", "handle")
  /\ semaphore < MaxConcurrent
  /\ semaphore' = semaphore + 1
  /\ UNCHANGED <<enqueueVars, mapVars, stopVars, cur, handled, buf, wg>>

\* Mutant: a default case gives the item up when no slot is free.
AcquireGivesUp(w) ==
  /\ WorkerStep(w, "acquire", "drop")
  /\ cancelled \/ semaphore = MaxConcurrent
  /\ UNCHANGED <<enqueueVars, mapVars, stopVars, cur, semaphore, handled, buf, wg>>

AcquireCancelled(w) ==
  /\ WorkerStep(w, "acquire", "drop")
  /\ cancelled
  /\ UNCHANGED <<enqueueVars, mapVars, stopVars, cur, semaphore, handled, buf, wg>>

DropItem(w) ==
  /\ WorkerStep(w, "drop", "cleanup")
  /\ DecrementCount(KeyOf[w])
  /\ UNCHANGED <<enqueueVars, perUserCh, stopVars, cur, semaphore, handled, buf, wg>>

\* Mutant: the slot is not released.
HandlerKeepsSlot(w) ==
  /\ WorkerStep(w, "handle", "decrement")
  /\ handled' = handled \cup {cur[w]}
  /\ UNCHANGED <<enqueueVars, mapVars, stopVars, cur, semaphore, buf, wg>>

(* The handler returns and the slot is given back.                          *)
HandlerReturns(w) ==
  /\ WorkerStep(w, "handle", "decrement")
  /\ handled' = handled \cup {cur[w]}
  /\ semaphore' = semaphore - 1
  /\ UNCHANGED <<enqueueVars, mapVars, stopVars, cur, buf, wg>>

\* Mutant: the count is never given back.
DecrementForgotten(w) ==
  /\ WorkerStep(w, "decrement", "select")
  /\ UNCHANGED <<enqueueVars, mapVars, stopVars, cur, semaphore, handled, buf, wg>>

Decrement(w) ==
  /\ WorkerStep(w, "decrement", "select")
  /\ DecrementCount(KeyOf[w])
  /\ UNCHANGED <<enqueueVars, perUserCh, stopVars, cur, semaphore, handled, buf, wg>>

\* Mutant: wg.Done is not deferred, so a worker that returns skips it.
CleanupForgetsDone(w) ==
  /\ WorkerStep(w, "cleanup", "gone")
  /\ perUserCh' = [perUserCh EXCEPT ![KeyOf[w]] = NONE]
  /\ perUserCount' = [perUserCount EXCEPT ![KeyOf[w]] = 0]
  /\ UNCHANGED <<enqueueVars, stopVars, cur, semaphore, handled, buf, wg>>

(* The deferred function: the map entries go under q.mu, wg.Done after it.  *)
Cleanup(w) ==
  /\ WorkerStep(w, "cleanup", "done")
  /\ perUserCh' = [perUserCh EXCEPT ![KeyOf[w]] = NONE]
  /\ perUserCount' = [perUserCount EXCEPT ![KeyOf[w]] = 0]
  /\ UNCHANGED <<enqueueVars, stopVars, cur, semaphore, handled, buf, wg>>

(* wg.Done: the call that brings the counter to zero wakes the waiters.     *)
WorkerDone(w) ==
  /\ WorkerStep(w, "done", "gone")
  /\ wg' = wg - 1
  /\ spc' = [s \in Stoppers |->
               IF wg = 1 /\ spc[s] = "parked" THEN "woken" ELSE spc[s]]
  /\ UNCHANGED <<enqueueVars, mapVars, stopped, cancelled, cur, semaphore, handled, buf>>

Worker(w) ==
  \/ Receive(w) \/ SelectCancelled(w) \/ Acquire(w) \/ AcquireCancelled(w)
  \/ DropItem(w) \/ HandlerReturns(w) \/ Decrement(w) \/ Cleanup(w)
  \/ WorkerDone(w)

-----------------------------------------------------------------------------
StopStep(s, from, to) ==
  /\ ~Panicked
  /\ spc[s] = from
  /\ spc' = [spc EXCEPT ![s] = to]

(* stopped.Swap(true): only the first caller goes on, the others return.    *)
StopSwap(s) ==
  /\ StopStep(s, "idle", IF stopped THEN "returned" ELSE "cancel")
  /\ stopped' = TRUE
  /\ UNCHANGED <<enqueueVars, mapVars, workerVars, cancelled, buf, wg>>

StopCancel(s) ==
  /\ StopStep(s, "cancel", "wait")
  /\ cancelled' = TRUE
  /\ UNCHANGED <<enqueueVars, mapVars, workerVars, stopped, buf, wg>>

StopWait(s) ==
  /\ StopStep(s, "wait", IF wg = 0 THEN "returned" ELSE "parked")
  /\ UNCHANGED <<enqueueVars, mapVars, workerVars, stopped, cancelled, buf, wg>>

(* A woken waiter that finds the counter non-zero again panics: "WaitGroup  *)
(* is reused before previous Wait has returned" (Go's sync package).        *)
StopResume(s) ==
  /\ StopStep(s, "woken", IF wg = 0 THEN "returned" ELSE "panicked")
  /\ UNCHANGED <<enqueueVars, mapVars, workerVars, stopped, cancelled, buf, wg>>

Stop(s) == StopSwap(s) \/ StopCancel(s) \/ StopWait(s) \/ StopResume(s)

-----------------------------------------------------------------------------
(* Every call has returned and every worker is gone, or the process died.   *)
Terminated ==
  \/ Panicked
  \/ /\ \A i \in Items : epc[i] \in {"true", "false"}
     /\ \A w \in Items : wpc[w] \in {"none", "gone"}
     /\ \A s \in Stoppers : spc[s] = "returned"

Next ==
  \/ \E i \in Items : Enqueue(i)
  \/ \E w \in Items : Worker(w)
  \/ \E s \in Stoppers : Stop(s)
  \/ Terminated /\ UNCHANGED vars

Spec == Init /\ [][Next]_vars

(* Go runs every goroutine that stays runnable, and a handler returns; the  *)
(* callers of Enqueue and Stop may never call.                              *)
Fairness ==
  /\ \A i \in Items : WF_vars(epc[i] # "idle" /\ Enqueue(i))
  /\ \A w \in Items : WF_vars(Worker(w))
  /\ \A s \in Stoppers : WF_vars(spc[s] # "idle" /\ Stop(s))

FairSpec == Spec /\ Fairness

-----------------------------------------------------------------------------
Live(w)       == wpc[w] \notin {"none", "done", "gone"}
Processing(w) == wpc[w] \in {"acquire", "handle"}

(* Two handlers of one account never run at the same time, whatever callers *)
(* race with the worker's exit and the creation of its successor            *)
(* (queue.go:24 "per-user serialized", queue.go:92-98, 131-137).            *)
SerialPerKey ==
  \A v, w \in Items :
    KeyOf[v] = KeyOf[w] /\ Processing(v) /\ Processing(w) => v = w

(* A live worker is the one the map names for its key, so no channel is     *)
(* served by two workers and none is left without one (queue.go:92-98).     *)
WorkerOwnsKey ==
  /\ \A w \in Items : Live(w) => perUserCh[KeyOf[w]] = w
  /\ \A k \in Keys : perUserCh[k] # NONE =>
       Live(perUserCh[k]) /\ KeyOf[perUserCh[k]] = k

(* Slots of the semaphore are never leaked or given back twice: the taken   *)
(* ones are the workers inside a handler (queue.go:147-159).                *)
SemaphoreExact == semaphore = Cardinality({w \in Items : wpc[w] = "handle"})

(* The items of a key that are reserved, queued or being processed.         *)
Outstanding(k) ==
  {i \in Items :
     /\ KeyOf[i] = k
     /\ epc[i] \in {"send", "undo", "true"}
     /\ i \in handled => \E w \in Items : wpc[w] = "decrement" /\ cur[w] = i}

(* Until the queue is cancelled the count Enqueue decides by is the number  *)
(* of outstanding items of the key, so the limit is neither overrun nor     *)
(* used up by items long gone (queue.go:28 "in-flight + queued").           *)
CountExact ==
  ~cancelled => \A k \in Keys : perUserCount[k] = Cardinality(Outstanding(k))

(* Until the queue is cancelled, a call that has reserved its place finds   *)
(* room in the channel it holds: the send of queue.go:101-103 "non-blocking,*)
(* but we already checked count" does not block.                            *)
SendNeverBlocks ==
  ~cancelled =>
    \A i \in Items : epc[i] = "send" => Len(buf[ech[i]]) < PerUserSize

(* q.wg counts exactly the workers that have not called Done, the fact      *)
(* Stop's wait rests on (queue.go:73, 96, 136).                             *)
WaitGroupExact == wg = Cardinality({w \in Items : wpc[w] \notin {"none", "gone"}})

(* Only the worker that serves a channel removes it from the map, in its    *)
(* deferred cleanup: a worker that leaves late does not take the entry of   *)
(* its successor, whose channel callers hold (queue.go:131-137).            *)
OnlyOwnEntryRemoved ==
  [][\A k \in Keys :
       perUserCh[k] # NONE /\ perUserCh'[k] # perUserCh[k] =>
         /\ perUserCh'[k] = NONE
         /\ wpc[perUserCh[k]] = "cleanup" /\ wpc'[perUserCh[k]] = "done"]_vars

(* The items of Enqueue calls and the calls of Stop are finitely many, so   *)
(* the liveness properties speak of all together: whenever some are open,   *)
(* later none is.                                                           *)

(* An item Enqueue accepted is handled, unless the queue is stopped         *)
(* (queue.go:76, 129).                                                      *)
Unhandled == {i \in Items : epc[i] = "true" /\ i \notin handled}
AcceptedIsHandled == Unhandled # {} ~> Unhandled = {} \/ stopped

(* Every Enqueue call comes back, the one that finds a full channel during  *)
(* a stop included (queue.go:102-107), and every call of Stop, once the     *)
(* handlers have returned (queue.go:67-74); or the process has panicked.    *)
OpenCalls ==
  {i \in Items : epc[i] \notin {"idle", "true", "false"}} \cup
  {s \in Stoppers : spc[s] \notin {"idle", "returned", "panicked"}}
CallsComeBack == OpenCalls # {} ~> OpenCalls = {} \/ Panicked

-----------------------------------------------------------------------------
(* The queue's books agree with its workers at every step, Stop included:   *)
(* one worker per key and per map entry, one semaphore slot per handler and *)
(* one WaitGroup count per worker (queue.go:92-98, 131-159).                *)
BooksExact == SerialPerKey /\ WorkerOwnsKey /\ SemaphoreExact /\ WaitGroupExact

(* The count taken under the lock speaks for the channel used after it: it  *)
(* is exact, so no send finds its channel full (queue.go:84-103, 168-174).  *)
CountsFit == CountExact /\ SendNeverBlocks

-----------------------------------------------------------------------------
(* Refinement: the items the map's worker of a key still has to start.      *)
PendingOf(k) ==
  LET w == perUserCh[k] IN
  IF w = NONE THEN << >>
  ELSE IF wpc[w] \in {"drop", "cleanup"} THEN << >>
  ELSE IF wpc[w] = "acquire" THEN <<cur[w]>> \o buf[w]
  ELSE buf[w]

RunningOf(k) ==
  LET w == perUserCh[k] IN
  IF w = NONE THEN NONE
  ELSE IF wpc[w] = "handle" THEN cur[w] ELSE NONE

Promise == INSTANCE SerialProcessor WITH
  Limit       <- PerUserSize,
  MaxParallel <- MaxConcurrent,
  accepted    <- {i \in Items : epc[i] = "true"},
  pending     <- [k \in Keys |-> PendingOf(k)],
  running     <- [k \in Keys |-> RunningOf(k)],
  finished    <- handled,
  closing     <- cancelled

(* The queue does what SerialProcessor promises: accepted items of a key    *)
(* start in order, one at a time, at most MaxConcurrent keys at once, and   *)
(* none is lost before Stop cancels the context (queue.go:24, 100-110, 130).*)
ImplementsPromise == Promise!ASpec

=============================================================================

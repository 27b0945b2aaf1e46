----------------------------- MODULE BotManager -----------------------------
(***************************************************************************)
(* A process of `qqbot`: Run of internal/qqbot/run.go with its shutdown,   *)
(* BotManager (Start, Stop, the event handler it gives every gateway), the *)
(* API server of internal/httpapi and the known users they write.          *)
(*                                                                         *)
(* Gateway and scheduler are here only what the manager sees of them: a    *)
(* loop that ends with the context.  Of an account's queue, whose one key  *)
(* is the account, here is what a late Enqueue can do to Stop; MessageQueue *)
(* has the rest.  A stopper is one run of the shutdown: the goroutine Run  *)
(* starts, and the deferred calls of Run itself.                           *)
(***************************************************************************)
EXTENDS Naturals

CONSTANTS
  Accounts,
  Events,          \* messages from the service
  AccountOf,       \* the account an event is for
  SenderOf,        \* the user it is from
  GroupOf,         \* the group it was written in, or NONE
  Users, Groups,
  Calls,           \* API requests
  TargetOf,        \* the account a request is for
  NONE

ASSUME ManagerAssumption ==
  /\ AccountOf \in [Events -> Accounts] /\ SenderOf \in [Events -> Users]
  /\ GroupOf \in [Events -> Groups \cup {NONE}]
  /\ TargetOf \in [Calls -> Accounts]
  /\ NONE \notin Accounts \cup Groups
  /\ Events \cap Calls = {}

Stoppers == {"goroutine", "deferred"}

VARIABLES
  phase,           \* of Run
  cancelled,       \* the manager's context
  loop,            \* each account's connectLoop
  stopped,         \* each account's queue is stopped
  event,           \* each event: where it is
  worker,          \* each queue's map holds a worker
  group,           \* each queue's WaitGroup
  known,           \* the rows of the known_users table
  call,            \* each API request: what it does while it runs
  left,            \* of a broadcast: the users or groups to be sent to
  apiOpen,         \* the API server accepts requests
  pc,              \* each stopper: where it is
  toClose,         \* each stopper: the accounts whose gateway it has not closed
  closing,         \* each stopper: the account whose queue it waits for
  db,              \* m.db: "open", or "nil" once closed and reset
  late,            \* history: what was not waited for, "api" or "run"
  lost,            \* history: events and calls whose write failed
  overtaken,       \* history: events put into a queue stopped since its check
  panicked

gateways == <<loop, stopped>>
queues == <<event, worker, group>>
stops == <<pc, toClose, closing>>
history == <<late, lost, overtaken>>
vars == <<phase, cancelled, gateways, queues, known, call, left, apiOpen, stops, db,
          history, panicked>>

Writes == {"clear", "remind"}
Kinds == Writes \cup {"broadcast", "groups"}   \* to the users, to the groups
Where == {"new", "checked", "queued", "handling", "over"}
InQueueStop == {"waiting", "parked", "woken"}
StopSteps == {"idle", "api", "cancel", "gateways", "db", "closeDB", "done"} \cup InQueueStop

TypeOK ==
  /\ phase \in {"init", "serving", "shutting", "exited"}
  /\ cancelled \in BOOLEAN /\ apiOpen \in BOOLEAN /\ panicked \in BOOLEAN
  /\ loop \in [Accounts -> {"absent", "none", "running"}]
  /\ stopped \in [Accounts -> BOOLEAN]
  /\ event \in [Events -> Where]
  /\ worker \in [Accounts -> BOOLEAN] /\ group \in [Accounts -> Nat]
  /\ known \subseteq [account : Accounts, user : Users, group : Groups \cup {NONE}]
  /\ call \in [Calls -> {"new", "done"} \cup Kinds]
  /\ left \in [Calls -> SUBSET (Users \cup Groups)]
  /\ pc \in [Stoppers -> StopSteps]
  /\ toClose \in [Stoppers -> SUBSET Accounts]
  /\ closing \in [Stoppers -> Accounts \cup {NONE}]
  /\ \A s \in Stoppers : pc[s] \in InQueueStop <=> closing[s] # NONE
  /\ db \in {"open", "nil"}
  /\ late \subseteq {"api", "run"} /\ lost \subseteq Events \cup Calls
  /\ overtaken \subseteq Events

Init ==
  /\ phase = "init" /\ cancelled = FALSE /\ apiOpen = FALSE /\ panicked = FALSE
  /\ loop = [a \in Accounts |-> "absent"] /\ stopped = [a \in Accounts |-> FALSE]
  /\ event = [e \in Events |-> "new"] /\ known = {}
  /\ worker = [a \in Accounts |-> FALSE] /\ group = [a \in Accounts |-> 0]
  /\ call = [q \in Calls |-> "new"] /\ left = [q \in Calls |-> {}]
  /\ pc = [s \in Stoppers |-> "idle"]
  /\ toClose = [s \in Stoppers |-> {}] /\ closing = [s \in Stoppers |-> NONE]
  /\ db = "open" /\ late = {} /\ lost = {} /\ overtaken = {}

Alive == phase # "exited" /\ ~panicked

-----------------------------------------------------------------------------
(* AddAccount of each enabled account; the validated configuration gives it *)
(* nothing to refuse.                                                       *)
AddAccount(a) ==
  /\ phase = "init" /\ loop[a] = "absent"
  /\ loop' = [loop EXCEPT ![a] = "none"]
  /\ UNCHANGED <<phase, cancelled, stopped, queues, known, call, left, apiOpen, stops, db,
                 history, panicked>>

(* Then Run up to its select: the webhooks, mgr.Start and the servers.      *)
Run ==
  /\ phase = "init" /\ \A a \in Accounts : loop[a] = "none"
  /\ phase' = "serving" /\ apiOpen' = TRUE
  /\ UNCHANGED <<cancelled, gateways, queues, known, call, left, stops, db, history, panicked>>

(* The goroutines mgr.Start begins: one Connect per account, at any later   *)
(* time.  It returns once the context is cancelled, at once or from its     *)
(* loop, which shows only in that the account's events no longer come.      *)
Connect(a) ==
  /\ Alive /\ phase # "init" /\ loop[a] = "none" /\ ~cancelled
  /\ loop' = [loop EXCEPT ![a] = "running"]
  /\ UNCHANGED <<phase, cancelled, stopped, queues, known, call, left, apiOpen, stops, db,
                 history, panicked>>

Move(e, s) == event' = [event EXCEPT ![e] = s]

Checked(a) == {e \in Events : AccountOf[e] = a /\ event[e] = "checked"}

(* A dispatched event: Enqueue looks whether the queue is stopped.  The     *)
(* loop dispatches one event after the other.                               *)
CheckStopped(e) ==
  LET a == AccountOf[e] IN
  /\ Alive /\ event[e] = "new" /\ loop[a] = "running" /\ Checked(a) = {}
  /\ Move(e, IF stopped[a] THEN "over" ELSE "checked")
  /\ UNCHANGED <<phase, cancelled, gateways, worker, group, known, call, left, apiOpen, stops,
                 db, history, panicked>>

(* The rest of Enqueue, which does not look again: a worker is started      *)
(* where there is none.  A queue with a worker may be full; with its        *)
(* context cancelled it takes the event or refuses it.                      *)
Enqueue(e) ==
  LET a == AccountOf[e] IN
  /\ Alive /\ event[e] = "checked"
  /\ Move(e, "queued") \/ ((worker[a] \/ stopped[a]) /\ Move(e, "over"))
  /\ worker' = [worker EXCEPT ![a] = TRUE]
  /\ group' = IF worker[a] THEN group ELSE [group EXCEPT ![a] = @ + 1]
  /\ overtaken' = IF stopped[a] THEN overtaken \cup {e} ELSE overtaken
  /\ UNCHANGED <<phase, cancelled, gateways, known, call, left, apiOpen, stops, db, late, lost,
                 panicked>>

Handled(a) == {e \in Events : AccountOf[e] = a /\ event[e] = "handling"}

(* The account's worker takes the event.                                    *)
Take(e) ==
  LET a == AccountOf[e] IN
  /\ Alive /\ event[e] = "queued" /\ worker[a] /\ Handled(a) = {}
  /\ Move(e, "handling")
  /\ UNCHANGED <<phase, cancelled, gateways, worker, group, known, call, left, apiOpen, stops,
                 db, history, panicked>>

(* Between two events the worker notices that the queue's context is        *)
(* cancelled: it leaves the map, and in its channel what it did not take.   *)
WorkerLeaves(a) ==
  /\ Alive /\ worker[a] /\ stopped[a] /\ Handled(a) = {}
  /\ worker' = [worker EXCEPT ![a] = FALSE]
  /\ event' = [e \in Events |-> IF AccountOf[e] = a /\ event[e] = "queued" THEN "over"
                                ELSE event[e]]
  /\ UNCHANGED <<phase, cancelled, gateways, group, known, call, left, apiOpen, stops, db,
                 history, panicked>>

(* Then, past the lock, wg.Done; the last one wakes the Stop that waits.    *)
WorkerDone(a) ==
  /\ Alive /\ group[a] > IF worker[a] THEN 1 ELSE 0
  /\ group' = [group EXCEPT ![a] = @ - 1]
  /\ pc' = [s \in Stoppers |-> IF pc[s] = "parked" /\ closing[s] = a /\ group[a] = 1
                               THEN "woken" ELSE pc[s]]
  /\ UNCHANGED <<phase, cancelled, gateways, event, worker, known, call, left, apiOpen,
                 toClose, closing, db, history, panicked>>

(* The known_users table: an upsert, of which only the key matters here, a  *)
(* query and a deletion.  An error of the database is only printed.         *)
Record(row) == IF db = "open" THEN known \cup {row} ELSE known
List(a, groups) ==
  {row \in known : db = "open" /\ row.account = a /\ (row.group # NONE <=> groups)}
Clear(a) == IF db = "open" THEN {row \in known : row.account # a} ELSE known

(* newEventHandler: the user is recorded; then come the webhook's goroutine *)
(* and the forwarders.                                                      *)
Handle(e) ==
  /\ Alive /\ event[e] = "handling"
  /\ Move(e, "over")
  /\ known' = Record([account |-> AccountOf[e], user |-> SenderOf[e], group |-> GroupOf[e]])
  /\ lost' = IF db = "open" THEN lost ELSE lost \cup {e}
  /\ UNCHANGED <<phase, cancelled, gateways, worker, group, call, left, apiOpen, stops, db,
                 late, overtaken, panicked>>

-----------------------------------------------------------------------------
(* Broadcast and BroadcastToGroup: the table is asked once, each group is   *)
(* sent to once.                                                            *)
Recipients(k, a) ==
  CASE k = "broadcast" -> {row.user : row \in List(a, FALSE)}
    [] k = "groups"    -> {row.group : row \in List(a, TRUE)}
    [] OTHER           -> {}

(* A request of the API.  A broadcast sends to one after the other, whatever *)
(* the table becomes and whether or not a message is taken; ClearUsers and  *)
(* the reminder calls write, and are answered as done if the write fails.   *)
Call(q) ==
  /\ Alive /\ apiOpen /\ call[q] = "new"
  /\ \E k \in Kinds :
       /\ call' = [call EXCEPT ![q] = k]
       /\ left' = [left EXCEPT ![q] = Recipients(k, TargetOf[q])]
  /\ UNCHANGED <<phase, cancelled, gateways, queues, known, apiOpen, stops, db, history,
                 panicked>>

SendOne(q) ==
  /\ Alive /\ call[q] \in Kinds
  /\ \E u \in left[q] : left' = [left EXCEPT ![q] = @ \ {u}]
  /\ UNCHANGED <<phase, cancelled, gateways, queues, known, call, apiOpen, stops, db, history,
                 panicked>>

Answer(q) ==
  /\ Alive /\ call[q] \in Kinds /\ left[q] = {}
  /\ call' = [call EXCEPT ![q] = "done"]
  /\ known' = IF call[q] = "clear" THEN Clear(TargetOf[q]) ELSE known
  /\ lost' = IF call[q] \in Writes /\ db = "nil" THEN lost \cup {q} ELSE lost
  /\ UNCHANGED <<phase, cancelled, gateways, queues, left, apiOpen, stops, db, late, overtaken, panicked>>

-----------------------------------------------------------------------------
(* SIGINT, SIGTERM or the end of Run's context.                             *)
Signal ==
  /\ phase = "serving"
  /\ phase' = "shutting"
  /\ pc' = [pc EXCEPT !["goroutine"] = "api"]
  /\ UNCHANGED <<cancelled, gateways, queues, known, call, left, apiOpen, toClose, closing, db,
                 history, panicked>>

(* Run's second select: the goroutine is done, or 10 s have passed; the     *)
(* deferred calls follow.                                                   *)
RunReturns ==
  /\ Alive /\ phase = "shutting" /\ pc["deferred"] = "idle"
  /\ late' = IF pc["goroutine"] = "done" THEN late ELSE late \cup {"run"}
  /\ pc' = [pc EXCEPT !["deferred"] = "api"]
  /\ UNCHANGED <<phase, cancelled, gateways, queues, known, call, left, apiOpen, toClose,
                 closing, db, lost, overtaken, panicked>>

Exit ==
  /\ Alive /\ pc["deferred"] = "done"
  /\ phase' = "exited"
  /\ UNCHANGED <<cancelled, gateways, queues, known, call, left, apiOpen, stops, db, history,
                 panicked>>

StepTo(s, next) == pc' = [pc EXCEPT ![s] = next]

(* APIServer.Stop: no new requests; it waits for those that run, for 5 s.   *)
CloseAPI(s) ==
  /\ Alive /\ pc[s] = "api"
  /\ apiOpen' = FALSE
  /\ \/ ~apiOpen /\ (\A q \in Calls : call[q] \notin Kinds) /\ StepTo(s, "cancel") /\ UNCHANGED late
     \/ ~apiOpen /\ (\E q \in Calls : call[q] \in Kinds) /\ StepTo(s, "cancel")
          /\ late' = late \cup {"api"}
     \/ apiOpen /\ UNCHANGED <<pc, late>>
  /\ UNCHANGED <<phase, cancelled, gateways, queues, known, call, left, toClose, closing, db,
                 lost, overtaken, panicked>>

\* Mutant: Stop goes through the accounts that were there before Start.
CancelCopiesNone(s) ==
  /\ Alive /\ pc[s] = "cancel"
  /\ cancelled' = TRUE
  /\ toClose' = [toClose EXCEPT ![s] = {}]
  /\ StepTo(s, "gateways")
  /\ UNCHANGED <<phase, gateways, queues, known, call, left, apiOpen, closing, db, history,
                 panicked>>

(* BotManager.Stop under its lock; and Scheduler.Stop, which does not wait. *)
Cancel(s) ==
  /\ Alive /\ pc[s] = "cancel"
  /\ cancelled' = TRUE
  /\ toClose' = [toClose EXCEPT ![s] = Accounts]
  /\ StepTo(s, "gateways")
  /\ UNCHANGED <<phase, gateways, queues, known, call, left, apiOpen, closing, db, history,
                 panicked>>

\* Mutant: a queue that another Stop has stopped is waited for without end.
CloseOnlyFirst(s) ==
  /\ Alive /\ pc[s] = "gateways" /\ toClose[s] # {}
  /\ \E a \in toClose[s] :
       /\ toClose' = [toClose EXCEPT ![s] = @ \ {a}]
       /\ stopped' = [stopped EXCEPT ![a] = TRUE]
       /\ ~stopped[a] /\ closing' = [closing EXCEPT ![s] = a] /\ StepTo(s, "waiting")
  /\ UNCHANGED <<phase, cancelled, loop, queues, known, call, left, apiOpen, db, history,
                 panicked>>

(* Gateway.Close of one account.  The queue's Stop returns at once when     *)
(* another Stop came before.                                                *)
CloseGateway(s) ==
  /\ Alive /\ pc[s] = "gateways" /\ toClose[s] # {}
  /\ \E a \in toClose[s] :
       /\ toClose' = [toClose EXCEPT ![s] = @ \ {a}]
       /\ stopped' = [stopped EXCEPT ![a] = TRUE]
       /\ IF stopped[a] THEN UNCHANGED <<closing, pc>>
          ELSE closing' = [closing EXCEPT ![s] = a] /\ StepTo(s, "waiting")
  /\ UNCHANGED <<phase, cancelled, loop, queues, known, call, left, apiOpen, db, history,
                 panicked>>

StopReturns(s) == closing' = [closing EXCEPT ![s] = NONE] /\ StepTo(s, "gateways")

\* Mutant: the queue's Stop does not wait for its workers.
StopWaitsNot(s) ==
  /\ Alive /\ pc[s] = "waiting"
  /\ StopReturns(s)
  /\ UNCHANGED <<phase, cancelled, gateways, queues, known, call, left, apiOpen, toClose, db,
                 history, panicked>>

\* Mutant: the account waited for is not let go.
StopWaitsKeepsName(s) ==
  /\ Alive /\ pc[s] = "waiting"
  /\ StepTo(s, IF group[closing[s]] = 0 THEN "gateways" ELSE "parked")
  /\ UNCHANGED <<phase, cancelled, gateways, queues, known, call, left, apiOpen, toClose,
                 closing, db, history, panicked>>

(* The queue's Stop comes to wg.Wait.                                       *)
StopWaits(s) ==
  /\ Alive /\ pc[s] = "waiting"
  /\ IF group[closing[s]] = 0 THEN StopReturns(s) ELSE StepTo(s, "parked") /\ UNCHANGED closing
  /\ UNCHANGED <<phase, cancelled, gateways, queues, known, call, left, apiOpen, toClose, db,
                 history, panicked>>

(* Woken, it panics if a late Enqueue has started a worker meanwhile.       *)
StopResumes(s) ==
  /\ Alive /\ pc[s] = "woken"
  /\ IF group[closing[s]] = 0 THEN StopReturns(s) /\ UNCHANGED panicked
     ELSE panicked' = TRUE /\ UNCHANGED <<pc, closing>>
  /\ UNCHANGED <<phase, cancelled, gateways, queues, known, call, left, apiOpen, toClose, db,
                 history>>

AllClosed(s) ==
  /\ Alive /\ pc[s] = "gateways" /\ toClose[s] = {}
  /\ StepTo(s, "db")
  /\ UNCHANGED <<phase, cancelled, gateways, queues, known, call, left, apiOpen, toClose,
                 closing, db, history, panicked>>

(* m.db is looked at, closed and reset without the lock: a Stop that comes  *)
(* between the look and the close calls Close on nil.                       *)
CloseDB(s) ==
  /\ Alive
  /\ \/ pc[s] = "db" /\ StepTo(s, IF db = "nil" THEN "done" ELSE "closeDB")
        /\ UNCHANGED <<db, panicked>>
     \/ pc[s] = "closeDB" /\ db # "nil" /\ db' = "nil" /\ StepTo(s, "done")
        /\ UNCHANGED panicked
     \/ pc[s] = "closeDB" /\ db = "nil" /\ panicked' = TRUE /\ UNCHANGED <<db, pc>>
  /\ UNCHANGED <<phase, cancelled, gateways, queues, known, call, left, apiOpen, toClose,
                 closing, history>>

Stop(s) ==
  \/ CloseAPI(s) \/ Cancel(s) \/ CloseGateway(s) \/ StopWaits(s) \/ StopResumes(s)
  \/ AllClosed(s) \/ CloseDB(s)

Next ==
  \/ Run \/ Signal \/ RunReturns \/ Exit
  \/ \E a \in Accounts :
       AddAccount(a) \/ Connect(a) \/ WorkerLeaves(a) \/ WorkerDone(a)
  \/ \E e \in Events : CheckStopped(e) \/ Enqueue(e) \/ Take(e) \/ Handle(e)
  \/ \E q \in Calls : Call(q) \/ SendOne(q) \/ Answer(q)
  \/ \E s \in Stoppers : Stop(s)

Spec == Init /\ [][Next]_vars

(* Handlers end, workers notice the context, and the shutdown runs on, with *)
(* the timeouts of 5 s and 10 s: while one of these can move, one does.     *)
GoesOn ==
  \/ RunReturns \/ Exit
  \/ \E e \in Events : Handle(e)
  \/ \E a \in Accounts : WorkerLeaves(a) \/ WorkerDone(a)
  \/ \E s \in Stoppers : Stop(s)

FairSpec == Spec /\ WF_vars(GoesOn)

-----------------------------------------------------------------------------
(* The shutdown closes things in an order that loses nothing in time: a     *)
(* handled event's user is written unless Run gave up after 10 s or the     *)
(* event's Enqueue was overtaken by the queue's Stop, and a reminder or a   *)
(* clearing that was answered is written unless APIServer.Stop gave up      *)
(* after 5 s.  No more than one event of an account is overtaken.  Only     *)
(* after the 10 s can one Stop pull m.db from under another, and only an    *)
(* overtaken Enqueue can make a queue's Stop panic.                         *)
NothingLostInTime ==
  /\ "run" \in late \/ lost \cap Events \subseteq overtaken
  /\ panicked => "run" \in late \/ overtaken # {}
  /\ lost \cap Calls # {} => "api" \in late
  /\ \A e, f \in overtaken : AccountOf[e] = AccountOf[f] => e = f

(* When Stop has returned in time, every queue is stopped and the database  *)
(* closed, no event waits or is handled but the one whose Enqueue was       *)
(* overtaken, and no queue takes another: nothing else of the manager goes  *)
(* on but loops that only have to notice the context.                       *)
QuietAfterStop ==
  pc["goroutine"] = "done" /\ "run" \notin late =>
    /\ cancelled /\ db = "nil"
    /\ \A a \in Accounts : stopped[a]
    /\ \A e \in Events : event[e] \in {"queued", "handling"} => e \in overtaken

(* Once told to shut down, the process exits: neither the first Stop nor    *)
(* the second one, which may run beside it, waits for ever.                 *)
ShutdownEnds == phase = "shutting" ~> phase = "exited" \/ panicked
=============================================================================

------------------------------ MODULE Scheduler ------------------------------
(***************************************************************************)
(* internal/proactive/scheduler.go with the reminders table of             *)
(* internal/store/reminder_store.go: one scheduler per account, all in one *)
(* process over one table, the API calls that add and cancel reminders,    *)
(* and the process dying and starting again.                               *)
(*                                                                         *)
(* checkDue is three kinds of step: what it does under its first lock, one *)
(* executeJob, and what it does under the second lock.  A job is the time  *)
(* it runs next; its text and target are left out, and executeJob counts   *)
(* as executed whether or not the message was sent, as checkDue takes it.  *)
(***************************************************************************)
EXTENDS Integers

CONSTANTS
  Accounts,
  Jobs,            \* reminder IDs
  Owner,           \* the account a reminder is created under
  Period,          \* its recurrence; 0 for a schedule that has no next run
  MaxPeriod,       \* bound: the longest recurrence
  MaxTime,         \* bound: the clock
  MaxCrashes,      \* bound: restarts of the process
  NONE

ASSUME SchedulerAssumption ==
  /\ Owner \in [Jobs -> Accounts]
  /\ MaxPeriod \in Nat
  /\ Period \in [Jobs -> 0 .. MaxPeriod]
  /\ MaxTime \in Nat
  /\ MaxCrashes \in Nat
  /\ NONE \notin Jobs \X Nat

Absent == -1
Times == 0 .. MaxTime + MaxPeriod
Slot == Times \cup {Absent}

VARIABLES
  up,              \* the process runs
  now,
  jobs,            \* s.jobs of each scheduler: the NextRun of each job in it
  table,           \* the rows of the reminders table: next_run of each
  cancelled,       \* the manager's context, of which the schedulers' are made,
                   \* is cancelled
  running,         \* its goroutine run has not returned
  tick,            \* checkDue: its now
  due,             \* checkDue: the jobs still to execute, with their NextRun
  doing,           \* checkDue: the job executed and not rescheduled
  accepted,        \* history: reminders AddReminder returned an ID for
  added,           \* history: those accepted since the process was started
  withdrawn,       \* history: what CancelReminder returned true for since the
                   \* process was started, as <<account, job>>
  gone,            \* history: reminders for which it did so before that
  run,             \* history: how often the process was started before
  executed         \* history: what was executed, by whom and when it was due

history == <<accepted, added, withdrawn, gone, run, executed>>
checking == <<tick, due, doing>>
vars == <<up, now, jobs, table, cancelled, running, checking, history>>

Execution == [run : 0 .. MaxCrashes, account : Accounts, job : Jobs, due : Times]

TypeOK ==
  /\ up \in BOOLEAN
  /\ now \in 0 .. MaxTime
  /\ jobs \in [Accounts -> [Jobs -> Slot]]
  /\ table \in [Jobs -> Slot]
  /\ cancelled \in BOOLEAN
  /\ running \in [Accounts -> BOOLEAN]
  /\ tick \in [Accounts -> 0 .. MaxTime]
  /\ due \in [Accounts -> SUBSET (Jobs \X Times)]
  /\ doing \in [Accounts -> (Jobs \X Times) \cup {NONE}]
  /\ added \subseteq accepted /\ accepted \subseteq Jobs
  /\ withdrawn \subseteq Accounts \X accepted /\ gone \subseteq accepted
  /\ run \in 0 .. MaxCrashes
  /\ executed \subseteq Execution

EmptyMaps == [a \in Accounts |-> [j \in Jobs |-> Absent]]
AllFalse == [a \in Accounts |-> FALSE]

Init ==
  /\ up = FALSE /\ now = 0
  /\ jobs = EmptyMaps /\ table = [j \in Jobs |-> Absent]
  /\ cancelled = FALSE /\ running = AllFalse
  /\ tick = [a \in Accounts |-> 0]
  /\ due = [a \in Accounts |-> {}]
  /\ doing = [a \in Accounts |-> NONE]
  /\ accepted = {} /\ added = {} /\ withdrawn = {} /\ gone = {}
  /\ run = 0 /\ executed = {}

-----------------------------------------------------------------------------
(* The reminders table, through the adapter of the store: INSERT OR REPLACE, *)
(* DELETE, and all rows of all accounts.                                    *)
SaveRow(j, t) == table' = [table EXCEPT ![j] = t]
DeleteRow(j) == table' = [table EXCEPT ![j] = Absent]
ListAll == table

\* Mutant: a persisted reminder that is overdue is not loaded.
BootSkipsOverdue ==
  /\ ~up
  /\ up' = TRUE
  /\ jobs' = [a \in Accounts |->
               [j \in Jobs |-> IF table[j] > now THEN table[j] ELSE Absent]]
  /\ running' = [a \in Accounts |-> TRUE]
  /\ UNCHANGED <<now, table, cancelled, checking, history>>

(* BotManager.Start calls Scheduler.Start of every account, before any API  *)
(* call: the maps are empty, so each loads all rows, of whatever account.   *)
Boot ==
  /\ ~up
  /\ up' = TRUE
  /\ jobs' = [a \in Accounts |-> ListAll]
  /\ running' = [a \in Accounts |-> TRUE]
  /\ UNCHANGED <<now, table, cancelled, checking, history>>

(* handleCreateReminder: the first run is the next run of the schedule, or  *)
(* now when there is none.                                                  *)
FirstRun(j) == now + Period[j]

(* AddReminder: the ID is new.                                              *)
AddReminder(j) ==
  /\ up
  /\ j \notin accepted
  /\ jobs' = [jobs EXCEPT ![Owner[j]][j] = FirstRun(j)]
  /\ SaveRow(j, FirstRun(j))
  /\ accepted' = accepted \cup {j}
  /\ added' = added \cup {j}
  /\ UNCHANGED <<up, now, cancelled, running, checking, withdrawn, gone, run,
                 executed>>

\* Mutant: a reminder that is not in the map is cancelled as well.
CancelUnknown(a, j) ==
  /\ up
  /\ jobs' = [jobs EXCEPT ![a][j] = Absent]
  /\ DeleteRow(j)
  /\ withdrawn' = withdrawn \cup {<<a, j>>}
  /\ UNCHANGED <<up, now, cancelled, running, checking, accepted, added, gone, run,
                 executed>>

(* CancelReminder through any account whose map has the job: its entry and  *)
(* the row go.  After a start that is every account, and the job stays in   *)
(* the maps of the others, its owner's included.                            *)
CancelReminder(a, j) ==
  /\ up
  /\ jobs[a][j] # Absent
  /\ jobs' = [jobs EXCEPT ![a][j] = Absent]
  /\ DeleteRow(j)
  /\ withdrawn' = withdrawn \cup {<<a, j>>}
  /\ UNCHANGED <<up, now, cancelled, running, checking, accepted, added, gone, run,
                 executed>>

(* BotManager.Stop cancels its context and so every scheduler's, and calls  *)
(* Scheduler.Stop, which cancels them again.                                *)
Stop ==
  /\ up /\ ~cancelled
  /\ cancelled' = TRUE
  /\ UNCHANGED <<up, now, jobs, table, running, checking, history>>

-----------------------------------------------------------------------------
Waiting(a) == running[a] /\ due[a] = {} /\ doing[a] = NONE

DueJobs(a) == {j \in Jobs : jobs[a][j] # Absent /\ jobs[a][j] <= now}

(* The select of run when the ticker has fired; with the context cancelled  *)
(* as well, it may still be chosen.                                         *)
CollectDue(a) ==
  /\ Waiting(a)
  /\ DueJobs(a) # {}
  /\ tick' = [tick EXCEPT ![a] = now]
  /\ due' = [due EXCEPT ![a] = {<<j, jobs[a][j]>> : j \in DueJobs(a)}]
  /\ UNCHANGED <<up, now, jobs, table, cancelled, running, doing, history>>

RunReturns(a) ==
  /\ Waiting(a)
  /\ cancelled
  /\ running' = [running EXCEPT ![a] = FALSE]
  /\ UNCHANGED <<up, now, jobs, table, cancelled, checking, history>>

(* executeJob, with no lock held.                                           *)
ExecuteJob(a) ==
  /\ doing[a] = NONE
  /\ \E d \in due[a] :
       /\ due' = [due EXCEPT ![a] = @ \ {d}]
       /\ doing' = [doing EXCEPT ![a] = d]
       /\ executed' = executed \cup
            {[run |-> run, account |-> a, job |-> d[1], due |-> d[2]]}
  /\ UNCHANGED <<up, now, jobs, table, cancelled, running, tick, accepted, added,
                 withdrawn, gone, run>>

Done(a) ==
  /\ doing[a] # NONE
  /\ doing' = [doing EXCEPT ![a] = NONE]
  /\ UNCHANGED <<up, now, table, cancelled, running, tick, due, history>>

NextRun(a, j) == IF Period[j] = 0 THEN Absent ELSE tick[a] + Period[j]

\* Mutant: the map is not looked at again after the execution.
RescheduleBlindly(a) ==
  /\ Done(a)
  /\ LET j == doing[a][1] IN jobs' = [jobs EXCEPT ![a][j] = NextRun(a, j)]

\* Mutant: a job without a next run stays in the map.
RescheduleKeeps(a) ==
  /\ Done(a)
  /\ LET j == doing[a][1] IN
       jobs' = IF jobs[a][j] # Absent /\ Period[j] # 0
               THEN [jobs EXCEPT ![a][j] = NextRun(a, j)] ELSE jobs

(* The second lock: a job still in the map gets its next run, reckoned from *)
(* the time checkDue began, or leaves the map.  The row is not touched.     *)
Reschedule(a) ==
  /\ Done(a)
  /\ LET j == doing[a][1] IN
       jobs' = IF jobs[a][j] # Absent
               THEN [jobs EXCEPT ![a][j] = NextRun(a, j)] ELSE jobs

-----------------------------------------------------------------------------
Tick ==
  /\ now < MaxTime
  /\ now' = now + 1
  /\ UNCHANGED <<up, jobs, table, cancelled, running, checking, history>>

(* The process ends, in order or not: only the table is left.               *)
Crash ==
  /\ up
  /\ run < MaxCrashes
  /\ run' = run + 1
  /\ up' = FALSE /\ jobs' = EmptyMaps
  /\ cancelled' = FALSE /\ running' = AllFalse
  /\ tick' = [a \in Accounts |-> 0]
  /\ due' = [a \in Accounts |-> {}]
  /\ doing' = [a \in Accounts |-> NONE]
  /\ added' = {} /\ withdrawn' = {}
  /\ gone' = gone \cup {w[2] : w \in withdrawn}
  /\ UNCHANGED <<now, table, accepted, executed>>

(* Every scheduler has been stopped and the bounds are reached.             *)
Ended ==
  /\ up /\ now = MaxTime /\ run = MaxCrashes
  /\ \A a \in Accounts : ~running[a]
  /\ UNCHANGED vars

Next ==
  \/ Boot \/ Stop \/ Tick \/ Crash \/ Ended
  \/ \E j \in Jobs : AddReminder(j) \/ \E a \in Accounts : CancelReminder(a, j)
  \/ \E a \in Accounts :
       CollectDue(a) \/ RunReturns(a) \/ ExecuteJob(a) \/ Reschedule(a)

Spec == Init /\ [][Next]_vars

(* The goroutine of each scheduler runs; a send returns, because the HTTP   *)
(* client has a timeout.                                                    *)
Fairness ==
  \A a \in Accounts : WF_vars(CollectDue(a) \/ ExecuteJob(a) \/ Reschedule(a))

FairSpec == Spec /\ Fairness

-----------------------------------------------------------------------------
(* In one process a scheduler never executes a reminder twice for one run   *)
(* time, however the ticks, the sends and the API calls interleave; one the *)
(* process itself accepted is executed by no two schedulers either.  One    *)
(* accepted before a restart is loaded, and so executed, by the scheduler   *)
(* of every account (scheduler.go:63-68, 146-172).                          *)
OncePerRunTime ==
  \A a \in Accounts : \A d \in due[a] : \A e \in executed :
    e.run = run /\ e.job = d[1] /\ e.due = d[2] =>
      e.account # a /\ d[1] \notin added

(* A reminder whose cancellation succeeded has no row and is not in the map *)
(* of the account it was cancelled through, nor in any map if this process  *)
(* accepted it or the cancellation came before a restart: an execution      *)
(* under way does not put it back, nor does the restart.  For a reminder    *)
(* loaded from the table the maps of other accounts, the owner's as well,   *)
(* keep it until then (scheduler.go:63-68, 106-117, 159-170).               *)
CancelledIsGone ==
  /\ \A w \in withdrawn :
       /\ jobs[w[1]][w[2]] = Absent /\ table[w[2]] = Absent
       /\ w[2] \in added => \A a \in Accounts : jobs[a][w[2]] = Absent
  /\ \A j \in gone : table[j] = Absent /\ \A a \in Accounts : jobs[a][j] = Absent

Withdrawn == gone \cup {w[2] : w \in withdrawn}

(* An accepted reminder stays scheduled by its account, through executions  *)
(* and restarts, until it is cancelled, under whatever account, or, without *)
(* recurrence, executed (scheduler.go:54-67, 85-96, 159-170).               *)
AcceptedIsKept ==
  up => \A j \in accepted \ Withdrawn :
          \/ jobs[Owner[j]][j] # Absent
          \/ Period[j] = 0 /\ \E e \in executed : e.job = j

(* A reminder that is due does not stay due while the scheduler runs: it is *)
(* executed and moves on, or is cancelled (scheduler.go:131-172).           *)
DueIsHandled ==
  \A j \in Jobs :
    LET a == Owner[j] IN
    running[a] /\ j \in DueJobs(a) ~> ~running[a] \/ j \notin DueJobs(a)

-----------------------------------------------------------------------------
(* architecture.md:432 "One-time -> delete from map + store": one execution *)
(* is all a reminder without recurrence gets.  Broken by a restart: the row *)
(* is still there.                                                          *)
OneTimeExecutedOnce ==
  \A e, f \in executed : e.job = f.job /\ Period[e.job] = 0 => e = f
=============================================================================

--------------------------- MODULE SchedulerProofs ---------------------------
(***************************************************************************)
(* Theorems about Scheduler for any number of accounts and reminders, any  *)
(* recurrences, and any bounds on the clock and the restarts; and about    *)
(* Cron for any schedule, calendar and number of minutes tried.            *)
(***************************************************************************)
EXTENDS Scheduler, Cron, FiniteSetTheorems, FunctionTheorems, TLAPS

(* Whatever a map, the table, a check or the history holds was accepted.    *)
OnlyAccepted ==
  /\ \A j \in Jobs : table[j] # Absent => j \in accepted
  /\ \A a \in Accounts : \A j \in Jobs : jobs[a][j] # Absent => j \in accepted
  /\ \A a \in Accounts : \A d \in due[a] : d[1] \in accepted
  /\ \A e \in executed : e.job \in accepted

(* A process that is down runs nothing and has executed nothing yet.        *)
DownIsIdle ==
  /\ \A e \in executed : e.run <= run
  /\ ~up => /\ \A e \in executed : e.run < run
            /\ added = {} /\ withdrawn = {}
            /\ \A a \in Accounts : ~running[a] /\ due[a] = {} /\ doing[a] = NONE

(* A check works with a time that has passed and with jobs due by then.     *)
TickBound ==
  \A a \in Accounts :
    /\ tick[a] <= now
    /\ \A d \in due[a] : d[2] <= tick[a]
    /\ \A e \in executed : e.run = run /\ e.account = a => e.due <= tick[a]

(* What a process has executed lies behind the job's next run, until it is  *)
(* rescheduled.                                                             *)
ExecutedIsPast ==
  \A e \in executed :
    e.run = run =>
      \/ jobs[e.account][e.job] = Absent
      \/ jobs[e.account][e.job] > e.due
      \/ doing[e.account] = <<e.job, e.due>>

(* Every accepted reminder that was not cancelled has its row, also one     *)
(* without recurrence that was executed.                                    *)
RowKept == \A j \in accepted \ Withdrawn : table[j] # Absent

(* The job between execution and rescheduling has been executed.            *)
DoingWasExecuted ==
  \A a \in Accounts : doing[a] # NONE => \E e \in executed : e.job = doing[a][1]

(* A reminder accepted since the start is known to its account's scheduler  *)
(* and to no other.                                                         *)
OwnersAlone ==
  /\ \A j \in added : \A a \in Accounts : a # Owner[j] =>
       jobs[a][j] = Absent /\ \A d \in due[a] : d[1] # j
  /\ \A e \in executed : e.run = run /\ e.job \in added => e.account = Owner[e.job]

(* No scheduler is about to execute what it has executed in this process.   *)
OwnOnce ==
  \A a \in Accounts : \A d \in due[a] :
    [run |-> run, account |-> a, job |-> d[1], due |-> d[2]] \notin executed

(* The inductive invariant of the theorems below.                           *)
IInv ==
  /\ TypeOK
  /\ OnlyAccepted
  /\ DownIsIdle
  /\ TickBound
  /\ ExecutedIsPast
  /\ RowKept
  /\ DoingWasExecuted
  /\ OwnersAlone
  /\ OwnOnce
  /\ CancelledIsGone
  /\ AcceptedIsKept

LEMMA InitIInv == Init => IInv
  <1> SUFFICES ASSUME Init PROVE IInv
    OBVIOUS
  <1> USE SchedulerAssumption DEF Init, EmptyMaps, AllFalse
  <1>1. TypeOK
    <2>1. Absent \in Slot
      BY DEF Slot
    <2>2. 0 \in 0 .. MaxTime /\ 0 \in 0 .. MaxCrashes
      OBVIOUS
    <2>3. jobs \in [Accounts -> [Jobs -> Slot]] /\ table \in [Jobs -> Slot]
      BY <2>1
    <2>4. due \in [Accounts -> SUBSET (Jobs \X Times)]
      OBVIOUS
    <2> QED
      BY <2>2, <2>3, <2>4 DEF TypeOK
  <1>2. OnlyAccepted /\ DownIsIdle /\ TickBound
    BY DEF OnlyAccepted, DownIsIdle, TickBound
  <1>3. ExecutedIsPast /\ RowKept /\ DoingWasExecuted
    BY DEF ExecutedIsPast, RowKept, DoingWasExecuted
  <1>4. OwnersAlone /\ OwnOnce /\ CancelledIsGone /\ AcceptedIsKept
    BY DEF OwnersAlone, OwnOnce, CancelledIsGone, AcceptedIsKept
  <1> QED
    BY <1>1, <1>2, <1>3, <1>4 DEF IInv

-----------------------------------------------------------------------------
(* Each action preserves the invariant.                                     *)
LEMMA BootStep == ASSUME IInv, Boot PROVE IInv'
  <1> USE SchedulerAssumption DEF IInv, Boot, ListAll, checking, history
  <1>1. TypeOK'
    BY DEF TypeOK
  <1>2. OnlyAccepted'
    BY DEF OnlyAccepted, TypeOK
  <1>3. DownIsIdle' /\ TickBound'
    BY DEF DownIsIdle, TickBound
  <1>4. ExecutedIsPast'
    BY DEF ExecutedIsPast, DownIsIdle, TypeOK, Execution
  <1>5. RowKept' /\ DoingWasExecuted' /\ OwnOnce'
    BY DEF RowKept, Withdrawn, DoingWasExecuted, OwnOnce
  <1>6. CancelledIsGone' /\ OwnersAlone'
    BY DEF CancelledIsGone, OwnersAlone, DownIsIdle, TypeOK
  <1>7. AcceptedIsKept'
    BY DEF AcceptedIsKept, Withdrawn, RowKept, TypeOK
  <1> QED
    BY <1>1, <1>2, <1>3, <1>4, <1>5, <1>6, <1>7

LEMMA AddStep == ASSUME IInv, NEW k \in Jobs, AddReminder(k) PROVE IInv'
  <1> USE SchedulerAssumption DEF IInv, AddReminder, FirstRun, SaveRow, checking, history
  <1>0. /\ Owner[k] \in Accounts
        /\ now + Period[k] \in Times
        /\ now + Period[k] # Absent
    <2>1. now \in 0 .. MaxTime /\ Period[k] \in 0 .. MaxPeriod
      BY DEF TypeOK
    <2>2. now + Period[k] \in 0 .. MaxTime + MaxPeriod
      BY <2>1
    <2> QED
      BY <2>2 DEF Times, Absent
  <1>1. TypeOK'
    BY <1>0 DEF TypeOK, Slot
  <1>2. OnlyAccepted'
    BY <1>0 DEF OnlyAccepted, TypeOK
  <1>3. DownIsIdle' /\ TickBound'
    BY DEF DownIsIdle, TickBound
  <1>4. ExecutedIsPast'
    <2> SUFFICES ASSUME NEW e \in executed, e.run = run
                 PROVE  \/ jobs'[e.account][e.job] = Absent
                        \/ jobs'[e.account][e.job] > e.due
                        \/ doing[e.account] = <<e.job, e.due>>
      BY DEF ExecutedIsPast
    <2>1. e.job # k /\ e.account \in Accounts /\ e.job \in Jobs
      BY DEF OnlyAccepted, TypeOK, Execution
    <2>2. jobs'[e.account][e.job] = jobs[e.account][e.job]
      BY <2>1, <1>0 DEF TypeOK
    <2> QED
      BY <2>2 DEF ExecutedIsPast
  <1>5. RowKept' /\ DoingWasExecuted' /\ OwnOnce'
    BY <1>0 DEF RowKept, Withdrawn, DoingWasExecuted, OwnOnce, TypeOK
  <1>6. CancelledIsGone'
    <2>1. /\ \A w \in withdrawn : w[2] # k /\ w[1] \in Accounts /\ w[2] \in Jobs
          /\ k \notin gone /\ gone \subseteq Jobs
      BY DEF TypeOK
    <2>2. \A a \in Accounts : \A j \in Jobs \ {k} :
            jobs'[a][j] = jobs[a][j] /\ table'[j] = table[j]
      BY <1>0 DEF TypeOK
    <2>3. added' = added \cup {k} /\ UNCHANGED <<withdrawn, gone>>
      OBVIOUS
    <2> QED
      BY <2>1, <2>2, <2>3 DEF CancelledIsGone
  <1>7. AcceptedIsKept'
    BY <1>0 DEF AcceptedIsKept, Withdrawn, TypeOK
  <1>8. OwnersAlone'
    <2>1. \A a \in Accounts : a # Owner[k] =>
            jobs'[a][k] = Absent /\ \A d \in due[a] : d[1] # k
      BY <1>0 DEF OnlyAccepted, TypeOK
    <2>2. \A a \in Accounts : \A j \in Jobs \ {k} : jobs'[a][j] = jobs[a][j]
      BY <1>0 DEF TypeOK
    <2>3. \A e \in executed : e.job # k
      BY DEF OnlyAccepted
    <2>4. added' = added \cup {k} /\ added \subseteq Jobs /\ k \notin added
          /\ UNCHANGED <<due, executed, run>>
      BY DEF TypeOK
    <2> QED
      BY <2>1, <2>2, <2>3, <2>4 DEF OwnersAlone
  <1> QED
    BY <1>1, <1>2, <1>3, <1>4, <1>5, <1>6, <1>7, <1>8

(* What is withdrawn after one more cancellation.                           *)
LEMMA OneMoreWithdrawn ==
  ASSUME NEW b, NEW k, withdrawn' = withdrawn \cup {<<b, k>>}, gone' = gone
  PROVE  Withdrawn' = Withdrawn \cup {k}
  <1>1. <<b, k>>[2] = k
    OBVIOUS
  <1>2. \A x : (\E w \in withdrawn' : x = w[2]) <=> (\E w \in withdrawn : x = w[2]) \/ x = k
    BY <1>1
  <1>3. \A x : x \in Withdrawn <=> x \in gone \/ \E w \in withdrawn : x = w[2]
    BY DEF Withdrawn
  <1>4. \A x : x \in Withdrawn' <=> x \in gone \/ \E w \in withdrawn' : x = w[2]
    BY DEF Withdrawn
  <1> QED
    BY <1>2, <1>3, <1>4

LEMMA CancelStep ==
  ASSUME IInv, NEW b \in Accounts, NEW k \in Jobs, CancelReminder(b, k)
  PROVE  IInv'
  <1> USE SchedulerAssumption DEF IInv, CancelReminder, DeleteRow, checking, history
  <1>0. Owner[k] \in Accounts /\ k \in accepted /\ (k \in added => b = Owner[k])
    BY DEF OnlyAccepted, OwnersAlone
  <1>1. TypeOK'
    BY <1>0 DEF TypeOK, Slot
  <1>2. OnlyAccepted'
    BY <1>0 DEF OnlyAccepted, TypeOK
  <1>3. DownIsIdle' /\ TickBound'
    BY DEF DownIsIdle, TickBound
  <1>4. ExecutedIsPast'
    <2> SUFFICES ASSUME NEW e \in executed, e.run = run
                 PROVE  \/ jobs'[e.account][e.job] = Absent
                        \/ jobs'[e.account][e.job] > e.due
                        \/ doing[e.account] = <<e.job, e.due>>
      BY DEF ExecutedIsPast
    <2>1. e.account \in Accounts /\ e.job \in Jobs
      BY DEF TypeOK, Execution
    <2>2. jobs'[e.account][e.job] \in {jobs[e.account][e.job], Absent}
      BY <2>1, <1>0 DEF TypeOK
    <2> QED
      BY <2>2 DEF ExecutedIsPast
  <1>5. RowKept' /\ DoingWasExecuted' /\ OwnOnce'
    <2>1. Withdrawn' = Withdrawn \cup {k}
      BY OneMoreWithdrawn
    <2>2. \A j \in Jobs \ {k} : table'[j] = table[j]
      BY DEF TypeOK
    <2>3. RowKept'
      BY <2>1, <2>2 DEF RowKept, TypeOK
    <2> QED
      BY <2>3 DEF DoingWasExecuted, OwnOnce
  <1>6. CancelledIsGone'
    <2>1. /\ \A a \in Accounts : \A j \in Jobs :
               jobs[a][j] = Absent => jobs'[a][j] = Absent
          /\ \A j \in Jobs : table[j] = Absent => table'[j] = Absent
          /\ jobs'[b][k] = Absent /\ table'[k] = Absent
          /\ \A a \in Accounts : \A j \in Jobs :
               a # b \/ j # k => jobs'[a][j] = jobs[a][j]
      BY <1>0 DEF TypeOK
    <2>2. k \in added => \A a \in Accounts : jobs'[a][k] = Absent
      <3> SUFFICES ASSUME k \in added, NEW a \in Accounts PROVE jobs'[a][k] = Absent
        OBVIOUS
      <3>1. CASE a = b
        BY <2>1, <3>1
      <3>2. CASE a # b
        BY <1>0, <2>1, <3>2 DEF OwnersAlone
      <3> QED
        BY <3>1, <3>2
    <2>3. /\ \A w \in withdrawn : w[1] \in Accounts /\ w[2] \in Jobs
          /\ gone \subseteq Jobs
      BY DEF TypeOK
    <2>4. \A w \in withdrawn' : w \in withdrawn \/ (w[1] = b /\ w[2] = k)
      OBVIOUS
    <2>5. UNCHANGED <<gone, added>>
      OBVIOUS
    <2> QED
      BY <2>1, <2>2, <2>3, <2>4, <2>5 DEF CancelledIsGone
  <1>7. AcceptedIsKept'
    <2>1. Withdrawn' = Withdrawn \cup {k}
      BY OneMoreWithdrawn
    <2>2. \A j \in Jobs \ {k} : jobs'[Owner[j]][j] = jobs[Owner[j]][j]
      BY <1>0 DEF TypeOK
    <2> QED
      BY <2>1, <2>2 DEF AcceptedIsKept, TypeOK
  <1>8. OwnersAlone'
    <2>1. \A a \in Accounts : \A j \in Jobs : jobs'[a][j] \in {jobs[a][j], Absent}
      BY <1>0 DEF TypeOK
    <2>2. added \subseteq Jobs /\ UNCHANGED <<added, due, executed, run>>
      BY DEF TypeOK
    <2> QED
      BY <2>1, <2>2 DEF OwnersAlone
  <1> QED
    BY <1>1, <1>2, <1>3, <1>4, <1>5, <1>6, <1>7, <1>8

LEMMA CollectStep == ASSUME IInv, NEW b \in Accounts, CollectDue(b) PROVE IInv'
  <1> USE SchedulerAssumption DEF IInv, CollectDue, Waiting, checking, history
  <1>0. ASSUME NEW d \in due'[b]
        PROVE  d[1] \in Jobs /\ d = <<d[1], jobs[b][d[1]]>>
               /\ jobs[b][d[1]] # Absent /\ jobs[b][d[1]] <= now
    BY <1>0 DEF DueJobs, TypeOK
  <1>1. TypeOK'
    <2>1. due'[b] \subseteq Jobs \X Times
      BY <1>0 DEF TypeOK, Slot
    <2> QED
      BY <2>1 DEF TypeOK
  <1>2. OnlyAccepted'
    BY <1>0 DEF OnlyAccepted, TypeOK
  <1>3. DownIsIdle'
    BY DEF DownIsIdle, TypeOK
  <1>4. TickBound'
    <2>1. \A e \in executed : e.account = b /\ e.run = run => e.due <= now
      BY DEF TickBound, TypeOK, Execution, Times
    <2>2. \A d \in due'[b] : d[2] <= now
      BY <1>0
    <2> QED
      BY <2>1, <2>2 DEF TickBound, TypeOK, Execution
  <1>5. ExecutedIsPast' /\ RowKept' /\ DoingWasExecuted'
    BY DEF ExecutedIsPast, RowKept, Withdrawn, DoingWasExecuted
  <1>6. OwnOnce'
    <2> SUFFICES ASSUME NEW a \in Accounts, NEW d \in due'[a],
                        [run |-> run, account |-> a, job |-> d[1], due |-> d[2]]
                          \in executed
                 PROVE  FALSE
      BY DEF OwnOnce
    <2>1. CASE a # b
      BY <2>1 DEF OwnOnce, TypeOK
    <2>2. CASE a = b
      <3>1. jobs[b][d[1]] = d[2] /\ d[2] # Absent /\ d[2] \in Int
        <4>1. d[1] \in Jobs /\ d[2] = jobs[b][d[1]] /\ d[2] # Absent
          BY <2>2, <1>0
        <4>2. jobs[b][d[1]] \in Slot
          BY <4>1 DEF TypeOK
        <4> QED
          BY <4>1, <4>2 DEF Slot, Times
      <3>2. <<d[1], d[2]>> # NONE
        BY <2>2, <1>0, <3>1 DEF TypeOK, Slot, Times
      <3>3. doing[b] = NONE
        OBVIOUS
      <3> DEFINE e == [run |-> run, account |-> b, job |-> d[1], due |-> d[2]]
      <3>4. e \in executed /\ e.run = run /\ e.account = b /\ e.job = d[1] /\ e.due = d[2]
        BY <2>2
      <3> HIDE DEF e
      <3>5. jobs[b][d[1]] = Absent \/ jobs[b][d[1]] > d[2] \/ doing[b] = <<d[1], d[2]>>
        BY <3>4 DEF ExecutedIsPast
      <3> QED
        BY <3>1, <3>2, <3>3, <3>5
    <2> QED
      BY <2>1, <2>2
  <1>7. CancelledIsGone' /\ AcceptedIsKept'
    BY DEF CancelledIsGone, AcceptedIsKept, Withdrawn
  <1>8. OwnersAlone'
    <2>1. \A a \in Accounts : \A d \in due'[a] :
            d \in due[a] \/ (a = b /\ jobs[b][d[1]] # Absent)
      BY <1>0 DEF TypeOK
    <2>2. UNCHANGED <<jobs, added, executed, run>>
      OBVIOUS
    <2> QED
      BY <2>1, <2>2 DEF OwnersAlone
  <1> QED
    BY <1>1, <1>2, <1>3, <1>4, <1>5, <1>6, <1>7, <1>8

LEMMA ExecuteStep == ASSUME IInv, NEW b \in Accounts, ExecuteJob(b) PROVE IInv'
  <1> USE SchedulerAssumption DEF IInv, ExecuteJob, checking, history
  <1>0. PICK d \in due[b] :
          /\ due' = [due EXCEPT ![b] = @ \ {d}]
          /\ doing' = [doing EXCEPT ![b] = d]
          /\ executed' = executed \cup
               {[run |-> run, account |-> b, job |-> d[1], due |-> d[2]]}
    OBVIOUS
  <1> DEFINE new == [run |-> run, account |-> b, job |-> d[1], due |-> d[2]]
  <1>a. /\ d \in Jobs \X Times /\ d = <<d[1], d[2]>>
        /\ d[1] \in accepted /\ d[2] <= tick[b]
        /\ new \in Execution
        /\ up
    BY DEF TypeOK, OnlyAccepted, TickBound, DownIsIdle, Execution
  <1>b. /\ executed' = executed \cup {new}
        /\ new.run = run /\ new.account = b /\ new.job = d[1] /\ new.due = d[2]
        /\ due'[b] = due[b] \ {d} /\ doing'[b] = d
        /\ \A a \in Accounts : a # b => due'[a] = due[a] /\ doing'[a] = doing[a]
    BY <1>0 DEF TypeOK
  <1> HIDE DEF new
  <1>1. TypeOK'
    BY <1>0, <1>a, <1>b DEF TypeOK
  <1>2. OnlyAccepted'
    BY <1>a, <1>b DEF OnlyAccepted
  <1>3. DownIsIdle'
    <2>1. run <= run
      BY DEF TypeOK
    <2> QED
      BY <1>a, <1>b, <2>1 DEF DownIsIdle
  <1>4. TickBound'
    BY <1>a, <1>b DEF TickBound
  <1>5. ExecutedIsPast'
    <2> SUFFICES ASSUME NEW e \in executed', e.run = run
                 PROVE  \/ jobs[e.account][e.job] = Absent
                        \/ jobs[e.account][e.job] > e.due
                        \/ doing'[e.account] = <<e.job, e.due>>
      BY DEF ExecutedIsPast
    <2>1. CASE e = new
      BY <2>1, <1>a, <1>b
    <2>2. CASE e \in executed /\ e.account = b
      <3>1. doing[b] # <<e.job, e.due>>
        BY <2>2 DEF TypeOK, Execution, Times
      <3> QED
        BY <2>2, <3>1 DEF ExecutedIsPast
    <2>3. CASE e \in executed /\ e.account # b
      <3>1. e.account \in Accounts
        BY <2>3 DEF TypeOK, Execution
      <3> QED
        BY <2>3, <3>1, <1>b DEF ExecutedIsPast
    <2> QED
      BY <2>1, <2>2, <2>3, <1>b
  <1>6. DoingWasExecuted'
    BY <1>a, <1>b DEF DoingWasExecuted
  <1>7. OwnOnce'
    <2> SUFFICES ASSUME NEW a \in Accounts, NEW c \in due'[a]
                 PROVE  [run |-> run, account |-> a, job |-> c[1], due |-> c[2]]
                          \notin executed'
      BY DEF OwnOnce
    <2>1. c \in due[a] /\ (a = b => c # d)
      BY <1>b
    <2>2. c = <<c[1], c[2]>>
      BY <2>1 DEF TypeOK
    <2>3. [run |-> run, account |-> a, job |-> c[1], due |-> c[2]] # new
      BY <2>1, <2>2, <1>a DEF new
    <2> QED
      BY <2>1, <2>3, <1>b DEF OwnOnce
  <1>8. RowKept' /\ CancelledIsGone' /\ AcceptedIsKept'
    BY <1>b DEF RowKept, CancelledIsGone, AcceptedIsKept, Withdrawn
  <1>9. OwnersAlone'
    <2>1. d[1] \in added => b = Owner[d[1]]
      BY DEF OwnersAlone
    <2>2. \A a \in Accounts : due'[a] \subseteq due[a]
      BY <1>b
    <2>3. UNCHANGED <<jobs, added, run>>
      OBVIOUS
    <2> QED
      BY <1>b, <2>1, <2>2, <2>3 DEF OwnersAlone
  <1> QED
    BY <1>1, <1>2, <1>3, <1>4, <1>5, <1>6, <1>7, <1>8, <1>9

LEMMA RescheduleStep == ASSUME IInv, NEW b \in Accounts, Reschedule(b) PROVE IInv'
  <1> USE SchedulerAssumption DEF IInv, Reschedule, Done, checking, history
  <1> DEFINE k == doing[b][1]
             next == NextRun(b, k)
  <1>0. /\ doing[b] \in Jobs \X Times /\ k \in Jobs
        /\ doing' = [doing EXCEPT ![b] = NONE]
        /\ jobs' = IF jobs[b][k] # Absent
                   THEN [jobs EXCEPT ![b][k] = next] ELSE jobs
    BY DEF TypeOK
  <1>a. /\ next \in Slot
        /\ next = Absent <=> Period[k] = 0
        /\ next # Absent => next > tick[b]
    <2>1. tick[b] \in 0 .. MaxTime /\ Period[k] \in 0 .. MaxPeriod
      BY <1>0 DEF TypeOK
    <2>2. tick[b] + Period[k] \in 0 .. MaxTime + MaxPeriod
      BY <2>1
    <2> QED
      BY <2>1, <2>2 DEF NextRun, Slot, Times, Absent
  <1>b. /\ jobs' \in [Accounts -> [Jobs -> Slot]]
        /\ jobs'[b][k] \in {Absent, next}
        /\ jobs[b][k] # Absent => jobs'[b][k] = next
        /\ jobs[b][k] = Absent => jobs'[b][k] = Absent
        /\ \A a \in Accounts : \A j \in Jobs :
              a # b \/ j # k => jobs'[a][j] = jobs[a][j]
    BY <1>0, <1>a DEF TypeOK
  <1>c. doing'[b] = NONE /\ \A a \in Accounts : a # b => doing'[a] = doing[a]
    BY <1>0 DEF TypeOK
  <1> HIDE DEF k, next
  <1>1. TypeOK'
    BY <1>0, <1>b DEF TypeOK
  <1>2. OnlyAccepted'
    BY <1>b DEF OnlyAccepted
  <1>3. DownIsIdle' /\ TickBound'
    BY <1>c DEF DownIsIdle, TickBound
  <1>4. ExecutedIsPast'
    <2> SUFFICES ASSUME NEW e \in executed, e.run = run
                 PROVE  \/ jobs'[e.account][e.job] = Absent
                        \/ jobs'[e.account][e.job] > e.due
                        \/ doing'[e.account] = <<e.job, e.due>>
      BY DEF ExecutedIsPast
    <2>0. e.account \in Accounts /\ e.job \in Jobs /\ e.due \in Times
      BY DEF TypeOK, Execution
    <2>1. CASE e.account = b /\ e.job = k
      <3>1. e.due <= tick[b]
        BY <2>1 DEF TickBound
      <3>2. tick[b] \in Int /\ e.due \in Int /\ next \in Int
        BY <2>0, <1>a DEF TypeOK, Times, Slot, Absent
      <3> QED
        BY <2>1, <3>1, <3>2, <1>a, <1>b
    <2>2. CASE e.account = b /\ e.job # k
      <3>1. doing[b] # <<e.job, e.due>>
        BY <2>2 DEF k
      <3> QED
        <4>1. \/ jobs[e.account][e.job] = Absent \/ jobs[e.account][e.job] > e.due
              \/ doing[e.account] = <<e.job, e.due>>
          BY ONLY IInv, e \in executed, e.run = run DEF IInv, ExecutedIsPast
        <4>2. jobs'[e.account][e.job] = jobs[e.account][e.job]
          BY ONLY <1>b, <2>0, <2>2
        <4> QED
          BY ONLY <2>2, <3>1, <4>1, <4>2
    <2>3. CASE e.account # b
      BY <2>0, <2>3, <1>b, <1>c DEF ExecutedIsPast
    <2> QED
      BY <2>1, <2>2, <2>3
  <1>5. RowKept' /\ DoingWasExecuted' /\ OwnOnce'
    BY <1>c DEF RowKept, Withdrawn, DoingWasExecuted, OwnOnce
  <1>6. CancelledIsGone'
    <2>1. \A a \in Accounts : \A j \in Jobs :
            jobs[a][j] = Absent => jobs'[a][j] = Absent
      BY <1>0, <1>b
    <2>2. /\ \A w \in withdrawn : w[1] \in Accounts /\ w[2] \in Jobs
          /\ gone \subseteq Jobs /\ UNCHANGED <<table, added, withdrawn, gone>>
      BY DEF TypeOK
    <2> QED
      BY <2>1, <2>2 DEF CancelledIsGone
  <1>7. AcceptedIsKept'
    <2> SUFFICES ASSUME up, NEW j \in accepted \ Withdrawn
                 PROVE  \/ jobs'[Owner[j]][j] # Absent
                        \/ Period[j] = 0 /\ \E e \in executed : e.job = j
      BY DEF AcceptedIsKept, Withdrawn
    <2>1. Owner[j] \in Accounts /\ j \in Jobs
      BY DEF TypeOK
    <2>2. \E e \in executed : e.job = k
      BY DEF DoingWasExecuted, k
    <2> QED
      BY <2>1, <2>2, <1>a, <1>b DEF AcceptedIsKept
  <1>8. OwnersAlone'
    <2>1. \A a \in Accounts : \A j \in Jobs :
            jobs[a][j] = Absent => jobs'[a][j] = Absent
      BY <1>0, <1>b
    <2>2. added \subseteq Jobs /\ UNCHANGED <<added, due, executed, run>>
      BY DEF TypeOK
    <2> QED
      BY <2>1, <2>2 DEF OwnersAlone
  <1> QED
    BY <1>1, <1>2, <1>3, <1>4, <1>5, <1>6, <1>7, <1>8

LEMMA CrashStep == ASSUME IInv, Crash PROVE IInv'
  <1> USE SchedulerAssumption DEF IInv, Crash, EmptyMaps, AllFalse
  <1>0. run \in 0 .. MaxCrashes /\ run + 1 \in 0 .. MaxCrashes
    BY DEF TypeOK
  <1>1. TypeOK'
    <2>1. jobs' \in [Accounts -> [Jobs -> Slot]]
      BY DEF Slot
    <2>2. /\ tick' \in [Accounts -> 0 .. MaxTime] /\ running' \in [Accounts -> BOOLEAN]
          /\ due' \in [Accounts -> SUBSET (Jobs \X Times)]
          /\ doing' \in [Accounts -> (Jobs \X Times) \cup {NONE}]
      <3>1. /\ tick' = [a \in Accounts |-> 0] /\ running' = [a \in Accounts |-> FALSE]
            /\ due' = [a \in Accounts |-> {}] /\ doing' = [a \in Accounts |-> NONE]
        OBVIOUS
      <3>2. 0 \in 0 .. MaxTime
        OBVIOUS
      <3> QED
        BY ONLY <3>1, <3>2
    <2>3. gone' \subseteq accepted
      BY DEF TypeOK
    <2>4. /\ up' = FALSE /\ cancelled' = FALSE /\ run' = run + 1 /\ added' = {} /\ withdrawn' = {}
          /\ UNCHANGED <<now, table, accepted, executed>>
      OBVIOUS
    <2> QED
      BY ONLY TypeOK, <1>0, <2>1, <2>2, <2>3, <2>4 DEF TypeOK
  <1>2. OnlyAccepted'
    BY DEF OnlyAccepted
  <1>3. \A e \in executed : e.run < run'
    BY <1>0 DEF DownIsIdle, TypeOK, Execution
  <1>4. DownIsIdle' /\ TickBound'
    BY <1>0, <1>3 DEF DownIsIdle, TickBound, TypeOK, Execution
  <1>5. ExecutedIsPast'
    BY DEF ExecutedIsPast, TypeOK, Execution
  <1>6. RowKept' /\ DoingWasExecuted' /\ OwnOnce'
    <2>0. gone' = Withdrawn
      <3>1. gone' = gone \cup {w[2] : w \in withdrawn}
        BY ONLY Crash, Zenon DEF Crash
      <3> QED
        BY ONLY <3>1, Zenon DEF Withdrawn
    <2>1. \A x \in Withdrawn : x \in Withdrawn'
      <3>1. \A x \in gone' : x \in Withdrawn'
        BY ONLY DEF Withdrawn
      <3> QED
        BY ONLY <2>0, <3>1
    <2>2. RowKept'
      BY <2>1 DEF RowKept
    <2> QED
      BY <2>2 DEF DoingWasExecuted, OwnOnce
  <1>7. CancelledIsGone'
    <2>1. \A j \in gone' : j \in gone \/ \E w \in withdrawn : j = w[2]
      OBVIOUS
    <2>2. gone' \subseteq Jobs /\ \A a \in Accounts : \A j \in Jobs : jobs'[a][j] = Absent
      BY DEF TypeOK
    <2> QED
      BY <2>1, <2>2 DEF CancelledIsGone
  <1>8. AcceptedIsKept' /\ OwnersAlone'
    BY DEF AcceptedIsKept, OwnersAlone
  <1> QED
    BY <1>1, <1>2, <1>4, <1>5, <1>6, <1>7, <1>8

(* Steps that change neither a map, nor the table, nor a check.             *)
Quiet ==
  \/ \E a \in Accounts : RunReturns(a)
  \/ Stop \/ Tick
  \/ UNCHANGED vars

LEMMA QuietStep == ASSUME IInv, Quiet PROVE IInv'
  <1> USE DEF IInv
  <1>0. /\ UNCHANGED <<up, jobs, table, tick, due, doing, accepted, added, withdrawn,
                       gone, run, executed>>
        /\ now' \in 0 .. MaxTime /\ now <= now'
        /\ cancelled' \in BOOLEAN
        /\ running' \in [Accounts -> BOOLEAN]
        /\ \A a \in Accounts : running'[a] => running[a]
    <2> USE DEF checking, history
    <2>1. ASSUME NEW a \in Accounts, RunReturns(a) PROVE <1>0!:
      <3>1. now \in 0 .. MaxTime /\ now' = now /\ now <= now
        BY <2>1, SchedulerAssumption DEF RunReturns, TypeOK
      <3> QED
        BY <2>1, <3>1 DEF RunReturns, TypeOK
    <2>4. CASE Stop
      BY <2>4, SchedulerAssumption DEF Stop, TypeOK
    <2>2. CASE Tick
      BY <2>2, SchedulerAssumption DEF Tick, TypeOK
    <2>3. CASE UNCHANGED vars
      BY <2>3, SchedulerAssumption DEF vars, TypeOK
    <2> QED
      BY <2>1, <2>2, <2>3, <2>4 DEF Quiet
  <1>1. TypeOK'
    BY <1>0 DEF TypeOK
  <1>2. OnlyAccepted' /\ DownIsIdle'
    BY <1>0 DEF OnlyAccepted, DownIsIdle
  <1>3. TickBound'
    BY <1>0, SchedulerAssumption DEF TickBound, TypeOK
  <1>4. ExecutedIsPast' /\ RowKept' /\ DoingWasExecuted'
    BY <1>0 DEF ExecutedIsPast, RowKept, Withdrawn, DoingWasExecuted
  <1>5. OwnersAlone' /\ OwnOnce' /\ CancelledIsGone' /\ AcceptedIsKept'
    BY <1>0 DEF OwnersAlone, OwnOnce, CancelledIsGone, AcceptedIsKept, Withdrawn
  <1> QED
    BY <1>1, <1>2, <1>3, <1>4, <1>5

LEMMA IInvStep == IInv /\ [Next]_vars => IInv'
  <1> SUFFICES ASSUME IInv, [Next]_vars PROVE IInv'
    OBVIOUS
  <1>1. CASE Boot    BY <1>1, BootStep
  <1>2. CASE Crash   BY <1>2, CrashStep
  <1>3. ASSUME NEW j \in Jobs, AddReminder(j) PROVE IInv'
    BY <1>3, AddStep
  <1>4. ASSUME NEW a \in Accounts, NEW j \in Jobs, CancelReminder(a, j) PROVE IInv'
    BY <1>4, CancelStep
  <1>5. ASSUME NEW a \in Accounts, CollectDue(a) PROVE IInv'
    BY <1>5, CollectStep
  <1>6. ASSUME NEW a \in Accounts, ExecuteJob(a) PROVE IInv'
    BY <1>6, ExecuteStep
  <1>7. ASSUME NEW a \in Accounts, Reschedule(a) PROVE IInv'
    BY <1>7, RescheduleStep
  <1>8. CASE Quiet   BY <1>8, QuietStep
  <1> QED
    BY <1>1, <1>2, <1>3, <1>4, <1>5, <1>6, <1>7, <1>8 DEF Next, Ended, Quiet

LEMMA IInvAlways == Spec => []IInv
  BY InitIInv, IInvStep, PTL DEF Spec

-----------------------------------------------------------------------------
(* Every variable keeps its type.  What is withdrawn was accepted only      *)
(* because the maps hold accepted reminders alone.                          *)
THEOREM TypeCorrect == Spec => []TypeOK
  <1>1. IInv => TypeOK
    BY DEF IInv
  <1> QED
    BY IInvAlways, <1>1, PTL

(* Within a process no scheduler executes a reminder twice for one run      *)
(* time, and no two schedulers one that this process accepted, for any      *)
(* number of accounts, reminders and API calls (scheduler.go:63-68,         *)
(* 146-172).                                                                *)
THEOREM ExecutesOnce == Spec => []OncePerRunTime
  <1>1. IInv => OncePerRunTime
    <2> SUFFICES ASSUME IInv, NEW a \in Accounts, NEW d \in due[a],
                        NEW e \in executed, e.run = run, e.job = d[1], e.due = d[2],
                        e.account = a \/ d[1] \in added
                 PROVE  FALSE
      BY DEF OncePerRunTime
    <2>1. e.account = a
      BY DEF IInv, OwnersAlone
    <2>2. e = [run |-> run, account |-> a, job |-> d[1], due |-> d[2]]
      BY <2>1 DEF IInv, TypeOK, Execution
    <2> QED
      BY <2>2 DEF IInv, OwnOnce
  <1> QED
    BY IInvAlways, <1>1, PTL

(* A cancelled reminder has no row, never returns to the map it was         *)
(* cancelled in, and is in no map once the process has started again, or at *)
(* once if this process accepted it (scheduler.go:63-68, 106-117).          *)
THEOREM CancelIsFinal == Spec => []CancelledIsGone
  <1>1. IInv => CancelledIsGone
    BY DEF IInv
  <1> QED
    BY IInvAlways, <1>1, PTL

(* An accepted reminder stays scheduled until it is cancelled or, without   *)
(* recurrence, executed, over any number of restarts (scheduler.go:54-67).  *)
THEOREM AcceptedStays == Spec => []AcceptedIsKept
  <1>1. IInv => AcceptedIsKept
    BY DEF IInv
  <1> QED
    BY IInvAlways, <1>1, PTL

-----------------------------------------------------------------------------
(* The schedules: what parseCronExpression finds.                           *)

(* Induction on the numbers, by counting a finite set of counterexamples.   *)
LEMMA SetInduction ==
  ASSUME NEW T, 0 \in T, \A n \in Nat : n \in T => n + 1 \in T
  PROVE  Nat \subseteq T
  <1> SUFFICES ASSUME NEW x \in Nat, x \notin T PROVE FALSE
    OBVIOUS
  <1> DEFINE U == {y \in 0 .. x : y \notin T}
             f == [y \in U |-> y - 1]
  <1>1. \A y \in U : y - 1 \in U \ {x}
    <2> TAKE y \in U
    <2>1. y \in Nat /\ y <= x /\ y \notin T /\ y # 0
      OBVIOUS
    <2>2. y - 1 \in Nat /\ (y - 1) + 1 = y
      BY <2>1
    <2>3. y - 1 \notin T
      BY <2>1, <2>2
    <2> QED
      BY <2>1, <2>2, <2>3
  <1>2. \A a, b \in U : f[a] = f[b] => a = b
    OBVIOUS
  <1>3. f \in Injection(U, U \ {x})
    BY <1>1, <1>2 DEF Injection, IsInjective
  <1>4. IsFiniteSet(U) /\ x \in U
    <2>1. IsFiniteSet(0 .. x)
      BY FS_Interval
    <2> QED
      BY <2>1, FS_Subset
  <1> HIDE DEF U, f
  <1>5. IsFiniteSet(U \ {x}) /\ Cardinality(U \ {x}) = Cardinality(U) - 1
    BY <1>4, FS_RemoveElement
  <1>6. Cardinality(U) <= Cardinality(U \ {x})
    BY <1>3, <1>5, FS_Injection
  <1>7. Cardinality(U) \in Nat
    BY <1>4, FS_CardinalityType
  <1> QED
    BY <1>5, <1>6, <1>7

(* A set of numbers with a member has a least one.                          *)
LEMMA LeastOf ==
  ASSUME NEW S, S \subseteq Nat, S # {}
  PROVE  Min(S) \in S /\ \A y \in S : Min(S) <= y
  <1> DEFINE T == {n \in Nat : \A y \in S : n <= y}
  <1>1. SUFFICES \E x \in S : \A y \in S : x <= y
    BY DEF Min
  <1>2. SUFFICES ASSUME \A x \in S : \E y \in S : y < x PROVE FALSE
    <2>1. \A x, y \in S : ~(x <= y) => y < x
      OBVIOUS
    <2> QED
      BY <2>1
  <1>3. 0 \in T
    OBVIOUS
  <1>4. ASSUME NEW n \in Nat, n \in T PROVE n + 1 \in T
    <2>1. n \notin S
      BY <1>2, <1>4
    <2>2. \A y \in S : n <= y /\ n # y /\ y \in Nat
      BY <1>4, <2>1
    <2>3. \A y \in S : n + 1 <= y
      BY <2>2
    <2> QED
      BY <2>3
  <1>5. Nat \subseteq T
    <2> HIDE DEF T
    <2> QED
      BY <1>3, <1>4, SetInduction
  <1>6. PICK x \in S : TRUE
    OBVIOUS
  <1>7. x + 1 \in T /\ x \in Nat
    BY <1>5, <1>6
  <1> QED
    BY <1>6, <1>7

(* The minute after the one that holds a time begins after that time.       *)
LEMMA NextMinute ==
  ASSUME NEW m \in Nat \ {0}, NEW t \in Nat
  PROVE  t \div m \in Nat /\ t < (t \div m + 1) * m
  <1>1. t = m * (t \div m) + (t % m)
    OBVIOUS
  <1>2. t % m \in 0 .. m - 1
    OBVIOUS
  <1>3. t \div m \in Int
    OBVIOUS
  <1> DEFINE q == t \div m
             r == t % m
  <1> HIDE DEF q, r
  <1>4. t = m * q + r /\ r \in 0 .. m - 1 /\ q \in Int
    BY <1>1, <1>2, <1>3 DEF q, r
  <1>5. t < (q + 1) * m
    BY <1>4
  <1>6. q \in Nat
    <2>1. ASSUME q < 0 PROVE FALSE
      <3>1. q + 1 <= 0
        BY <1>4, <2>1
      <3> QED
        BY <1>4, <1>5, <3>1
    <2> QED
      BY <1>4, <2>1
  <1> QED
    BY <1>5, <1>6 DEF q

(* The minute of a later number begins no earlier.                          *)
LEMMA MinuteOrder ==
  ASSUME NEW m \in Nat, NEW a \in Nat, NEW b \in Nat, a <= b
  PROVE  a * m <= b * m
  OBVIOUS

(* What a value of a field is: docs/en/api.md:491-503 says it as a count,   *)
(* expandField (cron.go:66-126) as a set.                                   *)
Parts == [kind : {"all", "range", "bad"}, from : Int, to : Int, step : Nat]

Counted(p, v, lo) ==
  LET n == IF p.step = 0 THEN 1 ELSE p.step
  IN \E k \in Nat : IF p.kind = "all" THEN v = lo + k * n
                                     ELSE v = p.from + k * n /\ v <= p.to
Names(f, v, lo) ==
  /\ \A i \in DOMAIN f : f[i].kind # "bad"
  /\ \E i \in DOMAIN f : Counted(f[i], v, lo)

LEMMA Multiple ==
  ASSUME NEW n \in Nat \ {0}, NEW k \in Nat PROVE (k * n) % n = 0
  <1> DEFINE d == k * n
             q == d \div n
             r == d % n
  <1>1. d \in Nat
    OBVIOUS
  <1> HIDE DEF d
  <1>2. d = n * q + r
    BY <1>1
  <1>3. r \in 0 .. n - 1
    BY <1>1
  <1>4. q \in Int
    BY <1>1
  <1> HIDE DEF q, r
  <1> DEFINE e == k - q
  <1>5. n * e = r /\ e \in Int
    BY <1>2, <1>3, <1>4 DEF d
  <1> HIDE DEF e
  <1>6. ~(e >= 1)
    <2> SUFFICES ASSUME e >= 1 PROVE FALSE
      OBVIOUS
    <2>1. n * e >= n
      BY <1>5
    <2> QED
      BY <1>3, <1>5, <2>1
  <1>7. ~(e <= -1)
    <2> SUFFICES ASSUME e <= -1 PROVE FALSE
      OBVIOUS
    <2>1. n * e <= -n
      BY <1>5
    <2> QED
      BY <1>3, <1>5, <2>1
  <1>8. e = 0
    BY <1>5, <1>6, <1>7
  <1> QED
    BY <1>5, <1>8 DEF d, r

LEMMA CountsUp ==
  ASSUME NEW n \in Nat \ {0}, NEW a \in Int, NEW v \in Nat
  PROVE  a <= v /\ (v - a) % n = 0 <=> \E k \in Nat : v = a + k * n
  <1>1. ASSUME a <= v, (v - a) % n = 0 PROVE \E k \in Nat : v = a + k * n
    <2> DEFINE d == v - a
               q == d \div n
    <2>1. d \in Nat
      BY <1>1
    <2> HIDE DEF d
    <2>2. d = n * q + (d % n)
      BY <2>1
    <2>3. q \in Nat
      BY <2>1, NextMinute
    <2> HIDE DEF q
    <2>4. d = q * n
      BY <1>1, <2>2, <2>3 DEF d
    <2> QED
      BY <2>3, <2>4 DEF d
  <1>2. ASSUME NEW k \in Nat, v = a + k * n PROVE a <= v /\ (v - a) % n = 0
    <2>1. k * n \in Nat
      OBVIOUS
    <2>2. v - a = k * n
      BY <1>2, <2>1
    <2> QED
      BY <1>2, <2>1, <2>2, Multiple
  <1> QED
    BY <1>1, <1>2

LEMMA FieldMeaning ==
  ASSUME NEW f \in Seq(Parts), NEW lo \in Nat, NEW hi \in Nat, NEW v \in lo .. hi
  PROVE  v \in ExpandField(f, lo, hi) <=> Names(f, v, lo)
  <1>1. ASSUME NEW i \in DOMAIN f, f[i].kind # "bad"
        PROVE  v \in Part(f[i], lo, hi) <=> Counted(f[i], v, lo)
    <2> DEFINE p == f[i]
               n == IF p.step = 0 THEN 1 ELSE p.step
    <2>1. p \in Parts
      OBVIOUS
    <2> HIDE DEF p
    <2>2. n \in Nat \ {0} /\ p.from \in Int /\ p.to \in Int /\ v \in Nat /\ v <= hi
      BY <2>1 DEF Parts
    <2> HIDE DEF n
    <2>3. CASE p.kind = "all"
      <3>1. v \in Part(p, lo, hi) <=> lo <= v /\ (v - lo) % n = 0
        BY <2>2, <2>3 DEF Part, n
      <3>2. Counted(p, v, lo) <=> \E k \in Nat : v = lo + k * n
        BY <2>3 DEF Counted, n
      <3>3. lo \in Int
        OBVIOUS
      <3>4. lo <= v /\ (v - lo) % n = 0 <=> \E k \in Nat : v = lo + k * n
        BY <2>2, <3>3, CountsUp
      <3> QED
        BY <3>1, <3>2, <3>4 DEF p
    <2>4. CASE p.kind # "all"
      <3>1. v \in Part(p, lo, hi) <=> v <= p.to /\ p.from <= v /\ (v - p.from) % n = 0
        BY <2>2, <2>4 DEF Part, n
      <3>2. Counted(p, v, lo) <=> v <= p.to /\ \E k \in Nat : v = p.from + k * n
        BY <2>4 DEF Counted, n
      <3>3. p.from <= v /\ (v - p.from) % n = 0 <=> \E k \in Nat : v = p.from + k * n
        BY <2>2, CountsUp
      <3> QED
        BY <3>1, <3>2, <3>3 DEF p
    <2> QED
      BY <2>3, <2>4
  <1> QED
    BY <1>1 DEF ExpandField, Names

(* A schedule of typed fields, and a calendar whose day of the minute m is  *)
(* a day.                                                                   *)
Schedules ==
  [fields : Nat, minute : Seq(Parts), hour : Seq(Parts), day : Seq(Parts),
   month : Seq(Parts), week : Seq(Parts)]
ClockIsTyped ==
  /\ MinutesPerHour \in Nat \ {0} /\ HoursPerDay \in Nat \ {0}
  /\ DaysPerWeek \in Nat /\ DaysPerMonth \in Nat /\ MonthsPerYear \in Nat
DayOf(m) == Calendar[m \div (MinutesPerHour * HoursPerDay) + 1]
DayIsTyped(m) ==
  /\ DayOf(m).month \in 1 .. MonthsPerYear
  /\ DayOf(m).day \in 1 .. DaysPerMonth
  /\ DayOf(m).weekday \in 0 .. DaysPerWeek - 1

(* What the documentation says a schedule means: every field names its      *)
(* value, but of two restricted day fields one is enough.                   *)
DueAt(s, m) ==
  LET day == Names(s.day, DayOf(m).day, 1)
      week == Names(s.week, DayOf(m).weekday, 0)
  IN /\ Names(s.minute, m % MinutesPerHour, 0)
     /\ Names(s.hour, (m \div MinutesPerHour) % HoursPerDay, 0)
     /\ Names(s.month, DayOf(m).month, 1)
     /\ (day /\ week) \/ (Star \notin {s.day, s.week} /\ (day \/ week))

LEMMA Remainder ==
  ASSUME NEW n \in Nat \ {0}, NEW t \in Nat PROVE t % n \in 0 .. n - 1
  OBVIOUS

(* A star names every value not below the field's least.                    *)
LEMMA StarNamesAll ==
  ASSUME NEW lo \in Nat, NEW v \in Nat, lo <= v PROVE Names(Star, v, lo)
  <1>1. Star[1].kind = "all" /\ Star[1].step = 0 /\ DOMAIN Star = {1}
    BY DEF Star
  <1>2. v - lo \in Nat /\ v = lo + (v - lo) * 1
    OBVIOUS
  <1>3. Counted(Star[1], v, lo)
    BY <1>1, <1>2 DEF Counted
  <1> QED
    BY <1>1, <1>3 DEF Names

(* internal/proactive/cron.go:29-57, docs/en/api.md:491-503: at whatever    *)
(* minute it tries, parseCronExpression matches a schedule exactly when it  *)
(* is due by the meaning of its fields, also with two day fields.           *)
THEOREM MatchMeansDue ==
  ASSUME ClockIsTyped, NEW s \in Schedules, NEW m \in Nat, DayIsTyped(m)
  PROVE  Matches(Expand(s), m) <=> DueAt(s, m)
  <1> DEFINE d == DayOf(m)
             x == Expand(s)
             min == m % MinutesPerHour
             hour == (m \div MinutesPerHour) % HoursPerDay
  <1>1. min \in 0 .. MinutesPerHour - 1
    BY Remainder DEF ClockIsTyped
  <1>2. hour \in 0 .. HoursPerDay - 1
    BY NextMinute, Remainder DEF ClockIsTyped
  <1>3. d.month \in 1 .. MonthsPerYear /\ d.day \in 1 .. DaysPerMonth
        /\ d.weekday \in 0 .. DaysPerWeek - 1
    BY DEF DayIsTyped
  <1> HIDE DEF d, min, hour
  <1>4. /\ MinutesPerHour - 1 \in Nat /\ HoursPerDay - 1 \in Nat
        /\ DaysPerMonth \in Nat /\ MonthsPerYear \in Nat
        /\ DaysPerWeek - 1 \in Nat
    BY <1>3 DEF ClockIsTyped
  <1>5. min \in x.minute <=> Names(s.minute, min, 0)
    BY <1>1, <1>4, FieldMeaning DEF Expand, Schedules
  <1>6. hour \in x.hour <=> Names(s.hour, hour, 0)
    BY <1>2, <1>4, FieldMeaning DEF Expand, Schedules
  <1>7. d.month \in x.month <=> Names(s.month, d.month, 1)
    BY <1>3, <1>4, FieldMeaning DEF Expand, Schedules
  <1>8. d.day \in x.day <=> Names(s.day, d.day, 1)
    BY <1>3, <1>4, FieldMeaning DEF Expand, Schedules
  <1>9. d.weekday \in x.week <=> Names(s.week, d.weekday, 0)
    BY <1>3, <1>4, FieldMeaning DEF Expand, Schedules
  <1>10. x.anyDay <=> s.day = Star
    BY DEF Expand
  <1>11. x.anyWeek <=> s.week = Star
    BY DEF Expand
  <1>12. s.day = Star => Names(s.day, d.day, 1)
    BY <1>3, StarNamesAll DEF ClockIsTyped
  <1>13. s.week = Star => Names(s.week, d.weekday, 0)
    BY <1>3, StarNamesAll DEF ClockIsTyped
  <1> HIDE DEF x
  <1>14. DayMatches(x, d) <=>
           LET day == Names(s.day, d.day, 1)
               week == Names(s.week, d.weekday, 0)
           IN (day /\ week) \/ (Star \notin {s.day, s.week} /\ (day \/ week))
    BY <1>8, <1>9, <1>10, <1>11, <1>12, <1>13 DEF DayMatches
  <1>15. Matches(x, m) <=> min \in x.minute /\ hour \in x.hour
                            /\ d.month \in x.month /\ DayMatches(x, d)
    BY DEF Matches, d, DayOf, min, hour
  <1>16. DueAt(s, m) <=>
           /\ Names(s.minute, min, 0) /\ Names(s.hour, hour, 0)
           /\ Names(s.month, d.month, 1)
           /\ LET day == Names(s.day, d.day, 1)
                  week == Names(s.week, d.weekday, 0)
              IN (day /\ week) \/ (Star \notin {s.day, s.week} /\ (day \/ week))
    BY DEF DueAt, d, min, hour
  <1> QED
    BY <1>5, <1>6, <1>7, <1>14, <1>15, <1>16 DEF x

(* The minutes parseCronExpression tries, those of them that match, and     *)
(* the schedules it is asked about: of the clock it needs no more than that *)
(* a minute is not empty.                                                   *)
Tried(after) == (after \div Minute + 1) .. (after \div Minute + Horizon)
Found(s, after) == {m \in Tried(after) : Matches(Expand(s), m)}

LEMMA FoundFacts ==
  ASSUME Minute \in Nat \ {0}, Horizon \in Nat, NEW s, NEW after \in Nat
  PROVE  /\ Found(s, after) \subseteq Nat
         /\ \A m \in Found(s, after) : after < m * Minute
         /\ ParseCronExpression(s, after) =
              IF s.fields = 5 /\ Found(s, after) # {}
              THEN Min(Found(s, after)) * Minute ELSE after + Minute
  <1> DEFINE q == after \div Minute
  <1>1. q \in Nat /\ after < (q + 1) * Minute
    BY NextMinute
  <1> HIDE DEF q
  <1>2. q + 1 + Horizon - 1 = q + Horizon
    BY <1>1
  <1>3. Tried(after) \subseteq Nat /\ \A m \in Tried(after) : q + 1 <= m
    BY <1>1 DEF Tried, q
  <1>4. \A m \in Tried(after) : after < m * Minute
    <2> TAKE m \in Tried(after)
    <2>1. (q + 1) * Minute <= m * Minute /\ m * Minute \in Nat /\ (q + 1) * Minute \in Nat
      BY <1>1, <1>3, MinuteOrder
    <2> QED
      BY <1>1, <2>1
  <1>5. Found(s, after) = {m \in q + 1 .. q + 1 + Horizon - 1 : Matches(Expand(s), m)}
    BY <1>1, <1>2 DEF Found, Tried, q
  <1> QED
    BY <1>3, <1>4, <1>5 DEF Found, ParseCronExpression, q

(* internal/proactive/cron.go:14-65: the next run lies ahead of the time it *)
(* is computed from, so a reminder that was just rescheduled is not due     *)
(* again at the time it ran; of the minutes parseCronExpression tries it is *)
(* the first that matches, and one minute later when none does.             *)
THEOREM NextRunIsFirstMatch ==
  ASSUME Minute \in Nat \ {0}, Horizon \in Nat, NEW s, NEW after \in Nat
  PROVE  LET next == ParseCronExpression(s, after)
             found == Found(s, after)
         IN /\ next \in Nat /\ next > after
            /\ s.fields = 5 /\ found # {} =>
                 \E m \in found : next = m * Minute /\ \A k \in found : m <= k
            /\ s.fields # 5 \/ found = {} => next = after + Minute
  <1> DEFINE next == ParseCronExpression(s, after)
             found == Found(s, after)
  <1>1. CASE s.fields = 5 /\ found # {}
    <2>1. Min(found) \in found /\ \A k \in found : Min(found) <= k
      BY <1>1, FoundFacts, LeastOf
    <2>2. next = Min(found) * Minute /\ Min(found) \in Nat /\ after < Min(found) * Minute
      BY <1>1, <2>1, FoundFacts
    <2>3. next \in Nat
      BY <2>2
    <2> QED
      BY <1>1, <2>1, <2>2, <2>3
  <1>2. CASE ~(s.fields = 5 /\ found # {})
    <2>1. next = after + Minute
      BY <1>2, FoundFacts
    <2> QED
      BY <1>2, <2>1
  <1> QED
    BY <1>1, <1>2

(* The same in the words of the documentation: a cron schedule that is due  *)
(* at some of the minutes tried runs next at the first of them              *)
(* (internal/proactive/cron.go:17-65, docs/en/api.md:491-503).              *)
THEOREM RunsWhenFirstDue ==
  ASSUME Minute \in Nat \ {0}, Horizon \in Nat, ClockIsTyped,
         NEW s \in Schedules, s.fields = 5, NEW after \in Nat,
         \A k \in Tried(after) : DayIsTyped(k),
         NEW due1 \in Tried(after), DueAt(s, due1)
  PROVE  \E m \in Tried(after) :
           /\ ParseCronExpression(s, after) = m * Minute
           /\ DueAt(s, m)
           /\ \A k \in Tried(after) : k < m => ~DueAt(s, k)
  <1>1. Tried(after) \subseteq Nat
    <2>1. after \div Minute \in Nat
      BY NextMinute
    <2> QED
      BY <2>1 DEF Tried
  <1>2. \A k \in Tried(after) : Matches(Expand(s), k) <=> DueAt(s, k)
    BY <1>1, MatchMeansDue
  <1>3. due1 \in Found(s, after)
    BY <1>2 DEF Found
  <1>4. PICK m \in Found(s, after) :
          /\ ParseCronExpression(s, after) = m * Minute
          /\ \A k \in Found(s, after) : m <= k
    BY <1>3, NextRunIsFirstMatch
  <1>5. m \in Tried(after) /\ DueAt(s, m)
    BY <1>2, <1>4 DEF Found
  <1>6. ASSUME NEW k \in Tried(after), k < m PROVE ~DueAt(s, k)
    <2>1. k \notin Found(s, after)
      BY <1>1, <1>4, <1>5, <1>6
    <2> QED
      BY <1>2, <2>1 DEF Found
  <1> QED
    BY <1>4, <1>5, <1>6

(* internal/proactive/scheduler.go:190-213: a schedule has no next run, or  *)
(* one that lies ahead, unless it is "@every" with a duration that is not   *)
(* positive.  It is what Scheduler, and with it the theorems above, takes   *)
(* of a recurrence: that Period is 0 or moves the next run on.              *)
THEOREM ScheduleLiesAhead ==
  ASSUME Minute \in Nat \ {0}, Horizon \in Nat, NEW s, NEW after \in Nat,
         s.kind \in {"none", "bad", "every", "cron"},
         s.kind = "every" => s.every \in Nat \ {0}
  PROVE  LET next == CalculateNextRun(s, after)
         IN next = None \/ (next \in Nat /\ next > after)
  <1>1. CASE s.kind = "cron"
    <2>1. ParseCronExpression(s.cron, after) \in Nat
          /\ ParseCronExpression(s.cron, after) > after
      BY NextRunIsFirstMatch
    <2> QED
      BY <1>1, <2>1 DEF CalculateNextRun
  <1>2. CASE s.kind = "every"
    BY <1>2 DEF CalculateNextRun
  <1>3. CASE s.kind \in {"none", "bad"}
    BY <1>3 DEF CalculateNextRun
  <1> QED
    BY <1>1, <1>2, <1>3

=============================================================================

--------------------------- MODULE ChannelProcess ---------------------------
(***************************************************************************)
(* Processes of `qqbot channel` over one data directory: RunChannel of     *)
(* internal/qqbot/channel.go with the PID file of internal/qqbot/lock.go   *)
(* and store.Open with the migration of internal/store/migrate.go.         *)
(*                                                                         *)
(* A process is its PID, which the system gives out again once the process *)
(* is dead.  SIGTERM kills a process that has not yet asked for it to be   *)
(* delivered (NotifyContext), or no longer does.  Each of the three legacy *)
(* sources is one file and one row.  An import that fails only warns.      *)
(***************************************************************************)
EXTENDS Integers, FiniteSets

CONSTANTS
  PIDs,
  MaxStarting,     \* bound: processes that are starting together
  NONE

ASSUME ChannelAssumption ==
  /\ IsFiniteSet(PIDs)
  /\ NONE \notin PIDs \cup {"legacy", "newer"}
  /\ MaxStarting \in Nat \ {0}

Sources == {"users", "refs", "sessions"}

VARIABLES
  file,            \* the PID in channel.pid, or NONE
  pc,
  holder,          \* the PID Acquire has read, while it looks at it
  legacy,          \* each legacy file, "json" or renamed to "bak"
  row              \* each committed row: NONE, "legacy" or "newer"

vars == <<file, pc, holder, legacy, row>>

Acquiring == {"reading", "checking", "waiting", "writing"}
Opening == {"opened", "users", "users.bak", "refs", "refs.bak", "sessions", "commit"}
Owning == Opening \cup {"starting", "running", "stopping"}

TypeOK ==
  /\ file \in PIDs \cup {NONE}
  /\ pc \in [PIDs -> {"dead"} \cup Acquiring \cup Owning]
  /\ holder \in [PIDs -> PIDs \cup {NONE}]
  /\ \A p \in PIDs : holder[p] \in PIDs <=> pc[p] \in {"checking", "waiting"}
  /\ legacy \in [Sources -> {"json", "bak"}]
  /\ row \in [Sources -> {NONE, "legacy", "newer"}]

(* A data directory of the version before the database.                     *)
Init ==
  /\ file = NONE
  /\ pc = [p \in PIDs |-> "dead"]
  /\ holder = [p \in PIDs |-> NONE]
  /\ legacy = [k \in Sources |-> "json"]
  /\ row = [k \in Sources |-> NONE]

Alive(p) == pc[p] # "dead"
Goto(p, s) == pc' = [pc EXCEPT ![p] = s]
Forget(p) == holder' = [holder EXCEPT ![p] = NONE]
data == <<legacy, row>>

-----------------------------------------------------------------------------
Launch(p) ==
  /\ ~Alive(p)
  /\ Cardinality({q \in PIDs : pc[q] \in Acquiring}) < MaxStarting
  /\ Goto(p, "reading")
  /\ UNCHANGED <<file, holder, data>>

\* Mutant: a missing file is taken for a process to wait for.
ReadNothing(p) ==
  /\ pc[p] = "reading"
  /\ holder' = [holder EXCEPT ![p] = file]
  /\ Goto(p, "checking")
  /\ UNCHANGED <<file, data>>

ReadPID(p) ==
  /\ pc[p] = "reading"
  /\ holder' = [holder EXCEPT ![p] = file]
  /\ Goto(p, IF file = NONE THEN "writing" ELSE "checking")
  /\ UNCHANGED <<file, data>>

(* What SIGTERM does to h: a running process is told to stop, a starting    *)
(* one has its context cancelled and does not look at it, one that stops    *)
(* may ignore it, any other dies.                                           *)
SIGTERM(h) ==
  CASE pc[h] = "running" -> {"running", "stopping"}
    [] pc[h] = "starting" -> {"starting"}
    [] pc[h] = "stopping" -> {"stopping", "dead"}
    [] OTHER -> {"dead"}

(* holderAlive and the signal of takeover.  A process that finds its own    *)
(* PID, left behind by an earlier one, sends SIGTERM to itself.             *)
TakeOver(p) ==
  LET h == holder[p] IN
  /\ pc[p] = "checking" /\ Alive(h)
  /\ \E s \in SIGTERM(h) :
       pc' = IF h = p THEN [pc EXCEPT ![p] = "dead"]
                      ELSE [pc EXCEPT ![p] = "waiting", ![h] = s]
  /\ holder' = [q \in PIDs |-> IF pc'[q] = "dead" THEN NONE ELSE holder[q]]
  /\ UNCHANGED <<file, data>>

CleanStale(p) ==
  /\ pc[p] = "checking" /\ ~Alive(holder[p])
  /\ file' = NONE
  /\ Goto(p, "writing")
  /\ Forget(p) /\ UNCHANGED data

\* Mutant: the wait ends as soon as the signal is sent.
PollOnce(p) ==
  /\ pc[p] = "waiting"
  /\ file' = NONE
  /\ Goto(p, "reading")
  /\ Forget(p) /\ UNCHANGED data

(* The ticker of takeover: the file is gone, or its process is.             *)
Poll(p) ==
  /\ pc[p] = "waiting"
  /\ \/ file = NONE /\ UNCHANGED file
     \/ file # NONE /\ ~Alive(holder[p]) /\ file' = NONE
  /\ Goto(p, "reading")
  /\ Forget(p) /\ UNCHANGED data

\* Mutant: a takeover that times out waits again.
WaitAgain(p) == pc[p] = "waiting" /\ UNCHANGED vars

(* The deadline of takeover: RunChannel returns, before the deferred        *)
(* Release.                                                                 *)
Timeout(p) ==
  /\ pc[p] = "waiting"
  /\ Goto(p, "dead")
  /\ Forget(p) /\ UNCHANGED <<file, data>>

WritePID(p) ==
  /\ pc[p] = "writing"
  /\ file' = p
  /\ Goto(p, "opened")
  /\ UNCHANGED <<holder, data>>

-----------------------------------------------------------------------------
(* The configuration is bad, or the database cannot be opened.              *)
OpenFails(p) ==
  /\ pc[p] = "opened"
  /\ Goto(p, "stopping")
  /\ UNCHANGED <<file, holder, data>>

OpenDB(p) ==
  /\ pc[p] = "opened"
  /\ Goto(p, "users")
  /\ UNCHANGED <<file, holder, data>>

After(k) == IF k = "users" THEN "refs" ELSE "sessions"
Renaming(k) == IF k = "users" THEN "users.bak" ELSE "refs.bak"

\* Mutant: an error of the commit is not looked at.
CommitUnchecked(p, k) ==
  /\ pc[p] = k
  /\ \/ legacy[k] = "json" /\ UNCHANGED row /\ Goto(p, Renaming(k))
     \/ Goto(p, After(k)) /\ UNCHANGED row
  /\ UNCHANGED <<file, holder, legacy>>

(* migrateKnownUsers (INSERT OR IGNORE) and migrateRefIndex (INSERT OR      *)
(* REPLACE) up to the commit: done, or nothing to do, or failed.            *)
CommitRows(p, k) ==
  /\ pc[p] = k
  /\ \/ /\ legacy[k] = "json"
        /\ row' = [row EXCEPT ![k] = IF k = "users" /\ @ # NONE THEN @ ELSE "legacy"]
        /\ Goto(p, Renaming(k))
     \/ Goto(p, After(k)) /\ UNCHANGED row
  /\ UNCHANGED <<file, holder, legacy>>

(* renameToBak, which may fail.                                             *)
Rename(p, k) ==
  /\ pc[p] = Renaming(k)
  /\ legacy' \in {legacy, [legacy EXCEPT ![k] = "bak"]}
  /\ Goto(p, After(k))
  /\ UNCHANGED <<file, holder, row>>

(* migrateSessions: inserted into the transaction and renamed, and then     *)
(* committed, which may fail.                                               *)
InsertSessions(p) ==
  /\ pc[p] = "sessions"
  /\ \/ /\ legacy["sessions"] = "json"
        /\ legacy' \in {legacy, [legacy EXCEPT !["sessions"] = "bak"]}
        /\ Goto(p, "commit")
     \/ Goto(p, "starting") /\ UNCHANGED legacy
  /\ UNCHANGED <<file, holder, row>>

CommitSessions(p) ==
  /\ pc[p] = "commit"
  /\ row' \in {row, [row EXCEPT !["sessions"] = "legacy"]}
  /\ Goto(p, "starting")
  /\ UNCHANGED <<file, holder, legacy>>

-----------------------------------------------------------------------------
(* NotifyContext, mgr.Start and ServeStdio.                                 *)
Start(p) ==
  /\ pc[p] = "starting"
  /\ Goto(p, "running")
  /\ UNCHANGED <<file, holder, data>>

(* The event handlers and the gateway write their rows; nothing writes the  *)
(* reference index.                                                         *)
Work(p) ==
  /\ pc[p] = "running"
  /\ \E k \in {"users", "sessions"} : row' = [row EXCEPT ![k] = "newer"]
  /\ UNCHANGED <<file, pc, holder, legacy>>

(* ServeStdio returns at the end of its input or on a signal; then cancel,  *)
(* mgr.Stop and Release, in the order of the defers.                        *)
ServeReturns(p) ==
  /\ pc[p] = "running"
  /\ Goto(p, "stopping")
  /\ UNCHANGED <<file, holder, data>>

Release(p) ==
  /\ pc[p] = "stopping"
  /\ file' = NONE
  /\ Goto(p, "dead")
  /\ UNCHANGED <<holder, data>>

Kill(p) ==
  /\ Alive(p)
  /\ Goto(p, "dead")
  /\ Forget(p) /\ UNCHANGED <<file, data>>

Acquire(p) ==
  ReadPID(p) \/ TakeOver(p) \/ CleanStale(p) \/ Poll(p) \/ Timeout(p) \/ WritePID(p)
Open(p) ==
  \/ OpenFails(p) \/ OpenDB(p) \/ InsertSessions(p) \/ CommitSessions(p)
  \/ \E k \in {"users", "refs"} : CommitRows(p, k) \/ Rename(p, k)

Next ==
  \E p \in PIDs :
    \/ Launch(p) \/ Acquire(p) \/ Open(p) \/ Start(p) \/ Work(p)
    \/ ServeReturns(p) \/ Release(p) \/ Kill(p)

Spec == Init /\ [][Next]_vars
(* A process that starts runs on, and the deadline of takeover comes.       *)
FairSpec == Spec /\ \A p \in PIDs : WF_vars(Acquire(p) \/ Open(p) \/ Start(p) \/ Release(p))

-----------------------------------------------------------------------------
(* With one process starting at a time, the process that uses the data      *)
(* directory is named in the PID file, whatever died or was killed before:  *)
(* so there is one, and the next start finds it.                            *)
HolderIsNamed == \A p \in PIDs : pc[p] \in Owning => file = p

(* Every start comes to an end: the channel serves, or the process is gone. *)
(* No chain of takeovers and stale files keeps it in Acquire or Open.       *)
StartSettles == \A p \in PIDs : pc[p] = "reading" ~> pc[p] \in {"running", "dead"}

(* Whatever process dies in the middle of a migration, and whatever rename  *)
(* fails: known users and references are in their file or in the database,  *)
(* and a user row the program has written is never taken back to what the   *)
(* old file says, though a file that kept its name is imported again.       *)
MigrationKeeps ==
  [][/\ \A k \in {"users", "refs"} : legacy'[k] = "json" \/ row'[k] # NONE
     /\ row["users"] = "newer" => row'["users"] = "newer"]_vars

(* internal/qqbot/lock.go:12: only one channel instance runs.  Broken when   *)
(* two processes start together, since reading the file and writing it are  *)
(* two steps.                                                               *)
OneInstance == \A p, q \in PIDs : pc[p] = "running" /\ pc[q] = "running" => p = q
=============================================================================

------------------------- MODULE ChannelProcessProofs -------------------------
(***************************************************************************)
(* Theorems about ChannelProcess for any number of processes, deaths and   *)
(* restarts.                                                               *)
(***************************************************************************)
EXTENDS ChannelProcess, FiniteSetTheorems, TLAPS

LEMMA InitTypeOK == Init => TypeOK
  BY ChannelAssumption DEF Init, TypeOK, Sources

(* A process that TakeOver moves dies, or waits for the holder it has       *)
(* signalled, or is that holder on its way through a start or a stop.       *)
LEMMA TakeOverEffect ==
  ASSUME TypeOK, NEW p \in PIDs, TakeOver(p)
  PROVE  /\ holder[p] \in PIDs /\ pc[p] = "checking" /\ Alive(holder[p])
         /\ pc'[p] \in {"waiting", "dead"}
         /\ \A q \in PIDs :
              \/ pc'[q] \in {pc[q], "dead"}
              \/ q = p /\ pc'[q] = "waiting"
              \/ /\ pc[q] \in {"running", "stopping"}
                 /\ pc'[q] \in {"running", "stopping"}
         /\ holder' = [q \in PIDs |-> IF pc'[q] = "dead" THEN NONE ELSE holder[q]]
         /\ pc' = [q \in PIDs |-> pc'[q]]
         /\ UNCHANGED <<file, legacy, row>>
  <1> DEFINE h == holder[p]
  <1>1. h \in PIDs /\ pc[p] = "checking" /\ pc \in [PIDs -> {"dead"} \cup Acquiring \cup Owning]
    BY DEF TakeOver, TypeOK
  <1>2. PICK s \in SIGTERM(h) :
          pc' = IF h = p THEN [pc EXCEPT ![p] = "dead"]
                ELSE [pc EXCEPT ![p] = "waiting", ![h] = s]
    BY DEF TakeOver
  <1>3. \/ s \in {pc[h], "dead"}
        \/ pc[h] \in {"running", "stopping"} /\ s \in {"running", "stopping"}
    BY DEF SIGTERM
  <1> QED
    BY <1>1, <1>2, <1>3 DEF TakeOver, data

(* Type correctness of the steps: a process remembers a holder exactly      *)
(* while it looks at one.                                                   *)
LEMMA TypeStep ==
  ASSUME TypeOK, [Next]_vars
  PROVE  TypeOK'
  <1> USE ChannelAssumption DEF TypeOK, Acquiring, Owning, Opening, Sources
  <1>1. ASSUME NEW p \in PIDs, TakeOver(p) PROVE TypeOK'
    <2>1. /\ holder[p] \in PIDs /\ pc[p] = "checking" /\ Alive(holder[p])
          /\ pc'[p] \in {"waiting", "dead"}
          /\ \A q \in PIDs :
               \/ pc'[q] \in {pc[q], "dead"}
               \/ q = p /\ pc'[q] = "waiting"
               \/ /\ pc[q] \in {"running", "stopping"}
                  /\ pc'[q] \in {"running", "stopping"}
          /\ holder' = [q \in PIDs |-> IF pc'[q] = "dead" THEN NONE ELSE holder[q]]
          /\ pc' = [q \in PIDs |-> pc'[q]]
          /\ UNCHANGED <<file, legacy, row>>
      BY ONLY <1>1, TypeOK, TakeOverEffect
    <2>2. pc' \in [PIDs -> {"dead"} \cup Acquiring \cup Owning]
      BY <2>1
    <2>3. \A q \in PIDs : holder'[q] \in PIDs <=> pc'[q] \in {"checking", "waiting"}
      BY <2>1
    <2> QED
      BY <2>1, <2>2, <2>3
  <1>2. ASSUME NEW p \in PIDs, Launch(p) \/ ReadPID(p) \/ CleanStale(p) \/ Poll(p)
                               \/ Timeout(p) \/ WritePID(p)
        PROVE  TypeOK'
    BY <1>2 DEF Launch, ReadPID, CleanStale, Poll, Timeout, WritePID, Goto,
       Forget, data, Alive
  <1>3. ASSUME NEW p \in PIDs, Open(p) PROVE TypeOK'
    BY <1>3 DEF Open, OpenFails, OpenDB, InsertSessions, CommitSessions,
       CommitRows, Rename, Renaming, After, Goto, data
  <1>4. ASSUME NEW p \in PIDs, Start(p) \/ Work(p) \/ ServeReturns(p) \/ Release(p) \/ Kill(p)
        PROVE  TypeOK'
    BY <1>4 DEF Start, Work, ServeReturns, Release, Kill, Goto, Forget, data
  <1>5. CASE UNCHANGED vars
    BY <1>5 DEF vars
  <1> QED
    BY <1>1, <1>2, <1>3, <1>4, <1>5 DEF Next, Acquire

(* Every variable keeps its type, and a process remembers the PID it read   *)
(* exactly while it checks it or waits for it (lock.go:24-86).              *)
THEOREM TypeCorrect == Spec => []TypeOK
  BY InitTypeOK, TypeStep, PTL DEF Spec

-----------------------------------------------------------------------------
(* With one start at a time.  At most one process is acquiring, so what it  *)
(* has read stays true until it writes: the file still holds that PID, or   *)
(* the holder has released it; and a process about to write is alone.       *)
OneAcquires ==
  \A p, q \in PIDs : pc[p] \in Acquiring /\ pc[q] \in Acquiring => p = q

ReadIsCurrent ==
  \A p \in PIDs : pc[p] \in {"checking", "waiting"} => file \in {holder[p], NONE}

WriterIsAlone ==
  \A p, q \in PIDs : pc[p] = "writing" => pc[q] \notin Owning

LockInv ==
  /\ TypeOK
  /\ OneAcquires
  /\ HolderIsNamed
  /\ ReadIsCurrent
  /\ WriterIsAlone

LEMMA InitLockInv == Init => LockInv
  BY InitTypeOK DEF Init, LockInv, OneAcquires, HolderIsNamed, ReadIsCurrent,
     WriterIsAlone, Acquiring, Owning, Opening

LEMMA LockStep ==
  ASSUME MaxStarting = 1, LockInv, [Next]_vars
  PROVE  LockInv'
  <1>0. TypeOK /\ TypeOK'
    BY TypeStep DEF LockInv
  <1> USE ChannelAssumption DEF LockInv, TypeOK, OneAcquires, HolderIsNamed,
        ReadIsCurrent, WriterIsAlone, Acquiring, Owning, Opening
  <1>1. ASSUME NEW p \in PIDs, Launch(p) PROVE LockInv'
    <2>1. \A q \in PIDs : pc[q] \notin Acquiring
      <3> DEFINE S == {q \in PIDs : pc[q] \in Acquiring}
      <3>1. IsFiniteSet(S) /\ Cardinality(S) \in Nat
        BY FS_Subset, FS_CardinalityType
      <3>2. Cardinality(S) < 1
        BY <1>1 DEF Launch
      <3>3. Cardinality(S) = 0
        BY <3>1, <3>2
      <3>4. S = {}
        BY <3>1, <3>3, FS_EmptySet
      <3> QED
        BY <3>4
    <2> QED
      BY <1>0, <1>1, <2>1 DEF Launch, Goto, data
  <1>2. ASSUME NEW p \in PIDs, TakeOver(p) PROVE LockInv'
    <2>1. /\ holder[p] \in PIDs /\ pc[p] = "checking" /\ Alive(holder[p])
          /\ pc'[p] \in {"waiting", "dead"}
          /\ \A q \in PIDs :
               \/ pc'[q] \in {pc[q], "dead"}
               \/ q = p /\ pc'[q] = "waiting"
               \/ /\ pc[q] \in {"running", "stopping"}
                  /\ pc'[q] \in {"running", "stopping"}
          /\ holder' = [q \in PIDs |-> IF pc'[q] = "dead" THEN NONE ELSE holder[q]]
          /\ pc' = [q \in PIDs |-> pc'[q]]
          /\ UNCHANGED <<file, legacy, row>>
      BY ONLY <1>0, <1>2, TakeOverEffect
    <2> QED
      BY <1>0, <2>1
  <1>3. ASSUME NEW p \in PIDs, ReadPID(p) PROVE LockInv'
    BY <1>0, <1>3 DEF ReadPID, Goto, data
  <1>4. ASSUME NEW p \in PIDs, CleanStale(p) \/ Poll(p) PROVE LockInv'
    BY <1>0, <1>4 DEF CleanStale, Poll, Goto, Forget, data, Alive
  <1>5. ASSUME NEW p \in PIDs, Timeout(p) PROVE LockInv'
    BY <1>0, <1>5 DEF Timeout, Goto, Forget, data
  <1>6. ASSUME NEW p \in PIDs, WritePID(p) PROVE LockInv'
    BY <1>0, <1>6 DEF WritePID, Goto, data
  <1>7. ASSUME NEW p \in PIDs, Open(p) \/ Start(p) \/ Work(p) \/ ServeReturns(p) PROVE LockInv'
    <2>1. /\ pc[p] \in Owning /\ pc'[p] \in Owning
          /\ \A q \in PIDs : q # p => pc'[q] = pc[q]
          /\ UNCHANGED <<file, holder>>
      BY <1>0, <1>7 DEF Open, OpenFails, OpenDB, InsertSessions, CommitSessions,
         CommitRows, Rename, Renaming, After, Start, Work, ServeReturns, Goto, data
    <2> QED
      BY <1>0, <2>1
  <1>8. ASSUME NEW p \in PIDs, Release(p) PROVE LockInv'
    BY <1>0, <1>8 DEF Release, Goto, data
  <1>9. ASSUME NEW p \in PIDs, Kill(p) PROVE LockInv'
    BY <1>0, <1>9 DEF Kill, Goto, Forget, data
  <1>10. CASE UNCHANGED vars
    BY <1>10 DEF vars
  <1> QED
    BY <1>1, <1>2, <1>3, <1>4, <1>5, <1>6, <1>7, <1>8, <1>9, <1>10 DEF Next, Acquire

LEMMA LockInvAlways ==
  ASSUME MaxStarting = 1
  PROVE  Spec => []LockInv
  <1>1. LockInv /\ [Next]_vars => LockInv'
    BY LockStep
  <1> QED
    BY InitLockInv, <1>1, PTL DEF Spec

(* The PID file names every process that uses the data directory, however   *)
(* many processes have been killed or have left a stale file, as long as    *)
(* they start one at a time (lock.go:24-86, channel.go).                    *)
THEOREM HolderNamed ==
  ASSUME MaxStarting = 1
  PROVE  Spec => []HolderIsNamed
  <1>1. LockInv => HolderIsNamed
    BY DEF LockInv
  <1> QED
    BY LockInvAlways, <1>1, PTL

-----------------------------------------------------------------------------
(* A source that gave its file up, or is about to, has its row.             *)
Migrated ==
  \A k \in {"users", "refs"} :
    /\ legacy[k] = "bak" => row[k] # NONE
    /\ \A p \in PIDs : pc[p] = Renaming(k) => row[k] # NONE

(* What a step may do to the rows and the files of the two sources.         *)
LEMMA MigrationStep ==
  ASSUME TypeOK, Migrated, [Next]_vars
  PROVE  /\ Migrated'
         /\ row["users"] = "newer" => row'["users"] = "newer"
  <1> USE ChannelAssumption DEF TypeOK, Migrated, Renaming, Sources
  <1>1. ASSUME NEW p \in PIDs, TakeOver(p)
        PROVE  /\ \A q \in PIDs : pc'[q] \in {"users.bak", "refs.bak"} => pc'[q] = pc[q]
               /\ UNCHANGED <<legacy, row>>
    <2>1. /\ \A q \in PIDs : \/ pc'[q] \in {pc[q], "dead"}
                             \/ pc'[q] \in {"waiting", "running", "stopping"}
          /\ UNCHANGED <<legacy, row>>
      BY ONLY <1>1, TypeOK, TakeOverEffect
    <2> QED
      BY <2>1
  <1>2. ASSUME NEW p \in PIDs,
               \/ Launch(p) \/ ReadPID(p) \/ CleanStale(p) \/ Poll(p) \/ Timeout(p)
               \/ WritePID(p) \/ OpenFails(p) \/ OpenDB(p) \/ Start(p)
               \/ ServeReturns(p) \/ Release(p) \/ Kill(p)
        PROVE  /\ \A q \in PIDs : pc'[q] \in {"users.bak", "refs.bak"} => pc'[q] = pc[q]
               /\ UNCHANGED <<legacy, row>>
    BY <1>2 DEF Launch, ReadPID, CleanStale, Poll, Timeout, WritePID, OpenFails,
       OpenDB, Start, ServeReturns, Release, Kill, Goto, data
  <1>3. ASSUME NEW p \in PIDs, NEW k \in {"users", "refs"}, CommitRows(p, k)
        PROVE  Migrated' /\ (row["users"] = "newer" => row'["users"] = "newer")
    <2>1. CASE k = "users"
      BY <1>3, <2>1 DEF CommitRows, Goto, After
    <2>2. CASE k = "refs"
      BY <1>3, <2>2 DEF CommitRows, Goto, After
    <2> QED
      BY <2>1, <2>2
  <1>4. ASSUME NEW p \in PIDs, NEW k \in {"users", "refs"}, Rename(p, k)
        PROVE  Migrated' /\ (row["users"] = "newer" => row'["users"] = "newer")
    BY <1>4 DEF Rename, Goto, After
  <1>5. ASSUME NEW p \in PIDs, InsertSessions(p) \/ CommitSessions(p) \/ Work(p)
        PROVE  Migrated' /\ (row["users"] = "newer" => row'["users"] = "newer")
    BY <1>5 DEF InsertSessions, CommitSessions, Work, Goto
  <1>6. CASE UNCHANGED vars
    BY <1>6 DEF vars
  <1> QED
    BY <1>1, <1>2, <1>3, <1>4, <1>5, <1>6 DEF Next, Acquire, Open

(* Whatever process dies in the middle of a migration and whatever rename   *)
(* fails, with any number of processes at once: users and references are in *)
(* their file or in the database, and a user row that the program wrote is  *)
(* not taken back to the old file's (migrate.go).                           *)
THEOREM NothingMigratedAway == Spec => MigrationKeeps
  <1> DEFINE Keeps == /\ \A k \in {"users", "refs"} : legacy'[k] = "json" \/ row'[k] # NONE
                      /\ row["users"] = "newer" => row'["users"] = "newer"
  <1>1. Init => Migrated
    BY DEF Init, Migrated, Renaming, Sources
  <1>2. TypeOK /\ Migrated /\ [Next]_vars => Migrated'
    BY MigrationStep
  <1>3. TypeOK /\ TypeOK' /\ Migrated /\ [Next]_vars => [Keeps]_vars
    <2> SUFFICES ASSUME TypeOK, TypeOK', Migrated, [Next]_vars
                 PROVE  Keeps
      OBVIOUS
    <2>1. Migrated' /\ (row["users"] = "newer" => row'["users"] = "newer")
      BY MigrationStep
    <2>2. \A k \in {"users", "refs"} : legacy'[k] \in {"json", "bak"}
      BY DEF TypeOK, Sources
    <2> QED
      BY <2>1, <2>2 DEF Migrated
  <1> QED
    BY <1>1, <1>2, <1>3, TypeCorrect, PTL DEF Spec, MigrationKeeps
=============================================================================

--------------------------- MODULE BotManagerProofs ---------------------------
(***************************************************************************)
(* Theorems about BotManager for any accounts, events and API requests.    *)
(***************************************************************************)
EXTENDS BotManager, TLAPS

(* The parts of TypeOK, each about the variables that change together.      *)
FlagsOK ==
  /\ phase \in {"init", "serving", "shutting", "exited"}
  /\ cancelled \in BOOLEAN /\ apiOpen \in BOOLEAN /\ panicked \in BOOLEAN
  /\ db \in {"open", "nil"} /\ late \subseteq {"api", "run"}

GatewaysOK ==
  /\ loop \in [Accounts -> {"absent", "none", "running"}]
  /\ stopped \in [Accounts -> BOOLEAN]

EventsOK ==
  /\ event \in [Events -> Where]
  /\ lost \subseteq Events \cup Calls /\ overtaken \subseteq Events

QueuesOK == worker \in [Accounts -> BOOLEAN] /\ group \in [Accounts -> Nat]

Rows == [account : Accounts, user : Users, group : Groups \cup {NONE}]

CallsOK ==
  /\ call \in [Calls -> {"new", "done"} \cup Kinds]
  /\ left \in [Calls -> SUBSET (Users \cup Groups)]

StopsOK ==
  /\ pc \in [Stoppers -> StopSteps]
  /\ toClose \in [Stoppers -> SUBSET Accounts]
  /\ closing \in [Stoppers -> Accounts \cup {NONE}]
  /\ \A s \in Stoppers : pc[s] \in InQueueStop <=> closing[s] # NONE

LEMMA TypeParts ==
  TypeOK <=> /\ FlagsOK /\ GatewaysOK /\ EventsOK /\ QueuesOK
             /\ known \subseteq Rows /\ CallsOK /\ StopsOK
  BY DEF TypeOK, FlagsOK, GatewaysOK, EventsOK, QueuesOK, Rows, CallsOK, StopsOK

LEMMA InitTypeOK == Init => TypeOK
  <1> SUFFICES ASSUME Init PROVE TypeOK
    OBVIOUS
  <1>1. FlagsOK /\ GatewaysOK /\ EventsOK /\ QueuesOK
    BY DEF Init, FlagsOK, GatewaysOK, EventsOK, QueuesOK, Where
  <1>2. known \subseteq Rows /\ CallsOK
    BY DEF Init, CallsOK
  <1>3. StopsOK
    BY DEF Init, StopsOK, StopSteps, InQueueStop
  <1> QED
    BY <1>1, <1>2, <1>3, TypeParts

(* A broadcast is sent to users and groups only.                            *)
LEMMA RecipientsType ==
  ASSUME known \subseteq Rows, NEW k, NEW a
  PROVE  Recipients(k, a) \subseteq Users \cup Groups
  <1>1. \A row \in List(a, FALSE) : row.user \in Users
    BY DEF List, Rows
  <1>2. \A row \in List(a, TRUE) : row.group \in Groups
    BY DEF List, Rows
  <1> QED
    BY <1>1, <1>2 DEF Recipients

(* Nothing stops before the signal.  TypeOK rests on it: Signal sends the   *)
(* goroutine to its first step, where no account may be waited for.         *)
StopsAfterSignal == \A s \in Stoppers : pc[s] # "idle" => phase \in {"shutting", "exited"}

(* Type correctness of the steps; a stopper waits exactly for the account   *)
(* it names.                                                                *)
RowsOK == known \subseteq Rows
AllOK ==
  /\ FlagsOK /\ GatewaysOK /\ EventsOK /\ QueuesOK /\ RowsOK /\ CallsOK /\ StopsOK
  /\ StopsAfterSignal

LEMMA TypeStep ==
  ASSUME TypeOK, StopsAfterSignal, [Next]_vars
  PROVE  TypeOK' /\ StopsAfterSignal'
  <1>0. /\ FlagsOK /\ GatewaysOK /\ EventsOK /\ QueuesOK /\ RowsOK /\ CallsOK /\ StopsOK
        /\ StopsAfterSignal
    BY TypeParts DEF RowsOK
  <1>1. ASSUME NEW a \in Accounts, AddAccount(a) \/ Connect(a) PROVE AllOK'
    <2>1. /\ UNCHANGED <<phase, cancelled, stopped, event, worker, group, known, call,
                        left, apiOpen, pc, toClose, closing, db, late, lost, overtaken, panicked>>
          /\ \E l \in {"none", "running"} : loop' = [loop EXCEPT ![a] = l]
      BY ONLY <1>1 DEF AddAccount, Connect, gateways, queues, stops, history
    <2>2. GatewaysOK'
      BY ONLY <1>0, <2>1, ManagerAssumption DEF GatewaysOK
    <2>3. FlagsOK' /\ EventsOK' /\ QueuesOK' /\ RowsOK' /\ CallsOK' /\ StopsOK' /\
          StopsAfterSignal'
      BY ONLY <1>0, <2>1 DEF FlagsOK, EventsOK, QueuesOK, RowsOK, CallsOK, StopsOK, StopsAfterSignal
    <2> QED
      BY ONLY <2>2, <2>3 DEF AllOK
  <1>2. ASSUME NEW e \in Events, CheckStopped(e) \/ Take(e) PROVE AllOK'
    <2>1. /\ UNCHANGED <<phase, cancelled, loop, stopped, worker, group, known, call,
                        left, apiOpen, pc, toClose, closing, db, late, lost, overtaken, panicked>>
          /\ \E w \in Where : event' = [event EXCEPT ![e] = w]
      BY ONLY <1>2 DEF CheckStopped, Take, Move, Where, gateways, queues, stops, history
    <2>2. EventsOK'
      BY ONLY <1>0, <2>1, ManagerAssumption DEF EventsOK, Where
    <2>3. FlagsOK' /\ GatewaysOK' /\ QueuesOK' /\ RowsOK' /\ CallsOK' /\ StopsOK' /\
          StopsAfterSignal'
      BY ONLY <1>0, <2>1 DEF FlagsOK, GatewaysOK, QueuesOK, RowsOK, CallsOK, StopsOK, StopsAfterSignal
    <2> QED
      BY ONLY <2>2, <2>3 DEF AllOK
  <1>3. ASSUME NEW e \in Events, Enqueue(e) PROVE AllOK'
    <2>1. /\ UNCHANGED <<phase, cancelled, loop, stopped, known, call, left, apiOpen, pc,
                        toClose, closing, db, late, lost, panicked>>
          /\ \E w \in Where : event' = [event EXCEPT ![e] = w]
          /\ worker' = [worker EXCEPT ![AccountOf[e]] = TRUE]
          /\ group' = group \/ group' = [group EXCEPT ![AccountOf[e]] = @ + 1]
          /\ overtaken' \subseteq overtaken \cup {e}
      BY ONLY <1>3 DEF Enqueue, Move, Where, gateways, queues, stops, history
    <2>2. EventsOK'
      BY ONLY <1>0, <2>1, ManagerAssumption DEF EventsOK, Where
    <2>3. QueuesOK'
      BY ONLY <1>0, <2>1, ManagerAssumption DEF QueuesOK
    <2>4. FlagsOK' /\ GatewaysOK' /\ RowsOK' /\ CallsOK' /\ StopsOK' /\ StopsAfterSignal'
      BY ONLY <1>0, <2>1 DEF FlagsOK, GatewaysOK, RowsOK, CallsOK, StopsOK, StopsAfterSignal
    <2> QED
      BY ONLY <2>2, <2>3, <2>4 DEF AllOK
  <1>4. ASSUME NEW a \in Accounts, WorkerLeaves(a) PROVE AllOK'
    <2>1. /\ UNCHANGED <<phase, cancelled, loop, stopped, group, known, call, left,
                        apiOpen, pc, toClose, closing, db, late, lost, overtaken, panicked>>
          /\ worker' = [worker EXCEPT ![a] = FALSE]
          /\ event' = [e \in Events |-> IF AccountOf[e] = a /\ event[e] = "queued" THEN "over"
                                  ELSE event[e]]
      BY ONLY <1>4 DEF WorkerLeaves, gateways, queues, stops, history
    <2>2. EventsOK'
      BY ONLY <1>0, <2>1, ManagerAssumption DEF EventsOK, Where
    <2>3. QueuesOK'
      BY ONLY <1>0, <2>1, ManagerAssumption DEF QueuesOK
    <2>4. FlagsOK' /\ GatewaysOK' /\ RowsOK' /\ CallsOK' /\ StopsOK' /\ StopsAfterSignal'
      BY ONLY <1>0, <2>1 DEF FlagsOK, GatewaysOK, RowsOK, CallsOK, StopsOK, StopsAfterSignal
    <2> QED
      BY ONLY <2>2, <2>3, <2>4 DEF AllOK
  <1>5. ASSUME NEW a \in Accounts, WorkerDone(a) PROVE AllOK'
    <2>1. /\ UNCHANGED <<phase, cancelled, loop, stopped, event, worker, known, call,
                        left, apiOpen, toClose, closing, db, late, lost, overtaken, panicked>>
          /\ group[a] > IF worker[a] THEN 1 ELSE 0
          /\ group' = [group EXCEPT ![a] = @ - 1]
          /\ pc' = [s \in Stoppers |-> IF pc[s] = "parked" /\ closing[s] = a /\ group[a] = 1
                                  THEN "woken" ELSE pc[s]]
      BY ONLY <1>5 DEF WorkerDone, gateways, queues, stops, history
    <2>2. QueuesOK'
      BY ONLY <1>0, <2>1, ManagerAssumption DEF QueuesOK
    <2>3. StopsOK'
      BY ONLY <1>0, <2>1, ManagerAssumption DEF StopsOK, StopSteps, InQueueStop
    <2>4. StopsAfterSignal'
      BY ONLY <1>0, <2>1, ManagerAssumption DEF StopsAfterSignal, StopsOK
    <2>5. FlagsOK' /\ GatewaysOK' /\ EventsOK' /\ RowsOK' /\ CallsOK'
      BY ONLY <1>0, <2>1 DEF FlagsOK, GatewaysOK, EventsOK, RowsOK, CallsOK
    <2> QED
      BY ONLY <2>2, <2>3, <2>4, <2>5 DEF AllOK
  <1>6. ASSUME NEW e \in Events, Handle(e) PROVE AllOK'
    <2>1. /\ UNCHANGED <<phase, cancelled, loop, stopped, worker, group, call, left,
                        apiOpen, pc, toClose, closing, db, late, overtaken, panicked>>
          /\ \E w \in Where : event' = [event EXCEPT ![e] = w]
          /\ known' \subseteq known \cup
               {[account |-> AccountOf[e], user |-> SenderOf[e], group |-> GroupOf[e]]}
          /\ lost' \subseteq lost \cup {e}
      BY ONLY <1>6 DEF Handle, Move, Where, Record, gateways, queues, stops, history
    <2>2. EventsOK'
      BY ONLY <1>0, <2>1, ManagerAssumption DEF EventsOK, Where
    <2>3. RowsOK'
      BY ONLY <1>0, <2>1, ManagerAssumption DEF RowsOK, Rows
    <2>4. FlagsOK' /\ GatewaysOK' /\ QueuesOK' /\ CallsOK' /\ StopsOK' /\ StopsAfterSignal'
      BY ONLY <1>0, <2>1 DEF FlagsOK, GatewaysOK, QueuesOK, CallsOK, StopsOK, StopsAfterSignal
    <2> QED
      BY ONLY <2>2, <2>3, <2>4 DEF AllOK
  <1>7. ASSUME NEW q \in Calls, Call(q) PROVE AllOK'
    <2>1. /\ UNCHANGED <<phase, cancelled, loop, stopped, event, worker, group, known,
                        apiOpen, pc, toClose, closing, db, late, lost, overtaken, panicked>>
          /\ \E k \in Kinds : /\ call' = [call EXCEPT ![q] = k]
                             /\ left' = [left EXCEPT ![q] = Recipients(k, TargetOf[q])]
      BY ONLY <1>7 DEF Call, gateways, queues, stops, history
    <2>2. CallsOK'
      BY ONLY <1>0, <2>1, RecipientsType DEF CallsOK, RowsOK
    <2>3. FlagsOK' /\ GatewaysOK' /\ EventsOK' /\ QueuesOK' /\ RowsOK' /\ StopsOK' /\
          StopsAfterSignal'
      BY ONLY <1>0, <2>1 DEF FlagsOK, GatewaysOK, EventsOK, QueuesOK, RowsOK, StopsOK, StopsAfterSignal
    <2> QED
      BY ONLY <2>2, <2>3 DEF AllOK
  <1>8. ASSUME NEW q \in Calls, SendOne(q) PROVE AllOK'
    <2>1. /\ UNCHANGED <<phase, cancelled, loop, stopped, event, worker, group, known,
                        call, apiOpen, pc, toClose, closing, db, late, lost, overtaken, panicked>>
          /\ \E u \in left[q] : left' = [left EXCEPT ![q] = @ \ {u}]
      BY ONLY <1>8 DEF SendOne, gateways, queues, stops, history
    <2>2. CallsOK'
      BY ONLY <1>0, <2>1, ManagerAssumption DEF CallsOK
    <2>3. FlagsOK' /\ GatewaysOK' /\ EventsOK' /\ QueuesOK' /\ RowsOK' /\ StopsOK' /\
          StopsAfterSignal'
      BY ONLY <1>0, <2>1 DEF FlagsOK, GatewaysOK, EventsOK, QueuesOK, RowsOK, StopsOK, StopsAfterSignal
    <2> QED
      BY ONLY <2>2, <2>3 DEF AllOK
  <1>9. ASSUME NEW q \in Calls, Answer(q) PROVE AllOK'
    <2>1. /\ UNCHANGED <<phase, cancelled, loop, stopped, event, worker, group, left,
                        apiOpen, pc, toClose, closing, db, late, overtaken, panicked>>
          /\ call' = [call EXCEPT ![q] = "done"]
          /\ known' \subseteq known
          /\ lost' \subseteq lost \cup {q}
      BY ONLY <1>9 DEF Answer, Clear, gateways, queues, stops, history
    <2>2. EventsOK'
      BY ONLY <1>0, <2>1, ManagerAssumption DEF EventsOK, Where
    <2>3. RowsOK'
      BY ONLY <1>0, <2>1, ManagerAssumption DEF RowsOK, Rows
    <2>4. CallsOK'
      BY ONLY <1>0, <2>1, ManagerAssumption DEF CallsOK
    <2>5. FlagsOK' /\ GatewaysOK' /\ QueuesOK' /\ StopsOK' /\ StopsAfterSignal'
      BY ONLY <1>0, <2>1 DEF FlagsOK, GatewaysOK, QueuesOK, StopsOK, StopsAfterSignal
    <2> QED
      BY ONLY <2>2, <2>3, <2>4, <2>5 DEF AllOK
  <1>10. ASSUME Run \/ Exit PROVE AllOK'
    <2>1. /\ UNCHANGED <<cancelled, loop, stopped, event, worker, group, known, call,
                        left, pc, toClose, closing, db, late, lost, overtaken, panicked>>
          /\ \/ phase = "init" /\ phase' = "serving"
             \/ phase' = "exited"
          /\ apiOpen' \in {apiOpen, TRUE}
      BY ONLY <1>10 DEF Run, Exit, gateways, queues, stops, history
    <2>2. FlagsOK'
      BY ONLY <1>0, <2>1, ManagerAssumption DEF FlagsOK
    <2>3. StopsAfterSignal'
      BY ONLY <1>0, <2>1, ManagerAssumption DEF StopsAfterSignal, StopsOK
    <2>4. GatewaysOK' /\ EventsOK' /\ QueuesOK' /\ RowsOK' /\ CallsOK' /\ StopsOK'
      BY ONLY <1>0, <2>1 DEF GatewaysOK, EventsOK, QueuesOK, RowsOK, CallsOK, StopsOK
    <2> QED
      BY ONLY <2>2, <2>3, <2>4 DEF AllOK
  <1>11. ASSUME Signal \/ RunReturns PROVE AllOK'
    <2>1. /\ UNCHANGED <<cancelled, loop, stopped, event, worker, group, known, call,
                        left, apiOpen, toClose, closing, db, lost, overtaken, panicked>>
          /\ phase' = "shutting"
          /\ \E s \in Stoppers : pc[s] \notin InQueueStop /\ pc' = [pc EXCEPT ![s] = "api"]
          /\ late' \subseteq late \cup {"run"}
      BY ONLY <1>0, <1>11 DEF StopsAfterSignal, Stoppers, InQueueStop, Signal, RunReturns, gateways, queues, stops, history
    <2>2. FlagsOK'
      BY ONLY <1>0, <2>1, ManagerAssumption DEF FlagsOK
    <2>3. StopsOK'
      BY ONLY <1>0, <2>1, ManagerAssumption DEF StopsOK, StopSteps, InQueueStop
    <2>4. StopsAfterSignal'
      BY ONLY <1>0, <2>1, ManagerAssumption DEF StopsAfterSignal, StopsOK
    <2>5. GatewaysOK' /\ EventsOK' /\ QueuesOK' /\ RowsOK' /\ CallsOK'
      BY ONLY <1>0, <2>1 DEF GatewaysOK, EventsOK, QueuesOK, RowsOK, CallsOK
    <2> QED
      BY ONLY <2>2, <2>3, <2>4, <2>5 DEF AllOK
  <1>12. ASSUME NEW s \in Stoppers, CloseAPI(s) PROVE AllOK'
    <2>1. /\ UNCHANGED <<phase, cancelled, loop, stopped, event, worker, group, known,
                        call, left, toClose, closing, db, lost, overtaken, panicked>>
          /\ pc[s] = "api" /\ apiOpen' = FALSE
          /\ late' \subseteq late \cup {"api"}
          /\ pc' = pc \/ pc' = [pc EXCEPT ![s] = "cancel"]
      BY ONLY <1>12 DEF CloseAPI, StepTo, gateways, queues, stops, history
    <2>2. FlagsOK'
      BY ONLY <1>0, <2>1, ManagerAssumption DEF FlagsOK
    <2>3. StopsOK'
      BY ONLY <1>0, <2>1, ManagerAssumption DEF StopsOK, StopSteps, InQueueStop
    <2>4. StopsAfterSignal'
      BY ONLY <1>0, <2>1, ManagerAssumption DEF StopsAfterSignal, StopsOK
    <2>5. GatewaysOK' /\ EventsOK' /\ QueuesOK' /\ RowsOK' /\ CallsOK'
      BY ONLY <1>0, <2>1 DEF GatewaysOK, EventsOK, QueuesOK, RowsOK, CallsOK
    <2> QED
      BY ONLY <2>2, <2>3, <2>4, <2>5 DEF AllOK
  <1>13. ASSUME NEW s \in Stoppers, Cancel(s) PROVE AllOK'
    <2>1. /\ UNCHANGED <<phase, loop, stopped, event, worker, group, known, call, left,
                        apiOpen, closing, db, late, lost, overtaken, panicked>>
          /\ pc[s] = "cancel" /\ cancelled' = TRUE
          /\ toClose' = [toClose EXCEPT ![s] = Accounts]
          /\ pc' = [pc EXCEPT ![s] = "gateways"]
      BY ONLY <1>13 DEF Cancel, StepTo, gateways, queues, stops, history
    <2>2. FlagsOK'
      BY ONLY <1>0, <2>1, ManagerAssumption DEF FlagsOK
    <2>3. StopsOK'
      BY ONLY <1>0, <2>1, ManagerAssumption DEF StopsOK, StopSteps, InQueueStop
    <2>4. StopsAfterSignal'
      BY ONLY <1>0, <2>1, ManagerAssumption DEF StopsAfterSignal, StopsOK
    <2>5. GatewaysOK' /\ EventsOK' /\ QueuesOK' /\ RowsOK' /\ CallsOK'
      BY ONLY <1>0, <2>1 DEF GatewaysOK, EventsOK, QueuesOK, RowsOK, CallsOK
    <2> QED
      BY ONLY <2>2, <2>3, <2>4, <2>5 DEF AllOK
  <1>14. ASSUME NEW s \in Stoppers, CloseGateway(s) PROVE AllOK'
    <2>1. /\ UNCHANGED <<phase, cancelled, loop, event, worker, group, known, call, left,
                        apiOpen, db, late, lost, overtaken, panicked>>
          /\ pc[s] = "gateways"
          /\ \E a \in toClose[s] :
               /\ toClose' = [toClose EXCEPT ![s] = @ \ {a}]
               /\ stopped' = [stopped EXCEPT ![a] = TRUE]
               /\ \/ UNCHANGED <<closing, pc>>
                  \/ closing' = [closing EXCEPT ![s] = a] /\ pc' = [pc EXCEPT ![s] = "waiting"]
      BY ONLY <1>14 DEF CloseGateway, StepTo, gateways, queues, stops, history
    <2>2. GatewaysOK'
      BY ONLY <1>0, <2>1, ManagerAssumption DEF GatewaysOK
    <2>3. StopsOK'
      BY ONLY <1>0, <2>1, ManagerAssumption DEF StopsOK, StopSteps, InQueueStop
    <2>4. StopsAfterSignal'
      BY ONLY <1>0, <2>1, ManagerAssumption DEF StopsAfterSignal, StopsOK
    <2>5. FlagsOK' /\ EventsOK' /\ QueuesOK' /\ RowsOK' /\ CallsOK'
      BY ONLY <1>0, <2>1 DEF FlagsOK, EventsOK, QueuesOK, RowsOK, CallsOK
    <2> QED
      BY ONLY <2>2, <2>3, <2>4, <2>5 DEF AllOK
  <1>15. ASSUME NEW s \in Stoppers, StopWaits(s) \/ StopResumes(s) PROVE AllOK'
    <2>1. /\ UNCHANGED <<phase, cancelled, loop, stopped, event, worker, group, known,
                        call, left, apiOpen, toClose, db, late, lost, overtaken>>
          /\ pc[s] \in {"waiting", "woken"} /\ panicked' \in {panicked, TRUE}
          /\ \/ closing' = [closing EXCEPT ![s] = NONE] /\ pc' = [pc EXCEPT ![s] = "gateways"]
             \/ closing' = closing /\ pc' = [pc EXCEPT ![s] = "parked"]
             \/ UNCHANGED <<pc, closing>>
      BY ONLY <1>15 DEF StopWaits, StopResumes, StopReturns, StepTo, gateways, queues, stops, history
    <2>2. FlagsOK'
      BY ONLY <1>0, <2>1, ManagerAssumption DEF FlagsOK
    <2>3. StopsOK'
      BY ONLY <1>0, <2>1, ManagerAssumption DEF StopsOK, StopSteps, InQueueStop
    <2>4. StopsAfterSignal'
      BY ONLY <1>0, <2>1, ManagerAssumption DEF StopsAfterSignal, StopsOK
    <2>5. GatewaysOK' /\ EventsOK' /\ QueuesOK' /\ RowsOK' /\ CallsOK'
      BY ONLY <1>0, <2>1 DEF GatewaysOK, EventsOK, QueuesOK, RowsOK, CallsOK
    <2> QED
      BY ONLY <2>2, <2>3, <2>4, <2>5 DEF AllOK
  <1>16. ASSUME NEW s \in Stoppers, AllClosed(s) \/ CloseDB(s) PROVE AllOK'
    <2>1. /\ UNCHANGED <<phase, cancelled, loop, stopped, event, worker, group, known,
                        call, left, apiOpen, toClose, closing, late, lost, overtaken>>
          /\ pc[s] \in {"gateways", "db", "closeDB"}
          /\ db' \in {db, "nil"} /\ panicked' \in {panicked, TRUE}
          /\ pc' = pc \/ \E w \in {"db", "done", "closeDB"} : pc' = [pc EXCEPT ![s] = w]
      BY ONLY <1>16 DEF AllClosed, CloseDB, StepTo, gateways, queues, stops, history
    <2>2. FlagsOK'
      BY ONLY <1>0, <2>1, ManagerAssumption DEF FlagsOK
    <2>3. StopsOK'
      BY ONLY <1>0, <2>1, ManagerAssumption DEF StopsOK, StopSteps, InQueueStop
    <2>4. StopsAfterSignal'
      BY ONLY <1>0, <2>1, ManagerAssumption DEF StopsAfterSignal, StopsOK
    <2>5. GatewaysOK' /\ EventsOK' /\ QueuesOK' /\ RowsOK' /\ CallsOK'
      BY ONLY <1>0, <2>1 DEF GatewaysOK, EventsOK, QueuesOK, RowsOK, CallsOK
    <2> QED
      BY ONLY <2>2, <2>3, <2>4, <2>5 DEF AllOK
  <1>17. ASSUME UNCHANGED vars PROVE AllOK'
    <2>1. UNCHANGED <<phase, cancelled, loop, stopped, event, worker, group, known, call, left,
                      apiOpen, pc, toClose, closing, db, late, lost, overtaken, panicked>>
      BY ONLY <1>17 DEF vars, gateways, queues, stops, history
    <2>2. FlagsOK' /\ GatewaysOK' /\ EventsOK' /\ QueuesOK' /\ RowsOK' /\ CallsOK'
      BY ONLY <1>0, <2>1 DEF FlagsOK, GatewaysOK, EventsOK, QueuesOK, RowsOK, CallsOK
    <2>3. StopsOK' /\ StopsAfterSignal'
      BY ONLY <1>0, <2>1 DEF StopsOK, StopsAfterSignal
    <2> QED
      BY ONLY <2>2, <2>3 DEF AllOK
  <1>18. ASSUME Next PROVE AllOK'
    <2>1. ASSUME NEW s \in Stoppers, Stop(s) PROVE AllOK'
      BY <2>1, <1>12, <1>13, <1>14, <1>15, <1>16 DEF Stop
    <2>2. ASSUME NEW a \in Accounts, AddAccount(a) \/ Connect(a) \/ WorkerLeaves(a) \/ WorkerDone(a)
          PROVE  AllOK'
      BY <2>2, <1>1, <1>4, <1>5
    <2>3. ASSUME NEW e \in Events, CheckStopped(e) \/ Enqueue(e) \/ Take(e) \/ Handle(e)
          PROVE  AllOK'
      BY <2>3, <1>2, <1>3, <1>6
    <2>4. ASSUME NEW q \in Calls, Call(q) \/ SendOne(q) \/ Answer(q) PROVE AllOK'
      BY <2>4, <1>7, <1>8, <1>9
    <2> QED
      BY <1>10, <1>11, <1>18, <2>1, <2>2, <2>3, <2>4 DEF Next
  <1>19. /\ FlagsOK' /\ GatewaysOK' /\ EventsOK' /\ QueuesOK' /\ RowsOK' /\ CallsOK' /\ StopsOK'
         /\ StopsAfterSignal'
    BY <1>17, <1>18 DEF AllOK
  <1> QED
    BY ONLY <1>19
    DEF TypeOK, FlagsOK, GatewaysOK, EventsOK, QueuesOK, RowsOK, Rows, CallsOK, StopsOK

(* Every variable keeps its type; in particular a stopper names an account  *)
(* exactly while it waits for that account's queue (botmanager.go, Stop).   *)
THEOREM TypeCorrect == Spec => []TypeOK
  <1>1. Init => StopsAfterSignal
    BY DEF Init, StopsAfterSignal
  <1> QED
    BY <1>1, InitTypeOK, TypeStep, PTL DEF Spec

-----------------------------------------------------------------------------
(* The order of the shutdown.  The deferred calls follow the goroutine,     *)
(* unless Run has given up on it, and then find the database closed.        *)
StopsInOrder ==
  /\ StopsAfterSignal
  /\ pc["deferred"] # "idle" => "run" \in late \/ pc["goroutine"] = "done"
  /\ pc["deferred"] = "closeDB" => "run" \in late

(* Past APIServer.Stop no request comes in, and none is running unless that *)
(* gave up; and the database is closed only past it.                        *)
APIDrained ==
  /\ \A s \in Stoppers : pc[s] \notin {"idle", "api"} =>
       ~apiOpen /\ ("api" \in late \/ \A q \in Calls : call[q] \notin Kinds)
  /\ db = "nil" => \E s \in Stoppers : pc[s] = "done"

(* What lies in a queue has a worker, and each worker is counted.           *)
QueueBooks ==
  /\ \A a \in Accounts : worker[a] => group[a] > 0
  /\ \A e \in Events : event[e] \in {"queued", "handling"} => worker[AccountOf[e]]

(* One Enqueue of an account at a time is past its check, and when the      *)
(* queue has been stopped it is the last one.                               *)
OneOvertaken ==
  /\ \A e \in overtaken : stopped[AccountOf[e]] /\ event[e] \notin {"new", "checked"}
  /\ \A e, f \in Events : event[e] = "checked" /\ AccountOf[e] = AccountOf[f] =>
       f \notin overtaken /\ (event[f] = "checked" => e = f)

(* A queue that is waited for is stopped; the wait ends with no worker, and *)
(* only an overtaken Enqueue starts one then.                               *)
WaitsForNone ==
  \A s \in Stoppers : pc[s] \in InQueueStop =>
    /\ stopped[closing[s]]
    /\ pc[s] = "woken" => group[closing[s]] = 0 \/ overtaken # {}

Drained(a) ==
  \A e \in Events : AccountOf[e] = a /\ event[e] \in {"queued", "handling"} => e \in overtaken

(* While Run has not given up, the goroutine is the only one that stops     *)
(* queues until it is done: a queue it has not come to is not stopped, one  *)
(* it has left is drained.                                                  *)
QueuesInTime ==
  "run" \notin late =>
    LET at == pc["goroutine"]
        toDo == toClose["goroutine"] IN
    /\ db = "nil" <=> at = "done"
    /\ at \in {"idle", "api", "cancel"} => \A a \in Accounts : ~stopped[a]
    /\ at \in {"gateways"} \cup InQueueStop => \A a \in toDo : ~stopped[a]
    /\ at \in {"gateways", "db", "closeDB", "done"} \cup InQueueStop =>
         /\ cancelled
         /\ \A a \in Accounts \ toDo :
              stopped[a] /\ (a # closing["goroutine"] => Drained(a))
    /\ at \in {"db", "closeDB", "done"} => toDo = {}

(* The inductive invariant: that nothing is lost rests on where the stops   *)
(* are and on the queues' books, not on the histories alone.                *)
ShutdownInv ==
  /\ TypeOK
  /\ QueueBooks /\ OneOvertaken /\ WaitsForNone
  /\ StopsInOrder
  /\ APIDrained
  /\ QueuesInTime
  /\ NothingLostInTime

(* All of it but the types and the queues.                                  *)
ShutdownOrder ==
  StopsInOrder /\ APIDrained /\ QueuesInTime /\ NothingLostInTime

LEMMA InitShutdownInv == Init => ShutdownInv
  <1> SUFFICES ASSUME Init PROVE ShutdownInv
    OBVIOUS
  <1>1. QueueBooks /\ OneOvertaken /\ WaitsForNone
    BY ManagerAssumption DEF Init, QueueBooks, OneOvertaken, WaitsForNone, InQueueStop
  <1>2. StopsInOrder /\ APIDrained /\ QueuesInTime /\ NothingLostInTime
    BY DEF Init, StopsInOrder, StopsAfterSignal, APIDrained, QueuesInTime,
       NothingLostInTime, Stoppers, InQueueStop
  <1> QED
    BY <1>1, <1>2, InitTypeOK DEF ShutdownInv

-----------------------------------------------------------------------------
(* The queues' books in every step.                                         *)
LEMMA BooksStep ==
  ASSUME ShutdownInv, Next
  PROVE  QueueBooks' /\ OneOvertaken'
  <1>0. /\ GatewaysOK /\ EventsOK /\ QueuesOK /\ StopsOK
        /\ QueueBooks /\ OneOvertaken
    BY TypeParts DEF ShutdownInv
  <1> USE ManagerAssumption DEF QueueBooks, OneOvertaken, EventsOK, QueuesOK
  <1>1. ASSUME NEW e \in Events, CheckStopped(e) PROVE QueueBooks' /\ OneOvertaken'
    <2>1. /\ event[e] = "new" /\ Checked(AccountOf[e]) = {}
          /\ event' = [event EXCEPT ![e] = IF stopped[AccountOf[e]] THEN "over" ELSE "checked"]
          /\ UNCHANGED <<stopped, worker, group, overtaken>>
      BY <1>1 DEF CheckStopped, Move, gateways, history
    <2> QED
      BY <1>0, <2>1 DEF Checked
  <1>2. ASSUME NEW e \in Events, Enqueue(e) PROVE QueueBooks' /\ OneOvertaken'
    <2>1. /\ event[e] = "checked" /\ AccountOf[e] \in Accounts
          /\ event'[e] \in {"queued", "over"} /\ \A f \in Events : f # e => event'[f] = event[f]
          /\ worker' = [worker EXCEPT ![AccountOf[e]] = TRUE]
          /\ group' = IF worker[AccountOf[e]] THEN group
                      ELSE [group EXCEPT ![AccountOf[e]] = @ + 1]
          /\ overtaken' = IF stopped[AccountOf[e]] THEN overtaken \cup {e} ELSE overtaken
          /\ stopped' = stopped
      BY <1>0, <1>2 DEF Enqueue, Move, gateways
    <2>2. QueueBooks'
      BY <1>0, <2>1
    <2>3. OneOvertaken'
      BY <1>0, <2>1
    <2> QED
      BY <2>2, <2>3
  <1>3. ASSUME NEW e \in Events, Take(e) \/ Handle(e) PROVE QueueBooks' /\ OneOvertaken'
    <2>1. /\ event[e] \in {"queued", "handling"}
          /\ event'[e] \in {"handling", "over"} /\ \A f \in Events : f # e => event'[f] = event[f]
          /\ UNCHANGED <<stopped, worker, group, overtaken>>
      BY <1>0, <1>3 DEF Take, Handle, Move, gateways, history
    <2> QED
      BY <1>0, <2>1
  <1>4. ASSUME NEW a \in Accounts, WorkerLeaves(a) PROVE QueueBooks' /\ OneOvertaken'
    <2>1. /\ \A e \in Events : AccountOf[e] = a => event[e] # "handling"
          /\ \A e \in Events :
               event'[e] = IF AccountOf[e] = a /\ event[e] = "queued" THEN "over" ELSE event[e]
          /\ worker' = [worker EXCEPT ![a] = FALSE]
          /\ UNCHANGED <<stopped, group, overtaken>>
      BY <1>0, <1>4 DEF WorkerLeaves, Handled, gateways, history
    <2> QED
      BY <1>0, <2>1
  <1>5. ASSUME NEW a \in Accounts, WorkerDone(a) PROVE QueueBooks' /\ OneOvertaken'
    <2>1. /\ group[a] > IF worker[a] THEN 1 ELSE 0
          /\ group' = [group EXCEPT ![a] = @ - 1]
          /\ UNCHANGED <<stopped, event, worker, overtaken>>
      BY <1>5 DEF WorkerDone, gateways, history
    <2> QED
      BY <1>0, <2>1
  <1>6. ASSUME NEW s \in Stoppers, CloseGateway(s) PROVE QueueBooks' /\ OneOvertaken'
    BY <1>0, <1>6 DEF CloseGateway, GatewaysOK, queues, history
  <1>7. CASE UNCHANGED <<stopped, queues, overtaken>>
    BY <1>0, <1>7 DEF queues
  <1> HIDE DEF QueueBooks, OneOvertaken
  <1>8. ASSUME NEW s \in Stoppers,
               CloseAPI(s) \/ Cancel(s) \/ StopWaits(s) \/ StopResumes(s) \/ AllClosed(s) \/ CloseDB(s)
        PROVE  UNCHANGED <<stopped, queues, overtaken>>
    BY <1>8 DEF CloseAPI, Cancel, StopWaits, StopResumes, AllClosed, CloseDB, gateways, history
  <1>9. ASSUME NEW a \in Accounts, AddAccount(a) \/ Connect(a)
        PROVE  UNCHANGED <<stopped, queues, overtaken>>
    BY <1>9 DEF AddAccount, Connect, history
  <1>10. ASSUME NEW q \in Calls, Call(q) \/ SendOne(q) \/ Answer(q)
         PROVE  UNCHANGED <<stopped, queues, overtaken>>
    BY <1>10 DEF Call, SendOne, Answer, gateways, history
  <1>11. ASSUME Run \/ Signal \/ RunReturns \/ Exit
         PROVE  UNCHANGED <<stopped, queues, overtaken>>
    BY <1>11 DEF Run, Signal, RunReturns, Exit, gateways, history
  <1> QED
    BY <1>1, <1>2, <1>3, <1>4, <1>5, <1>6, <1>7, <1>8, <1>9, <1>10, <1>11 DEF Next, Stop

(* The waits for queues in every step.                                      *)
LEMMA WaitsStep == ASSUME ShutdownInv, Next PROVE WaitsForNone'
  <1>0. StopsOK /\ GatewaysOK /\ QueuesOK /\ QueueBooks /\ WaitsForNone /\ StopsAfterSignal
    BY TypeParts DEF ShutdownInv, StopsInOrder
  <1> USE ManagerAssumption DEF WaitsForNone, InQueueStop, StopsOK, StepTo
  <1>1. ASSUME NEW e \in Events, Enqueue(e) PROVE WaitsForNone'
    <2>1. /\ AccountOf[e] \in Accounts /\ UNCHANGED <<pc, closing, stopped>>
          /\ \A a \in Accounts : group'[a] = group[a] \/ a = AccountOf[e]
          /\ overtaken' = IF stopped[AccountOf[e]] THEN overtaken \cup {e} ELSE overtaken
      BY <1>0, <1>1 DEF Enqueue, gateways, stops, QueuesOK
    <2> QED
      BY <1>0, <2>1
  <1>2. ASSUME NEW a \in Accounts, WorkerDone(a) PROVE WaitsForNone'
    <2>1. /\ group[a] > IF worker[a] THEN 1 ELSE 0
          /\ group' = [group EXCEPT ![a] = @ - 1]
          /\ \A s \in Stoppers : pc'[s] = IF pc[s] = "parked" /\ closing[s] = a /\ group[a] = 1
                                         THEN "woken" ELSE pc[s]
          /\ UNCHANGED <<stopped, closing, overtaken>>
      BY <1>2 DEF WorkerDone, gateways, history
    <2> QED
      BY <1>0, <2>1 DEF QueuesOK
  <1>3. ASSUME NEW s \in Stoppers, CloseGateway(s) PROVE WaitsForNone'
    <2>1. UNCHANGED <<group, overtaken>>
      BY <1>3 DEF CloseGateway, queues, history
    <2>2. \A a \in Accounts : stopped[a] => stopped'[a]
      BY <1>0, <1>3 DEF CloseGateway, GatewaysOK
    <2>3. PICK a \in toClose[s] :
            /\ stopped' = [stopped EXCEPT ![a] = TRUE]
            /\ \/ UNCHANGED <<closing, pc>>
               \/ closing' = [closing EXCEPT ![s] = a] /\ pc' = [pc EXCEPT ![s] = "waiting"]
      BY <1>3 DEF CloseGateway
    <2>4. a \in Accounts
      BY <1>0, <2>3
    <2> QED
      BY <1>0, <2>1, <2>2, <2>3, <2>4 DEF GatewaysOK
  <1>4. ASSUME NEW s \in Stoppers,
               CloseAPI(s) \/ Cancel(s) \/ StopWaits(s) \/ StopResumes(s) \/ AllClosed(s) \/ CloseDB(s)
        PROVE  WaitsForNone'
    <2>1. UNCHANGED <<stopped, group, overtaken>>
      BY <1>4 DEF CloseAPI, Cancel, StopWaits, StopResumes, AllClosed, CloseDB, gateways,
         queues, history
    <2>2. \A t \in Stoppers : pc'[t] \in InQueueStop =>
            closing'[t] = closing[t] /\ pc[t] \in InQueueStop /\ (pc'[t] = "woken" => pc[t] = "woken")
      BY <1>0, <1>4 DEF CloseAPI, Cancel, StopWaits, StopResumes, StopReturns, AllClosed, CloseDB
    <2> QED
      BY <1>0, <2>1, <2>2
  <1>5. CASE Signal \/ RunReturns
    BY <1>0, <1>5 DEF Signal, RunReturns, gateways, queues, history
  <1>6. CASE UNCHANGED <<stopped, group, overtaken, pc, closing>>
    BY <1>0, <1>6
  <1> HIDE DEF WaitsForNone
  <1>7. ASSUME \/ Run \/ Exit
               \/ \E a \in Accounts : AddAccount(a) \/ Connect(a) \/ WorkerLeaves(a)
               \/ \E e \in Events : CheckStopped(e) \/ Take(e) \/ Handle(e)
               \/ \E q \in Calls : Call(q) \/ SendOne(q) \/ Answer(q)
        PROVE  UNCHANGED <<stopped, group, overtaken, pc, closing>>
    BY <1>7 DEF Run, Exit, AddAccount, Connect, WorkerLeaves, CheckStopped, Take, Handle,
       Call, SendOne, Answer, gateways, queues, stops, history
  <1> QED
    BY <1>1, <1>2, <1>3, <1>4, <1>5, <1>6, <1>7 DEF Next, Stop

(* The steps of the queues: what comes into a stopped queue is overtaken,   *)
(* and of each account it is the first.                                     *)
LEMMA QueueStep ==
  ASSUME ShutdownInv,
         \/ \E e \in Events : CheckStopped(e) \/ Enqueue(e) \/ Take(e)
         \/ \E a \in Accounts : WorkerLeaves(a) \/ WorkerDone(a)
  PROVE  ShutdownOrder'
  <1>0. /\ StopsOK /\ EventsOK /\ GatewaysOK /\ StopsInOrder /\ APIDrained
        /\ QueuesInTime /\ NothingLostInTime /\ OneOvertaken
    BY TypeParts DEF ShutdownInv
  <1>1. /\ UNCHANGED <<phase, cancelled, stopped, apiOpen, call, toClose, closing, db, late, lost, panicked>>
        /\ \A s \in Stoppers : pc'[s] = pc[s] \/ (pc[s] = "parked" /\ pc'[s] = "woken")
    BY <1>0 DEF CheckStopped, Enqueue, Take, WorkerLeaves, WorkerDone, gateways, stops, history, StopsOK
  <1>2. /\ overtaken \subseteq overtaken'
        /\ \A e, f \in overtaken' : AccountOf[e] = AccountOf[f] => e = f
        /\ \A e \in Events : event'[e] \in {"queued", "handling"} =>
             \/ event[e] \in {"queued", "handling"}
             \/ stopped[AccountOf[e]] => e \in overtaken'
    <2>1. ASSUME NEW e \in Events, Enqueue(e)
          PROVE  /\ overtaken \subseteq overtaken'
                 /\ \A d, f \in overtaken' : AccountOf[d] = AccountOf[f] => d = f
                 /\ \A f \in Events : event'[f] \in {"queued", "handling"} =>
                      \/ event[f] \in {"queued", "handling"}
                      \/ stopped[AccountOf[f]] => f \in overtaken'
      <3>1. /\ event[e] = "checked" /\ \A f \in Events : f # e => event'[f] = event[f]
            /\ overtaken' = IF stopped[AccountOf[e]] THEN overtaken \cup {e} ELSE overtaken
        BY <1>0, <2>1 DEF Enqueue, Move, EventsOK
      <3>2. overtaken \subseteq Events /\ \A f \in overtaken : AccountOf[f] # AccountOf[e]
        BY <1>0, <3>1 DEF OneOvertaken, EventsOK
      <3> QED
        BY <1>0, <3>1, <3>2 DEF NothingLostInTime
    <2>2. ASSUME NEW e \in Events, CheckStopped(e) \/ Take(e)
          PROVE  /\ overtaken' = overtaken
                 /\ \A f \in Events : event'[f] \in {"queued", "handling"} =>
                      event[f] \in {"queued", "handling"}
      BY <1>0, <2>2 DEF CheckStopped, Take, Move, EventsOK, history
    <2>3. ASSUME NEW a \in Accounts, WorkerLeaves(a) \/ WorkerDone(a)
          PROVE  /\ overtaken' = overtaken
                 /\ \A f \in Events : event'[f] \in {"queued", "handling"} =>
                      event[f] \in {"queued", "handling"}
      BY <1>0, <2>3 DEF WorkerLeaves, WorkerDone, EventsOK, history
    <2> QED
      BY <1>0, <2>1, <2>2, <2>3 DEF NothingLostInTime
  <1>3. \A a \in Accounts : stopped[a] /\ Drained(a) => Drained(a)'
    BY <1>2 DEF Drained
  <1>4. StopsInOrder' /\ APIDrained'
    BY <1>0, <1>1 DEF StopsInOrder, StopsAfterSignal, APIDrained, Stoppers
  <1>5. QueuesInTime'
    <2> SUFFICES ASSUME "run" \notin late' PROVE QueuesInTime'
      BY DEF QueuesInTime
    <2>1. pc'["goroutine"] = pc["goroutine"] \/ (pc["goroutine"] = "parked" /\ pc'["goroutine"] = "woken")
      BY <1>1 DEF Stoppers
    <2> QED
      BY <1>0, <1>1, <1>3, <2>1 DEF QueuesInTime, InQueueStop
  <1>6. NothingLostInTime'
    BY <1>0, <1>1, <1>2 DEF NothingLostInTime
  <1> QED
    BY <1>4, <1>5, <1>6 DEF ShutdownOrder

(* The steps outside the shutdown: they move neither the stops nor what     *)
(* the stops close, and what is closed refuses them.                        *)
LEMMA OutsideStep ==
  ASSUME ShutdownInv,
         \/ Run \/ Exit
         \/ \E a \in Accounts : AddAccount(a) \/ Connect(a)
         \/ \E e \in Events : Handle(e)
         \/ \E q \in Calls : Call(q) \/ SendOne(q) \/ Answer(q)
  PROVE  ShutdownOrder'
  <1>0. StopsOK /\ EventsOK /\ CallsOK /\ GatewaysOK /\ StopsInOrder /\ APIDrained
        /\ QueuesInTime /\ NothingLostInTime
    BY TypeParts DEF ShutdownInv
  <1> USE DEF ShutdownOrder, StopsInOrder, StopsAfterSignal, APIDrained, QueuesInTime,
        NothingLostInTime, Stoppers, InQueueStop, stops, gateways, queues, history
  <1>1. CASE \E a \in Accounts : AddAccount(a) \/ Connect(a)
    BY <1>0, <1>1 DEF AddAccount, Connect, Drained
  <1>2. CASE Run \/ Exit
    BY <1>0, <1>2 DEF Run, Exit, Drained
  <1>5. ASSUME NEW e \in Events, Handle(e) PROVE ShutdownOrder'
    <2>1. db # "open" => "run" \in late \/ e \in overtaken
      <3>1. AccountOf[e] \in Accounts /\ AccountOf[e] # NONE /\ db \in {"open", "nil"}
        BY ManagerAssumption DEF ShutdownInv, TypeOK
      <3>2. event[e] = "handling"
        BY <1>5 DEF Handle
      <3>3. pc["goroutine"] = "done" => closing["goroutine"] = NONE
        BY <1>0 DEF StopsOK
      <3>4. Drained(AccountOf[e]) => e \in overtaken
        BY <3>2 DEF Drained
      <3> QED
        BY <1>0, <3>1, <3>3, <3>4
    <2>2. /\ lost' = IF db = "open" THEN lost ELSE lost \cup {e}
          /\ \A f \in Events : event'[f] \in {event[f], "over"}
          /\ UNCHANGED <<phase, cancelled, stopped, apiOpen, call, stops, db, late, overtaken, panicked>>
      BY <1>0, <1>5 DEF Handle, Move, EventsOK
    <2>3. NothingLostInTime'
      BY <1>0, <2>1, <2>2, ManagerAssumption
    <2>4. \A a \in Accounts : Drained(a) => Drained(a)'
      BY <2>2 DEF Drained
    <2> QED
      BY <1>0, <2>2, <2>3, <2>4
  <1>6. ASSUME NEW q \in Calls, Call(q) PROVE ShutdownOrder'
    BY <1>0, <1>6 DEF Call, Drained, CallsOK
  <1>7. ASSUME NEW q \in Calls, SendOne(q) PROVE ShutdownOrder'
    BY <1>0, <1>7 DEF SendOne, Drained
  <1>8. ASSUME NEW q \in Calls, Answer(q) PROVE ShutdownOrder'
    <2>1. db # "open" => "api" \in late
      <3>1. db \in {"open", "nil"}
        BY DEF ShutdownInv, TypeOK
      <3>2. call[q] \in Kinds
        BY <1>8 DEF Answer
      <3> QED
        BY <1>0, <3>1, <3>2
    <2>2. /\ lost' \in {lost, lost \cup {q}} /\ (db = "open" => lost' = lost)
          /\ \A c \in Calls : call'[c] \in {call[c], "done"} /\ "done" \notin Kinds
          /\ UNCHANGED <<phase, cancelled, stopped, apiOpen, event, stops, db, late, overtaken, panicked>>
      BY <1>0, <1>8 DEF Answer, CallsOK, Kinds, Writes
    <2>3. NothingLostInTime'
      BY <1>0, <2>1, <2>2, ManagerAssumption
    <2>4. \A a \in Accounts : Drained(a) => Drained(a)'
      BY <2>2 DEF Drained
    <2> QED
      BY <1>0, <2>2, <2>3, <2>4
  <1> QED
    BY <1>1, <1>2, <1>5, <1>6, <1>7, <1>8

(* The steps of the shutdown itself.                                        *)
LEMMA InsideStep ==
  ASSUME ShutdownInv,
         Signal \/ RunReturns \/ \E s \in Stoppers : Stop(s)
  PROVE  ShutdownOrder'
  <1>0. StopsOK /\ FlagsOK /\ GatewaysOK /\ StopsInOrder /\ APIDrained
        /\ QueuesInTime /\ NothingLostInTime /\ QueuesOK /\ QueueBooks /\ WaitsForNone
    BY TypeParts DEF ShutdownInv
  <1> USE DEF ShutdownOrder, StopsInOrder, StopsAfterSignal, APIDrained, QueuesInTime,
        NothingLostInTime, Stoppers, InQueueStop, stops, gateways, queues, history, StopsOK,
        StepTo
  <1>1. CASE Signal
    BY <1>0, <1>1 DEF Signal, Drained
  <1>2. CASE RunReturns
    BY <1>0, <1>2 DEF RunReturns, Drained
  <1>3. ASSUME NEW s \in Stoppers, CloseAPI(s) PROVE ShutdownOrder'
    BY <1>0, <1>3 DEF CloseAPI, Drained
  <1>4. ASSUME NEW s \in Stoppers, Cancel(s) PROVE ShutdownOrder'
    BY <1>0, <1>4 DEF Cancel, Drained
  <1>5. ASSUME NEW s \in Stoppers, CloseGateway(s) PROVE ShutdownOrder'
    <2>1. PICK a \in toClose[s] :
            /\ toClose' = [toClose EXCEPT ![s] = @ \ {a}]
            /\ stopped' = [stopped EXCEPT ![a] = TRUE]
            /\ IF stopped[a] THEN UNCHANGED <<closing, pc>>
               ELSE closing' = [closing EXCEPT ![s] = a] /\ StepTo(s, "waiting")
      BY <1>5 DEF CloseGateway
    <2>2. /\ pc[s] = "gateways" /\ pc'[s] \in {"gateways", "waiting"}
          /\ \A t \in Stoppers : t # s => pc'[t] = pc[t]
          /\ \A b \in Accounts : Drained(b)' = Drained(b)
          /\ UNCHANGED <<phase, cancelled, event, call, apiOpen, db, late, lost, overtaken, panicked>>
      BY <1>0, <1>5, <2>1 DEF CloseGateway, Drained
    <2>3. StopsInOrder' /\ APIDrained' /\ NothingLostInTime'
      BY <1>0, <2>2
    <2>4. CASE s = "deferred"
      <3>1. "run" \notin late => pc["goroutine"] = "done"
        BY <1>0, <2>2, <2>4
      <3>2. /\ pc'["goroutine"] = pc["goroutine"] /\ toClose'["goroutine"] = toClose["goroutine"]
            /\ closing'["goroutine"] = closing["goroutine"]
            /\ \A b \in Accounts : stopped[b] => stopped'[b]
        BY <1>0, <2>1, <2>2, <2>4 DEF GatewaysOK
      <3> QED
        BY <1>0, <2>2, <2>3, <3>1, <3>2
    <2>5. CASE s = "goroutine"
      <3>1. /\ a \in Accounts /\ toClose'["goroutine"] = toClose["goroutine"] \ {a}
            /\ stopped'[a] /\ \A b \in Accounts : b # a => stopped'[b] = stopped[b]
        BY <1>0, <2>1, <2>5 DEF GatewaysOK
      <3>2. ~stopped[a] => closing'["goroutine"] = a /\ pc'["goroutine"] = "waiting"
        BY <1>0, <2>1, <2>5
      <3>3. closing["goroutine"] = NONE
        BY <1>0, <2>2, <2>5
      <3>4. "run" \notin late => ~stopped[a]
        BY <1>0, <2>1, <2>2, <2>5
      <3>5. QueuesInTime'
        BY <1>0, <2>2, <2>5, <3>1, <3>2, <3>3, <3>4, ManagerAssumption
      <3> QED
        BY <2>3, <3>5
    <2> QED
      BY <2>4, <2>5
  <1>6. ASSUME NEW s \in Stoppers, StopWaits(s) \/ StopResumes(s) PROVE ShutdownOrder'
    <2> DEFINE a == closing[s]
    <2>1. a \in Accounts /\ stopped[a] /\ pc[s] \in {"waiting", "woken"}
      BY <1>0, <1>6, ManagerAssumption DEF StopWaits, StopResumes, WaitsForNone
    <2>2. /\ UNCHANGED <<phase, cancelled, stopped, event, call, apiOpen, toClose, db, late, lost, overtaken>>
          /\ \A t \in Stoppers : t # s => pc'[t] = pc[t] /\ closing'[t] = closing[t]
          /\ \/ group[a] = 0 /\ pc'[s] = "gateways" /\ closing'[s] = NONE /\ panicked' = panicked
             \/ pc[s] = "waiting" /\ pc'[s] = "parked" /\ closing'[s] = a /\ panicked' = panicked
             \/ pc[s] = "woken" /\ group[a] # 0 /\ pc'[s] = "woken" /\ closing'[s] = a
      BY <1>0, <1>6 DEF StopWaits, StopResumes, StopReturns
    <2>3. \A b \in Accounts : Drained(b)' = Drained(b)
      BY <2>2 DEF Drained
    <2>4. group[a] = 0 => Drained(a)
      <3>1. group[a] = 0 => ~worker[a]
        BY <1>0, <2>1 DEF QueueBooks, QueuesOK
      <3> QED
        BY <1>0, <3>1 DEF QueueBooks, Drained
    <2>5. panicked' => panicked \/ overtaken # {}
      BY <1>0, <2>2 DEF WaitsForNone
    <2> HIDE DEF a
    <2>6. StopsInOrder' /\ APIDrained' /\ NothingLostInTime'
      BY <1>0, <2>1, <2>2, <2>5
    <2>7. QueuesInTime'
      <3>1. CASE s = "deferred"
        BY <1>0, <2>1, <2>2, <2>3, <3>1
      <3>2. CASE s = "goroutine"
        BY <1>0, <2>1, <2>2, <2>3, <2>4, <3>2 DEF a
      <3> QED
        BY <3>1, <3>2
    <2> QED
      BY <2>6, <2>7
  <1>7. ASSUME NEW s \in Stoppers, AllClosed(s) PROVE ShutdownOrder'
    BY <1>0, <1>7 DEF AllClosed, Drained
  <1>8. ASSUME NEW s \in Stoppers, CloseDB(s) PROVE ShutdownOrder'
    BY <1>0, <1>8 DEF CloseDB, Drained, FlagsOK
  <1> QED
    BY <1>1, <1>2, <1>3, <1>4, <1>5, <1>6, <1>7, <1>8 DEF Stop

LEMMA ShutdownInvAlways == Spec => []ShutdownInv
  <1>1. ShutdownInv /\ [Next]_vars => ShutdownInv'
    <2> SUFFICES ASSUME ShutdownInv, [Next]_vars PROVE ShutdownInv'
      OBVIOUS
    <2>1. TypeOK' /\ StopsAfterSignal'
      BY TypeStep DEF ShutdownInv, StopsInOrder
    <2>2. CASE UNCHANGED vars
      BY <2>1, <2>2 DEF vars, stops, gateways, queues, history, ShutdownInv, StopsInOrder,
         APIDrained, QueuesInTime, NothingLostInTime, Drained, QueueBooks, OneOvertaken,
         WaitsForNone
    <2>3. CASE Next
      <3>1. QueueBooks' /\ OneOvertaken' /\ WaitsForNone'
        BY <2>3, BooksStep, WaitsStep
      <3>2. ShutdownOrder'
        BY <2>3, QueueStep, OutsideStep, InsideStep DEF Next
      <3> QED
        BY <2>1, <3>1, <3>2 DEF ShutdownOrder, ShutdownInv
    <2> QED
      BY <2>2, <2>3
  <1> QED
    BY InitShutdownInv, <1>1, PTL DEF Spec

(* Nothing accepted is lost in a shutdown that keeps to its deadlines: with *)
(* the database still open, every handled event and every answered request  *)
(* was written, and no Stop pulls it from under another or panics; only of  *)
(* one event per account, overtaken by the stop of its queue, it may not    *)
(* hold (run.go:203-238, botmanager.go:264-305, queue.go:67-110,            *)
(* server.go:107-113).                                                      *)
THEOREM NothingLost == Spec => []NothingLostInTime
  <1>1. ShutdownInv => NothingLostInTime
    BY DEF ShutdownInv
  <1> QED
    BY ShutdownInvAlways, <1>1, PTL

(* When Stop has returned in time nothing of the manager goes on but an     *)
(* overtaken event, however many accounts and events there are              *)
(* (botmanager.go:264-305, queue.go:67-110).                                *)
THEOREM QuietWhenStopped == Spec => []QuietAfterStop
  <1>1. ShutdownInv => QuietAfterStop
    <2> SUFFICES ASSUME ShutdownInv, pc["goroutine"] = "done", "run" \notin late
                 PROVE  /\ cancelled /\ db = "nil"
                        /\ \A a \in Accounts : stopped[a]
                        /\ \A e \in Events : event[e] \in {"queued", "handling"} => e \in overtaken
      BY DEF QuietAfterStop
    <2>1. closing["goroutine"] = NONE
      BY TypeParts DEF ShutdownInv, StopsOK, Stoppers, InQueueStop
    <2>2. /\ cancelled /\ db = "nil"
          /\ \A a \in Accounts : stopped[a] /\ (a # closing["goroutine"] => Drained(a))
      BY DEF ShutdownInv, QueuesInTime
    <2> QED
      BY <2>1, <2>2, ManagerAssumption DEF Drained
  <1> QED
    BY ShutdownInvAlways, <1>1, PTL
=============================================================================

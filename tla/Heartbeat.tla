------------------------------ MODULE Heartbeat ------------------------------
(***************************************************************************)
(* The heartbeat timers of internal/gateway/gateway.go: time.AfterFunc     *)
(* callbacks that write to whatever connection the gateway has when they   *)
(* run, against the loop that replaces the connection and stops and starts *)
(* the heartbeat, and against Close.                                       *)
(*                                                                         *)
(* A chain is a timer and the callbacks that arm it again.  The session    *)
(* side of the loop is in module Gateway; here it only connects, reads and *)
(* loses its connection, MaxConns times at most.                           *)
(***************************************************************************)
EXTENDS Integers

CONSTANTS
  Chains,          \* bound: heartbeat chains alive at once
  MaxConns         \* bound: connections the loop dials

ASSUME HeartbeatAssumption == MaxConns \in Nat /\ 0 \notin Chains

Conns == 1 .. MaxConns
NoConn == 0
NoTimer == 0

VARIABLES
  loopAt,          \* the loop: "dial" at the next level, "dialed", "hello",
                   \* "stop" and "start" the heartbeat, "read", "round" done,
                   \* "over"
  dials,           \* connections dialled so far; the last is the loop's own
  net,             \* of each connection: "new", "open", "closed"
  conn,            \* g.conn
  heartbeatTimer,  \* g.heartbeatTimer: the chain whose timer it is
  chain,           \* of each chain: "none", "armed", "fired", "write", "rearm"
  target,          \* the connection its callback writes to
  closeAt,         \* Close: "idle", "flag", "done"
  quit             \* the context of the loop is cancelled

timersVars ==
  <<loopAt, dials, net, conn, heartbeatTimer, chain, target, closeAt, quit>>

TimersOK ==
  /\ loopAt \in {"dial", "dialed", "hello", "stop", "start", "read", "round",
                 "over"}
  /\ dials \in 0 .. MaxConns
  /\ net \in [Conns -> {"new", "open", "closed"}]
  /\ conn \in Conns \cup {NoConn}
  /\ heartbeatTimer \in Chains \cup {NoTimer}
  /\ chain \in [Chains -> {"none", "armed", "fired", "write", "rearm"}]
  /\ target \in [Chains -> Conns \cup {NoConn}]
  /\ closeAt \in {"idle", "flag", "done"}
  /\ quit \in BOOLEAN
  /\ \A c \in Conns : net[c] = "new" <=> c > dials
  /\ \A h \in Chains : chain[h] \in {"write", "rearm"} => target[h] # NoConn

TimersInit ==
  /\ loopAt = "dial" /\ dials = 0
  /\ net = [c \in Conns |-> "new"]
  /\ conn = NoConn /\ heartbeatTimer = NoTimer
  /\ chain = [h \in Chains |-> "none"]
  /\ target = [h \in Chains |-> NoConn]
  /\ closeAt = "idle" /\ quit = FALSE

Up(c) == net[c] = "open"
LoopGoes(from, to) == loopAt = from /\ loopAt' = to

-----------------------------------------------------------------------------
(* tryConnect dials unless the context is cancelled; Close alone does not   *)
(* keep it from that.                                                       *)
DialConn ==
  /\ dials < MaxConns /\ ~quit
  /\ LoopGoes("dial", "dialed")
  /\ dials' = dials + 1
  /\ net' = [net EXCEPT ![dials + 1] = "open"]
  /\ UNCHANGED <<conn, heartbeatTimer, chain, target, closeAt, quit>>

(* g.conn is set behind the dial, whatever Close did in between.            *)
StoreConn ==
  /\ LoopGoes("dialed", "hello")
  /\ conn' = dials
  /\ UNCHANGED <<dials, net, heartbeatTimer, chain, target, closeAt, quit>>

(* Hello was read and Identify or Resume written.                           *)
Handshake ==
  /\ LoopGoes("hello", "stop")
  /\ Up(dials)
  /\ UNCHANGED <<dials, net, conn, heartbeatTimer, chain, target, closeAt, quit>>

(* tryConnect or readLoop returns an error: nothing is stopped or closed.   *)
ConnectionFails ==
  /\ loopAt \in {"hello", "read"} /\ loopAt' = "dial"
  /\ net' = [net EXCEPT ![dials] = "closed"]
  /\ UNCHANGED <<dials, conn, heartbeatTimer, chain, target, closeAt, quit>>

(* readLoop finds its context cancelled; the connection is left as it is.   *)
ReadLoopEnds ==
  /\ LoopGoes("read", "dial")
  /\ quit
  /\ UNCHANGED <<dials, net, conn, heartbeatTimer, chain, target, closeAt, quit>>

(* Timer.Stop prevents a timer that is armed from firing, no other.         *)
Disarm ==
  /\ chain' = [h \in Chains |->
       IF h = heartbeatTimer /\ chain[h] = "armed" THEN "none" ELSE chain[h]]
  /\ heartbeatTimer' = NoTimer

(* connectOnce returns to connectLoop, which stops the heartbeat as well.   *)
RoundEnds ==
  /\ LoopGoes("dial", "round")
  /\ Disarm
  /\ UNCHANGED <<dials, net, conn, target, closeAt, quit>>

(* The next round, or the loop gives up or finds its context cancelled.     *)
NextRound ==
  /\ \/ LoopGoes("round", "dial") /\ ~quit
     \/ LoopGoes("round", "over")
  /\ UNCHANGED <<dials, net, conn, heartbeatTimer, chain, target, closeAt, quit>>

(* tryConnect, once the handshake is written.                               *)
StopHeartbeat ==
  /\ LoopGoes("stop", "start")
  /\ Disarm
  /\ UNCHANGED <<dials, net, conn, target, closeAt, quit>>

\* Mutant: the heartbeat is stopped once more after it is started.
StartThenStop ==
  /\ LoopGoes("start", "read")
  /\ heartbeatTimer' = NoTimer
  /\ UNCHANGED <<dials, net, conn, chain, target, closeAt, quit>>

StartHeartbeat ==
  /\ LoopGoes("start", "read")
  /\ \E h \in Chains :
       /\ chain[h] = "none"
       /\ chain' = [chain EXCEPT ![h] = "armed"]
       /\ heartbeatTimer' = h
  /\ UNCHANGED <<dials, net, conn, target, closeAt, quit>>

-----------------------------------------------------------------------------
CallbackStep(h, from, to) ==
  /\ chain[h] = from
  /\ chain' = [chain EXCEPT ![h] = to]
  /\ UNCHANGED <<loopAt, dials, net, conn, closeAt, quit>>

Fire(h) == CallbackStep(h, "armed", "fired") /\ UNCHANGED <<heartbeatTimer, target>>

\* Mutant: a callback that finds no connection waits for the next one.
GetConnAnyway(h) ==
  /\ CallbackStep(h, "fired", IF conn = NoConn THEN "rearm" ELSE "write")
  /\ target' = [target EXCEPT ![h] = conn]
  /\ UNCHANGED heartbeatTimer

(* sendHeartbeat takes the gateway's connection, if there is one.           *)
GetConn(h) ==
  /\ CallbackStep(h, "fired", IF conn = NoConn THEN "none" ELSE "write")
  /\ target' = [target EXCEPT ![h] = conn]
  /\ UNCHANGED heartbeatTimer

(* WriteJSON, which fails on a closed connection and ends the chain.        *)
WriteHeartbeat(h) ==
  /\ CallbackStep(h, "write", IF Up(target[h]) THEN "rearm" ELSE "none")
  /\ UNCHANGED <<heartbeatTimer, target>>

(* The new timer replaces g.heartbeatTimer, whatever that is by now.        *)
Rearm(h) ==
  /\ CallbackStep(h, "rearm", "armed")
  /\ target' = [target EXCEPT ![h] = NoConn]
  /\ heartbeatTimer' = h

-----------------------------------------------------------------------------
CloseTimers ==
  /\ closeAt = "idle" /\ closeAt' = "flag"
  /\ Disarm
  /\ UNCHANGED <<loopAt, dials, net, conn, target, quit>>

CloseSocket ==
  /\ closeAt = "flag" /\ closeAt' = "done"
  /\ net' = IF conn # NoConn THEN [net EXCEPT ![conn] = "closed"] ELSE net
  /\ conn' = NoConn
  /\ UNCHANGED <<loopAt, dials, heartbeatTimer, chain, target, quit>>

(* The context of the loop: BotManager.Stop cancels it before it calls      *)
(* Close, Close alone once its connection is closed and its queue stopped.  *)
CancelLoop ==
  /\ ~quit /\ quit' = TRUE
  /\ UNCHANGED <<loopAt, dials, net, conn, heartbeatTimer, chain, target, closeAt>>

(* The peer or the net drops a connection the loop has left open.           *)
LeftoverDrops ==
  /\ loopAt = "over"
  /\ \E c \in Conns : Up(c) /\ net' = [net EXCEPT ![c] = "closed"]
  /\ UNCHANGED <<loopAt, dials, conn, heartbeatTimer, chain, target, closeAt, quit>>

TimersEnded ==
  /\ loopAt = "over" /\ closeAt = "done" /\ \A h \in Chains : chain[h] = "none"
  /\ UNCHANGED timersVars

Callback(h) == Fire(h) \/ GetConn(h) \/ WriteHeartbeat(h) \/ Rearm(h)

TimersNext ==
  \/ DialConn \/ StoreConn \/ Handshake \/ ConnectionFails \/ ReadLoopEnds
  \/ RoundEnds \/ NextRound \/ StopHeartbeat \/ StartHeartbeat
  \/ \E h \in Chains : Callback(h)
  \/ CloseTimers \/ CloseSocket \/ CancelLoop \/ LeftoverDrops \/ TimersEnded

TimersSpec == TimersInit /\ [][TimersNext]_timersVars

(* Timers fire and their callbacks run; the loop goes on from the handshake *)
(* to the read loop, and a read of a closed connection returns.             *)
TimersFairness ==
  /\ \A h \in Chains : WF_timersVars(Callback(h))
  /\ WF_timersVars(StopHeartbeat \/ StartHeartbeat)
  /\ WF_timersVars(loopAt \in {"hello", "read"} /\ ~Up(dials) /\ ConnectionFails)

TimersFairSpec == TimersSpec /\ TimersFairness

-----------------------------------------------------------------------------
(* While the loop reads a connection that is up, some chain goes on writing *)
(* heartbeats to it, whatever old callbacks stopped or replaced             *)
(* (gateway.go:255-258, 400-438).  Close ends that.                         *)
GoesOn(h) ==
  \/ chain[h] \in {"armed", "fired", "rearm"}
  \/ chain[h] = "write" /\ target[h] = dials
HeartbeatKept ==
  loopAt = "read" /\ Up(dials) /\ closeAt = "idle" => \E h \in Chains : GoesOn(h)

(* Once its loop is over, every chain of a gateway ends, those of earlier   *)
(* connections as well, unless the gateway has been left a connection that  *)
(* stays up: Close before the context lets the loop dial once more and      *)
(* store what nobody closes, and a callback that stopHeartbeat missed goes  *)
(* on beating on it (gateway.go:194-196, 408-428, 441-449).                 *)
HeartbeatsEnd ==
  loopAt = "over" /\ (conn = NoConn \/ ~Up(conn)) ~> \A h \in Chains : chain[h] = "none"

=============================================================================

------------------------------- MODULE Gateway -------------------------------
(***************************************************************************)
(* internal/gateway/gateway.go with the session row of                     *)
(* internal/store/session.go: the connect loop of one account, the caller  *)
(* of Close, the process crashing and starting again, and the QQ server at *)
(* the other end of the WebSocket.                                         *)
(*                                                                         *)
(* One step is one blocking call of the loop (dial, read, timer), one      *)
(* message handled, one write of the row or one stage of Close.  The       *)
(* heartbeat timers are in module Heartbeat, the queue in MessageQueue.    *)
(***************************************************************************)
EXTENDS Integers, FiniteSets

CONSTANTS
  Levels,          \* len(types.DefaultIntentLevels)
  MaxAttempts,     \* reconnect.MaxAttempts
  MaxSessions,     \* bound: sessions the server creates
  MaxSeq,          \* bound: sequence numbers of one session
  MaxCrashes       \* bound: crashes of the process

ASSUME GatewayAssumption ==
  /\ Levels \in Nat \ {0}
  /\ MaxAttempts \in Nat
  /\ MaxSessions \in Nat
  /\ MaxSeq \in Nat \ {0}
  /\ MaxCrashes \in Nat

Sids == 1 .. MaxSessions
NoSid == 0                             \* the empty session ID
NoRow == [sid |-> NoSid, seq |-> 0, intent |-> 0, fresh |-> FALSE]

VARIABLES
  lpc,             \* where the goroutine of connectLoop is
  level,           \* levelIdx of connectOnce
  attempts,        \* reconnectAttempts
  intentIndex,     \* g.intentIndex
  sessionID,       \* g.sessionID
  lastSeq,         \* g.lastSeq
  connected,       \* g.connected
  ready,           \* g.readyCh is closed
  hasConn,         \* g.conn # nil
  link,            \* the loop's connection: "none", "open", or "closed" by us,
                   \* the peer or the network, which a read does not tell apart
  ctxDone,         \* the context of the loop is cancelled
  clpc,            \* where the caller of Close is
  row,             \* the account's row of the sessions table
  crashes,
  server,          \* the server's end of the connection: [mode, sid, cur]
  sessions,        \* the level each session was identified at, by session ID
  dead,            \* sessions the server has declared invalid
  delivered,       \* history: events passed to Enqueue, as <<sid, seq>>
  thisRun,         \* history: those passed since the process started
  told             \* history: sessions this process was told are invalid

memory   == <<level, attempts, intentIndex, sessionID, lastSeq, connected,
              ready, hasConn>>
external == <<server, sessions, dead>>
history  == <<delivered, thisRun, told>>
vars == <<lpc, memory, link, ctxDone, clpc, row, crashes, external, history>>

LoopStates == {"off", "top", "url", "level", "dial", "dialed", "hello", "auth",
               "enter", "check", "read", "seq", "after", "delay", "stopped"}
Reading == {"check", "read", "seq"}
Idle == [mode |-> "none", sid |-> NoSid, cur |-> 0]

TypeOK ==
  /\ lpc \in LoopStates
  /\ level \in 0 .. Levels
  /\ attempts \in 0 .. MaxAttempts
  /\ intentIndex \in 0 .. Levels - 1
  /\ sessionID \in Sids \cup {NoSid}
  /\ lastSeq \in 0 .. MaxSeq
  /\ connected \in BOOLEAN /\ ready \in BOOLEAN /\ hasConn \in BOOLEAN
  /\ link \in {"none", "open", "closed"}
  /\ ctxDone \in BOOLEAN
  /\ clpc \in {"idle", "conn", "cancel", "done"}
  /\ row \in [sid : Sids \cup {NoSid}, seq : 0 .. MaxSeq,
              intent : 0 .. Levels - 1, fresh : BOOLEAN]
  /\ crashes \in 0 .. MaxCrashes
  /\ server \in [mode : {"none", "identify", "resume", "live"},
                 sid : Sids \cup {NoSid}, cur : 0 .. MaxSeq]
  /\ sessions \in [Sids -> (0 .. Levels - 1) \cup {-1}]
  /\ dead \in SUBSET Sids
  /\ delivered \in SUBSET (Sids \X (1 .. MaxSeq))
  /\ thisRun \in SUBSET delivered
  /\ told \in SUBSET dead

\* NewGateway: nothing is connected.
Init ==
  /\ lpc = "off" /\ level = 0 /\ attempts = 0 /\ intentIndex = 0
  /\ sessionID = NoSid /\ lastSeq = 0
  /\ connected = FALSE /\ ready = FALSE /\ hasConn = FALSE
  /\ link = "none" /\ ctxDone = FALSE /\ clpc = "idle"
  /\ row = NoRow /\ crashes = 0
  /\ server = Idle /\ sessions = [s \in Sids |-> -1] /\ dead = {}
  /\ delivered = {} /\ thisRun = {} /\ told = {}

LoopStep(from, to) == lpc = from /\ lpc' = to

-----------------------------------------------------------------------------
(* SessionStore.Load as Connect uses it: an expired row is deleted (a row   *)
(* of another app ID as well), a missing one leaves the gateway as it was.  *)
Load ==
  IF row.sid # NoSid /\ row.fresh
  THEN /\ sessionID' = row.sid
       /\ lastSeq' = row.seq
       /\ intentIndex' = row.intent
       /\ UNCHANGED row
  ELSE /\ row' = NoRow
       /\ UNCHANGED <<sessionID, lastSeq, intentIndex>>

Connect ==
  /\ LoopStep("off", "top")
  /\ Load
  /\ ready' = FALSE
  /\ attempts' = 0
  /\ UNCHANGED <<level, connected, hasConn, link, ctxDone, clpc, crashes,
                 external, history>>

(* The head of connectLoop; reconnectAttempts never goes back to zero.      *)
LoopTop ==
  /\ LoopStep("top", IF ctxDone \/ attempts >= MaxAttempts THEN "stopped" ELSE "url")
  /\ UNCHANGED <<memory, link, ctxDone, clpc, row, crashes, external, history>>

(* getGatewayURLAndToken, which fails on its own or with the context.       *)
GetURL ==
  /\ \/ LoopStep("url", "level") /\ ~ctxDone /\ level' = intentIndex
     \/ LoopStep("url", "after") /\ UNCHANGED level
  /\ UNCHANGED <<attempts, intentIndex, sessionID, lastSeq, connected, ready,
                 hasConn, link, ctxDone, clpc, row, crashes, external, history>>

(* The head of the loop over the levels.                                    *)
TryLevel ==
  /\ \/ /\ LoopStep("level", "dial")
        /\ level < Levels /\ ~ctxDone
        /\ intentIndex' = level
     \/ /\ LoopStep("level", "after")
        /\ level = Levels \/ ctxDone
        /\ UNCHANGED intentIndex
  /\ UNCHANGED <<level, attempts, sessionID, lastSeq, connected, ready,
                 hasConn, link, ctxDone, clpc, row, crashes, external, history>>

(* tryConnect returned an error, as it always does: on to the next level.   *)
NextLevel(from) ==
  /\ LoopStep(from, "level")
  /\ level' = level + 1
  /\ UNCHANGED <<attempts, intentIndex, sessionID, lastSeq, ready, hasConn,
                 ctxDone, clpc, row, crashes, external, history>>

Dial ==
  /\ ~ctxDone
  /\ LoopStep("dial", "dialed")
  /\ link' = "open"
  /\ server' = Idle
  /\ UNCHANGED <<memory, ctxDone, clpc, row, crashes, sessions, dead, history>>

DialFails == NextLevel("dial") /\ UNCHANGED <<connected, link>>

SetConn ==
  /\ LoopStep("dialed", "hello")
  /\ hasConn' = TRUE
  /\ UNCHANGED <<level, attempts, intentIndex, sessionID, lastSeq, connected,
                 ready, link, ctxDone, clpc, row, crashes, external, history>>

Hello ==
  /\ link = "open"
  /\ LoopStep("hello", "auth")
  /\ UNCHANGED <<memory, link, ctxDone, clpc, row, crashes, external, history>>

(* No Hello: the read fails, or what came is not a Hello.                   *)
HelloFails ==
  /\ NextLevel("hello")
  /\ link' = IF link = "open" THEN "closed" ELSE link
  /\ UNCHANGED connected

\* Mutant: the Resume asks for what follows the next event.
AuthenticateOneAhead ==
  /\ link = "open"
  /\ LoopStep("auth", "enter")
  /\ server' = IF sessionID # NoSid
               THEN [mode |-> "resume", sid |-> sessionID, cur |-> lastSeq + 1]
               ELSE [mode |-> "identify", sid |-> NoSid, cur |-> 0]
  /\ UNCHANGED <<memory, link, ctxDone, clpc, row, crashes, sessions, dead,
                 history>>

(* Resume when there is a session, else Identify at this level.             *)
Authenticate ==
  /\ link = "open"
  /\ LoopStep("auth", "enter")
  /\ server' = IF sessionID # NoSid
               THEN [mode |-> "resume", sid |-> sessionID, cur |-> lastSeq]
               ELSE [mode |-> "identify", sid |-> NoSid, cur |-> 0]
  /\ UNCHANGED <<memory, link, ctxDone, clpc, row, crashes, sessions, dead,
                 history>>

AuthenticateFails ==
  /\ NextLevel("auth")
  /\ link' = IF link = "open" THEN "closed" ELSE link
  /\ UNCHANGED connected

(* readLoop takes g.conn again, which Close may have reset.                 *)
EnterReadLoop ==
  /\ hasConn
  /\ LoopStep("enter", "check")
  /\ UNCHANGED <<memory, link, ctxDone, clpc, row, crashes, external, history>>

NoConnection ==
  /\ ~hasConn
  /\ NextLevel("enter")
  /\ UNCHANGED <<connected, link>>

\* Mutant: the read loop does not look at the context.
CheckIgnoresContext ==
  /\ LoopStep("check", "read")
  /\ UNCHANGED <<memory, link, ctxDone, clpc, row, crashes, external, history>>

(* The context is looked at before a read, never during one.                *)
CheckContext ==
  /\ ~ctxDone
  /\ LoopStep("check", "read")
  /\ UNCHANGED <<memory, link, ctxDone, clpc, row, crashes, external, history>>

ReadLoopCancelled ==
  /\ ctxDone
  /\ NextLevel("check")
  /\ UNCHANGED <<connected, link>>

(* ReadMessage fails: we closed the connection, or the peer or net dropped  *)
(* it.                                                                      *)
ReadFails ==
  /\ NextLevel("read")
  /\ link' = IF link = "open" THEN "closed" ELSE link
  /\ connected' = FALSE

(* A message arrives; what it may be depends on the server's end.           *)
Receive(modes) ==
  /\ link = "open"
  /\ server.mode \in modes
  /\ LoopStep("read", "seq")

(* READY: a new session.  saveSession stores it with the current level.     *)
OnReady ==
  /\ Receive({"identify"})
  /\ \E s \in Sids :
       /\ sessions[s] = -1
       /\ \A t \in Sids : t < s => sessions[t] # -1
       /\ sessions' = [sessions EXCEPT ![s] = level]
       /\ server' = [mode |-> "live", sid |-> s, cur |-> 1]
       /\ sessionID' = s
       /\ row' = [sid |-> s, seq |-> 1, intent |-> intentIndex, fresh |-> TRUE]
  /\ lastSeq' = 1
  /\ connected' = TRUE
  /\ ready' = TRUE
  /\ UNCHANGED <<level, attempts, intentIndex, hasConn, link, ctxDone, clpc,
                 crashes, dead, history>>

(* RESUMED carries no session data.                                         *)
OnResumed ==
  /\ Receive({"resume"})
  /\ server.sid \notin dead
  /\ server' = [server EXCEPT !.mode = "live"]
  /\ connected' = TRUE
  /\ ready' = TRUE
  /\ UNCHANGED <<level, attempts, intentIndex, sessionID, lastSeq, hasConn, link,
                 ctxDone, clpc, row, crashes, sessions, dead, history>>

(* A message event: seq first, then Enqueue, whose result is ignored.  A    *)
(* resumed session is replayed from the sequence number of the Resume.      *)
OnEvent ==
  LET n == server.cur + 1 IN
  /\ Receive({"resume", "live"})
  /\ server.sid \notin dead
  /\ n <= MaxSeq
  /\ server' = [server EXCEPT !.cur = n]
  /\ lastSeq' = n
  /\ delivered' = delivered \cup {<<server.sid, n>>}
  /\ thisRun' = thisRun \cup {<<server.sid, n>>}
  /\ UNCHANGED <<level, attempts, intentIndex, sessionID, connected, ready,
                 hasConn, link, ctxDone, clpc, row, crashes, sessions, dead,
                 told>>

CloseLink == link' = IF hasConn /\ link = "open" THEN "closed" ELSE link

OnReconnect ==
  /\ Receive({"identify", "resume", "live"})
  /\ connected' = FALSE
  /\ CloseLink
  /\ UNCHANGED <<level, attempts, intentIndex, sessionID, lastSeq, ready, hasConn,
                 ctxDone, clpc, row, crashes, external, history>>

\* Mutant: the sequence number is reset although the session is kept.
OnInvalidResetsSeq ==
  /\ Receive({"resume", "live"})
  /\ server.sid \notin dead
  /\ lastSeq' = 0
  /\ connected' = FALSE
  /\ CloseLink
  /\ UNCHANGED <<level, attempts, intentIndex, sessionID, ready, hasConn,
                 ctxDone, clpc, row, crashes, external, history>>

(* canResume = true: the connection is closed, the session kept.            *)
OnInvalidResumable ==
  /\ Receive({"resume", "live"})
  /\ server.sid \notin dead
  /\ connected' = FALSE
  /\ CloseLink
  /\ UNCHANGED <<level, attempts, intentIndex, sessionID, lastSeq, ready, hasConn,
                 ctxDone, clpc, row, crashes, external, history>>

\* Mutant: only the sequence number is reset.
OnInvalidKeepsSession ==
  /\ Receive({"identify", "resume", "live"})
  /\ lastSeq' = 0
  /\ intentIndex' = IF intentIndex < Levels - 1 THEN intentIndex + 1 ELSE intentIndex
  /\ connected' = FALSE
  /\ CloseLink
  /\ dead' = dead \cup ({server.sid} \ {NoSid})
  /\ told' = told \cup ({server.sid} \ {NoSid})
  /\ server' = Idle
  /\ UNCHANGED <<level, attempts, sessionID, ready, hasConn, ctxDone, clpc, row,
                 crashes, sessions, delivered, thisRun>>

\* Mutant: the last level is not checked before the index is raised.
OnInvalidPastLast ==
  /\ Receive({"identify", "resume", "live"})
  /\ sessionID' = NoSid
  /\ lastSeq' = 0
  /\ intentIndex' = intentIndex + 1
  /\ connected' = FALSE
  /\ CloseLink
  /\ dead' = dead \cup ({server.sid} \ {NoSid})
  /\ told' = told \cup ({server.sid} \ {NoSid})
  /\ server' = Idle
  /\ UNCHANGED <<level, attempts, ready, hasConn, ctxDone, clpc, row, crashes,
                 sessions, delivered, thisRun>>

(* canResume = false: the session is forgotten in memory, the row stays,    *)
(* although architecture.md:309 says that the session is cleared.           *)
OnInvalidSession ==
  /\ Receive({"identify", "resume", "live"})
  /\ sessionID' = NoSid
  /\ lastSeq' = 0
  /\ intentIndex' = IF intentIndex < Levels - 1 THEN intentIndex + 1 ELSE intentIndex
  /\ connected' = FALSE
  /\ CloseLink
  /\ dead' = dead \cup ({server.sid} \ {NoSid})
  /\ told' = told \cup ({server.sid} \ {NoSid})
  /\ server' = Idle
  /\ UNCHANGED <<level, attempts, ready, hasConn, ctxDone, clpc, row, crashes,
                 sessions, delivered, thisRun>>

(* UpdateLastSeq after the message is handled; saved_at is not touched.     *)
PersistSeq ==
  /\ LoopStep("seq", "check")
  /\ row' = IF row.sid # NoSid THEN [row EXCEPT !.seq = lastSeq] ELSE row
  /\ UNCHANGED <<memory, link, ctxDone, clpc, crashes, external, history>>

(* connectOnce returned to connectLoop.                                     *)
AfterConnectOnce ==
  /\ LoopStep("after", "delay")
  /\ connected' = FALSE
  /\ UNCHANGED <<level, attempts, intentIndex, sessionID, lastSeq, ready, hasConn,
                 link, ctxDone, clpc, row, crashes, external, history>>

\* Mutant: the attempts are not counted.
DelayUncounted ==
  /\ LoopStep("delay", IF ctxDone THEN "stopped" ELSE "top")
  /\ UNCHANGED <<memory, link, ctxDone, clpc, row, crashes, external, history>>

(* The select of connectLoop: both may be ready.                            *)
Delay ==
  /\ \/ LoopStep("delay", "stopped") /\ ctxDone /\ UNCHANGED attempts
     \/ LoopStep("delay", "top") /\ attempts' = attempts + 1
  /\ UNCHANGED <<level, intentIndex, sessionID, lastSeq, connected, ready, hasConn,
                 link, ctxDone, clpc, row, crashes, external, history>>

(* What the loop does on its own, and what arrives from the peer.           *)
Loop ==
  \/ LoopTop \/ GetURL \/ TryLevel \/ Dial \/ DialFails \/ SetConn
  \/ Hello \/ HelloFails \/ Authenticate \/ AuthenticateFails
  \/ EnterReadLoop \/ NoConnection \/ CheckContext \/ ReadLoopCancelled
  \/ PersistSeq \/ AfterConnectOnce \/ Delay

Message ==
  \/ OnReady \/ OnResumed \/ OnEvent \/ OnReconnect
  \/ OnInvalidResumable \/ OnInvalidSession

-----------------------------------------------------------------------------
CloseStep(from, to) == clpc = from /\ clpc' = to

(* Close: connected, then the connection, then queue.Stop, which waits for  *)
(* the handlers, and only then the loop's context.                          *)
CloseBegin ==
  /\ lpc # "off"
  /\ CloseStep("idle", "conn")
  /\ connected' = FALSE
  /\ UNCHANGED <<lpc, level, attempts, intentIndex, sessionID, lastSeq, ready,
                 hasConn, link, ctxDone, row, crashes, external, history>>

CloseConn ==
  /\ CloseStep("conn", "cancel")
  /\ CloseLink
  /\ hasConn' = FALSE
  /\ UNCHANGED <<lpc, level, attempts, intentIndex, sessionID, lastSeq, connected,
                 ready, ctxDone, row, crashes, external, history>>

(* queue.Stop has returned, which takes as long as the handlers.            *)
CloseCancel ==
  /\ CloseStep("cancel", "done")
  /\ ctxDone' = TRUE
  /\ UNCHANGED <<lpc, memory, link, row, crashes, external, history>>

Close == CloseBegin \/ CloseConn \/ CloseCancel

(* BotManager.Stop cancels the context before it calls Close.               *)
CancelParent ==
  /\ lpc # "off" /\ ~ctxDone
  /\ ctxDone' = TRUE
  /\ UNCHANGED <<lpc, memory, link, clpc, row, crashes, external, history>>

(* The process dies or is stopped, and starts again with the row it left.   *)
Crash ==
  /\ lpc # "off"
  /\ crashes < MaxCrashes
  /\ crashes' = crashes + 1
  /\ lpc' = "off" /\ level' = 0 /\ attempts' = 0 /\ intentIndex' = 0
  /\ sessionID' = NoSid /\ lastSeq' = 0
  /\ connected' = FALSE /\ ready' = FALSE /\ hasConn' = FALSE
  /\ link' = "none" /\ ctxDone' = FALSE /\ clpc' = "idle"
  /\ server' = Idle /\ thisRun' = {} /\ told' = {}
  /\ UNCHANGED <<row, sessions, dead, delivered>>

(* Five minutes pass since saved_at, which only READY sets.                 *)
RowExpires ==
  /\ row.fresh
  /\ row' = [row EXCEPT !.fresh = FALSE]
  /\ UNCHANGED <<lpc, memory, link, ctxDone, clpc, crashes, external, history>>

(* The loop has ended and so has every caller: nothing happens any more.    *)
Ended ==
  /\ lpc = "stopped" /\ clpc = "done" /\ crashes = MaxCrashes
  /\ UNCHANGED vars

Next ==
  \/ Connect \/ Loop \/ Message \/ ReadFails
  \/ Close \/ CancelParent \/ Crash \/ RowExpires \/ Ended

Spec == Init /\ [][Next]_vars

(* The goroutine of the loop runs; the server says Hello or hangs up, and   *)
(* answers an Identify or Resume, or the connection breaks.  A live server  *)
(* may stay silent for ever.  The caller of Close goes on once it began.    *)
Fairness ==
  /\ WF_vars(Loop)
  /\ WF_vars(server.mode \in {"identify", "resume"} /\ (Message \/ ReadFails))
  /\ WF_vars(link # "open" /\ ReadFails)
  /\ WF_vars(CloseConn \/ CloseCancel)

FairSpec == Spec /\ Fairness

-----------------------------------------------------------------------------
(* Within a session no event is passed over: across drops, resumes, crashes *)
(* and the row's round trip, an event reaches Enqueue only after all those  *)
(* before it (gateway.go:290-301, 222-233, session.go:96-107).              *)
NoGap ==
  \A e \in delivered : \A m \in 2 .. e[2] - 1 : <<e[1], m>> \in delivered

(* Gateway is an EventStream: the session in memory is the one events are   *)
(* taken from, and the sequence number in memory is how far.                *)
Stream == INSTANCE EventStream WITH
  Sessions <- Sids, Places <- 0 .. MaxSeq, NONE <- NoSid,
  running  <- lpc # "off",
  current  <- sessionID,
  place    <- lastSeq,
  taken    <- delivered,
  opened   <- {s \in Sids : sessions[s] # -1},
  ended    <- dead

(* However often the connection drops, the session is rejected or the       *)
(* process starts again, the gateway hands on what EventStream promises: it *)
(* keeps its session until the server ends it, takes every event once and   *)
(* in order, and a restart takes at most the last one again                 *)
(* (gateway.go:90-385, session.go:66-107).                                  *)
ImplementsStream == Stream!SSpec

(* While one process runs, the server never replays to it an event it has   *)
(* already enqueued: the Resume names the last one (gateway.go:228-232).    *)
NoRedelivery ==
  server.mode \in {"resume", "live"} =>
    \A e \in thisRun : e[1] = server.sid => e[2] <= server.cur

(* The stored level is the one the stored session was identified with, so a *)
(* restart falls back from the right one (gateway.go:174, 523-538).         *)
RowLevel == row.sid # NoSid => sessions[row.sid] = row.intent

(* A gateway counts as connected only while its loop reads a connection;    *)
(* one whose loop has given up does not (gateway.go:148, 280).              *)
ConnectedMeansReading == connected => lpc \in Reading \cup {"level", "after"}

(* A session the server declared invalid to this process is neither held    *)
(* nor resumed by it again, whatever came before: every process and every   *)
(* rejection (gateway.go:329-333, 222).  The row still holds the session,   *)
(* so the next process may resume it once more until it is told as well;    *)
(* nothing but the row brings it back (gateway.go:109-120).                 *)
RejectedNotResumed ==
  /\ sessionID \notin told
  /\ server.mode = "resume" => server.sid \notin told
  /\ sessionID \in dead => sessionID = row.sid

(* What the loop remembers of a session is true of it, in every process and *)
(* over drops: the level of its row, the connected flag, and that this      *)
(* process was told it is invalid (gateway.go:148, 174, 280, 329-333).      *)
MemoryTrue == RowLevel /\ ConnectedMeansReading /\ RejectedNotResumed

(* While a process runs its intent level only goes down the list            *)
(* (gateway.go:167-174, 334-336).                                           *)
LevelOnlyFalls ==
  [][lpc # "off" /\ lpc' # "off" => intentIndex' >= intentIndex]_vars

(* The loop never hangs short of a connection: from every round it reaches  *)
(* connected, or gives up for good (gateway.go:127-158).                    *)
KeepsTrying == lpc = "top" ~> connected \/ lpc \in {"stopped", "off"}

(* In the order BotManager.Stop uses, context first and Close second, the   *)
(* loop ends even when the server stays silent (botmanager.go:268-285).     *)
ShutdownStops == ctxDone /\ clpc = "conn" ~> lpc \in {"stopped", "off"}

=============================================================================

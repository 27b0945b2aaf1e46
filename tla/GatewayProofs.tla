---------------------------- MODULE GatewayProofs ----------------------------
(***************************************************************************)
(* Theorems about Gateway for any number of levels, attempts, sessions,    *)
(* sequence numbers and crashes, and about the heartbeat timers beside it  *)
(* (module Heartbeat) for any chains and connections.                      *)
(***************************************************************************)
EXTENDS Gateway, Heartbeat, TLAPS

Connecting == {"dial", "dialed", "hello", "auth"}
Attached   == {"enter", "check", "read", "seq"}
Working    == LoopStates \ {"off", "top", "stopped"}

(* A gateway that is not started knows of no session and no server.         *)
OffIsFresh ==
  lpc = "off" =>
    /\ sessionID = NoSid /\ lastSeq = 0 /\ server = Idle
    /\ thisRun = {} /\ told = {}
    /\ ~connected

(* Where the loop stands in the list of levels and in its attempts.         *)
LevelTried ==
  /\ lpc \in Working => attempts < MaxAttempts
  /\ lpc = "level" => intentIndex <= level
  /\ lpc \in Connecting => intentIndex = level
  /\ lpc \in Connecting \cup Attached => level < Levels
  /\ lpc \in Attached =>
       /\ intentIndex <= level + 1
       /\ server.mode # "none" => intentIndex = level

(* The server's end follows the session in memory, and the row holds the    *)
(* session in memory, if there is one.                                      *)
ServerFollows ==
  /\ server.mode \in {"resume", "live"} =>
       server.sid = sessionID /\ server.cur = lastSeq /\ sessionID # NoSid
  /\ server.mode \in {"none", "identify"} => server.sid = NoSid
  /\ sessionID # NoSid => row.sid = sessionID
  /\ sessionID = NoSid => lastSeq = 0

(* What is known of a session was created by the server.                    *)
OnlyCreated ==
  /\ \A e \in delivered : sessions[e[1]] # -1
  /\ \A s \in dead : sessions[s] # -1
  /\ sessionID # NoSid => sessions[sessionID] # -1
  /\ sessionID \notin told

(* Every event of session s up to n has been enqueued.                      *)
Through(s, n) == \A m \in 2 .. n : <<s, m>> \in delivered

SeqIsCovered ==
  /\ Through(sessionID, lastSeq)
  /\ Through(row.sid, row.seq)
  /\ \A e \in thisRun : e[1] = sessionID => e[2] <= lastSeq

(* The connected flag outlives the read loop only to be cleared.            *)
FlagIsShortLived ==
  connected => \/ lpc \in Reading \cup {"after"}
               \/ lpc = "level" /\ ctxDone

(* The inductive invariant.                                                 *)
IInv ==
  /\ TypeOK
  /\ OffIsFresh
  /\ LevelTried
  /\ ServerFollows
  /\ OnlyCreated
  /\ SeqIsCovered
  /\ FlagIsShortLived
  /\ NoGap
  /\ RowLevel

-----------------------------------------------------------------------------
(* TypeOK in two parts: what the loop keeps, and the row, the server and    *)
(* the histories.                                                           *)
LoopTyped ==
  /\ lpc \in LoopStates
  /\ level \in 0 .. Levels
  /\ attempts \in 0 .. MaxAttempts
  /\ intentIndex \in 0 .. Levels - 1
  /\ sessionID \in Sids \cup {NoSid}
  /\ lastSeq \in 0 .. MaxSeq
  /\ connected \in BOOLEAN /\ ready \in BOOLEAN /\ hasConn \in BOOLEAN
  /\ link \in {"none", "open", "closed"}
  /\ ctxDone \in BOOLEAN
  /\ clpc \in {"idle", "conn", "cancel", "done"}
  /\ crashes \in 0 .. MaxCrashes

WorldTyped ==
  /\ row \in [sid : Sids \cup {NoSid}, seq : 0 .. MaxSeq,
              intent : 0 .. Levels - 1, fresh : BOOLEAN]
  /\ server \in [mode : {"none", "identify", "resume", "live"},
                 sid : Sids \cup {NoSid}, cur : 0 .. MaxSeq]
  /\ sessions \in [Sids -> (0 .. Levels - 1) \cup {-1}]
  /\ dead \in SUBSET Sids
  /\ delivered \in SUBSET (Sids \X (1 .. MaxSeq))
  /\ thisRun \in SUBSET delivered
  /\ told \in SUBSET dead

LEMMA TypeParts == TypeOK <=> LoopTyped /\ WorldTyped
  BY DEF TypeOK, LoopTyped, WorldTyped

LEMMA InitIInv == Init => IInv
  <1> SUFFICES ASSUME Init PROVE IInv
    OBVIOUS
  <1> USE GatewayAssumption DEF Init, Idle, NoRow, NoSid, Sids
  <1>1. TypeOK
    <2>1. LoopTyped
      <3>1. /\ 0 \in 0 .. Levels /\ 0 \in 0 .. Levels - 1 /\ 0 \in 0 .. MaxAttempts
            /\ 0 \in 0 .. MaxSeq /\ 0 \in 0 .. MaxCrashes
        OBVIOUS
      <3> QED
        BY <3>1 DEF LoopTyped, LoopStates
    <2>2. WorldTyped
      BY DEF WorldTyped
    <2> QED
      BY <2>1, <2>2, TypeParts
  <1>2. OffIsFresh /\ LevelTried /\ FlagIsShortLived
    BY DEF OffIsFresh, LevelTried, FlagIsShortLived, Working, Connecting, Attached
  <1>3. ServerFollows /\ OnlyCreated /\ SeqIsCovered
    BY DEF ServerFollows, OnlyCreated, SeqIsCovered, Through
  <1>4. NoGap /\ RowLevel
    BY DEF NoGap, RowLevel
  <1> QED
    BY <1>1, <1>2, <1>3, <1>4 DEF IInv

-----------------------------------------------------------------------------
(* Most steps leave the session, its row and the server alone.              *)
Elsewhere ==
  UNCHANGED <<sessionID, lastSeq, row, crashes, server, sessions, dead,
              delivered, thisRun, told>>

LEMMA StepShape ==
  [Next]_vars =>
    \/ Connect \/ Dial \/ Authenticate \/ PersistSeq \/ OnReady \/ OnResumed
    \/ OnEvent \/ OnInvalidSession \/ Crash \/ RowExpires \/ Elsewhere
  <1> SUFFICES ASSUME [Next]_vars, ~Elsewhere
               PROVE  \/ Connect \/ Dial \/ Authenticate \/ PersistSeq \/ OnReady
                      \/ OnResumed \/ OnEvent \/ OnInvalidSession \/ Crash
                      \/ RowExpires
    OBVIOUS
  <1> USE DEF Elsewhere, memory, external, history, vars
  <1>1. ~(LoopTop \/ GetURL \/ TryLevel \/ SetConn \/ Hello \/ EnterReadLoop)
    BY DEF LoopTop, GetURL, TryLevel, SetConn, Hello, EnterReadLoop
  <1>2. ~(DialFails \/ HelloFails \/ AuthenticateFails \/ NoConnection
          \/ ReadLoopCancelled \/ ReadFails)
    BY DEF DialFails, HelloFails, AuthenticateFails, NoConnection,
           ReadLoopCancelled, ReadFails, NextLevel
  <1>3. ~(CheckContext \/ AfterConnectOnce \/ Delay \/ OnReconnect
          \/ OnInvalidResumable)
    BY DEF CheckContext, AfterConnectOnce, Delay, OnReconnect, OnInvalidResumable
  <1>4. ~(Close \/ CancelParent \/ Ended \/ UNCHANGED vars)
    BY DEF Close, CloseBegin, CloseConn, CloseCancel, CancelParent, Ended
  <1> QED
    BY <1>1, <1>2, <1>3, <1>4 DEF Next, Loop, Message

(* The steps that may change the level.                                     *)
LEMMA LevelChanges ==
  [Next]_vars =>
    Connect \/ Crash \/ TryLevel \/ OnInvalidSession \/ UNCHANGED intentIndex
  <1> SUFFICES ASSUME [Next]_vars, intentIndex' # intentIndex
               PROVE  Connect \/ Crash \/ TryLevel \/ OnInvalidSession
    OBVIOUS
  <1> USE DEF memory, external, history, vars
  <1>1. ~(LoopTop \/ GetURL \/ Dial \/ SetConn \/ Hello \/ Authenticate \/ EnterReadLoop)
    BY DEF LoopTop, GetURL, Dial, SetConn, Hello, Authenticate, EnterReadLoop
  <1>2. ~(DialFails \/ HelloFails \/ AuthenticateFails \/ NoConnection
          \/ ReadLoopCancelled \/ ReadFails)
    BY DEF DialFails, HelloFails, AuthenticateFails, NoConnection,
           ReadLoopCancelled, ReadFails, NextLevel
  <1>3. ~(CheckContext \/ PersistSeq \/ AfterConnectOnce \/ Delay \/ OnReady
          \/ OnResumed \/ OnEvent \/ OnReconnect \/ OnInvalidResumable)
    BY DEF CheckContext, PersistSeq, AfterConnectOnce, Delay, OnReady, OnResumed,
           OnEvent, OnReconnect, OnInvalidResumable
  <1>4. ~(Close \/ CancelParent \/ RowExpires \/ Ended \/ UNCHANGED vars)
    BY DEF Close, CloseBegin, CloseConn, CloseCancel, CancelParent,
           RowExpires, Ended
  <1> QED
    BY <1>1, <1>2, <1>3, <1>4 DEF Next, Loop, Message

(* Type correctness of the loop's variables, one action at a time.          *)
LEMMA LoopTypeStep == ASSUME IInv, [Next]_vars PROVE LoopTyped'
  <1>0. LoopTyped /\ WorldTyped
    BY TypeParts DEF IInv
  <1> USE <1>0, GatewayAssumption DEF IInv, LoopTyped, LevelTried, LoopStep, LoopStates,
        Working, Connecting, Attached, Sids, NoSid, memory, external, history, vars
  <1>1. CASE Connect
    <2>1. row.sid \in Sids \cup {NoSid} /\ row.seq \in 0 .. MaxSeq
          /\ row.intent \in 0 .. Levels - 1 /\ 0 \in 0 .. MaxAttempts
      BY DEF WorldTyped
    <2>2. sessionID' \in Sids \cup {NoSid} /\ lastSeq' \in 0 .. MaxSeq
          /\ intentIndex' \in 0 .. Levels - 1
      BY <1>1, <2>1 DEF Connect, Load
    <2> QED
      BY <1>1, <2>1, <2>2 DEF Connect
  <1>2. CASE LoopTop           BY <1>2 DEF LoopTop
  <1>3. CASE GetURL            BY <1>3 DEF GetURL
  <1>4. CASE TryLevel          BY <1>4 DEF TryLevel
  <1>5. CASE Dial              BY <1>5 DEF Dial, Idle
  <1>6. CASE DialFails         BY <1>6 DEF DialFails, NextLevel
  <1>7. CASE SetConn           BY <1>7 DEF SetConn
  <1>8. CASE Hello             BY <1>8 DEF Hello
  <1>9. CASE HelloFails        BY <1>9 DEF HelloFails, NextLevel
  <1>10. CASE Authenticate     BY <1>10 DEF Authenticate
  <1>11. CASE AuthenticateFails BY <1>11 DEF AuthenticateFails, NextLevel
  <1>12. CASE EnterReadLoop    BY <1>12 DEF EnterReadLoop
  <1>13. CASE NoConnection     BY <1>13 DEF NoConnection, NextLevel
  <1>14. CASE CheckContext     BY <1>14 DEF CheckContext
  <1>15. CASE ReadLoopCancelled BY <1>15 DEF ReadLoopCancelled, NextLevel
  <1>16. CASE PersistSeq       BY <1>16 DEF PersistSeq
  <1>17. CASE AfterConnectOnce BY <1>17 DEF AfterConnectOnce
  <1>18. CASE Delay            BY <1>18 DEF Delay
  <1>19. CASE OnReady          BY <1>19 DEF OnReady, Receive
  <1>20. CASE OnResumed        BY <1>20 DEF OnResumed, Receive
  <1>21. CASE OnEvent
    <2>1. server.cur \in 0 .. MaxSeq
      BY DEF WorldTyped
    <2>2. lastSeq' \in 0 .. MaxSeq
      BY <1>21, <2>1 DEF OnEvent
    <2> QED
      BY <1>21, <2>2 DEF OnEvent, Receive
  <1>22. CASE OnReconnect      BY <1>22 DEF OnReconnect, Receive, CloseLink
  <1>23. CASE OnInvalidResumable BY <1>23 DEF OnInvalidResumable, Receive, CloseLink
  <1>24. CASE OnInvalidSession
    <2>1. intentIndex' \in 0 .. Levels - 1 /\ 0 \in 0 .. MaxSeq
      BY <1>24 DEF OnInvalidSession
    <2>2. link' \in {"none", "open", "closed"}
      BY <1>24 DEF OnInvalidSession, CloseLink
    <2> QED
      BY <1>24, <2>1, <2>2 DEF OnInvalidSession, Receive
  <1>25. CASE ReadFails
    <2>1. level' \in 0 .. Levels
      BY <1>25 DEF ReadFails, NextLevel
    <2>2. link' \in {"none", "open", "closed"}
      BY <1>25 DEF ReadFails
    <2> QED
      BY <1>25, <2>1, <2>2 DEF ReadFails, NextLevel
  <1>26. CASE CloseBegin       BY <1>26 DEF CloseBegin, CloseStep
  <1>27. CASE CloseConn        BY <1>27 DEF CloseConn, CloseStep, CloseLink
  <1>29. CASE CloseCancel      BY <1>29 DEF CloseCancel, CloseStep
  <1>30. CASE CancelParent     BY <1>30 DEF CancelParent
  <1>31. CASE Crash
    <2>1. /\ 0 \in 0 .. Levels /\ 0 \in 0 .. Levels - 1 /\ 0 \in 0 .. MaxAttempts
          /\ 0 \in 0 .. MaxSeq
      OBVIOUS
    <2>2. crashes' \in 0 .. MaxCrashes
      BY <1>31 DEF Crash
    <2> QED
      BY <1>31, <2>1, <2>2 DEF Crash
  <1>32. CASE RowExpires       BY <1>32 DEF RowExpires
  <1>33. CASE UNCHANGED vars   BY <1>33
  <1> QED
    BY <1>1, <1>2, <1>3, <1>4, <1>5, <1>6, <1>7, <1>8, <1>9, <1>10, <1>11,
       <1>12, <1>13, <1>14, <1>15, <1>16, <1>17, <1>18, <1>19, <1>20,
       <1>21, <1>22, <1>23, <1>24, <1>25, <1>26, <1>27, <1>29,
       <1>30, <1>31, <1>32, <1>33 DEF Next, Loop, Message, Close, Ended

(* Type correctness of the row, the server and the histories.               *)
LEMMA WorldTypeStep == ASSUME IInv, [Next]_vars PROVE WorldTyped'
  <1>0. LoopTyped /\ WorldTyped
    BY TypeParts DEF IInv
  <1> USE <1>0, GatewayAssumption DEF LoopTyped, WorldTyped, Sids, NoSid, Idle,
        LoopStep, memory, external, history
  <1>1. CASE Connect
    <2>1. NoRow \in [sid : Sids \cup {NoSid}, seq : 0 .. MaxSeq,
                    intent : 0 .. Levels - 1, fresh : BOOLEAN]
      BY DEF NoRow
    <2> QED
      BY <1>1, <2>1 DEF Connect, Load
  <1>2. CASE Dial              BY <1>2 DEF Dial, Idle
  <1>3. CASE Authenticate      BY <1>3 DEF Authenticate
  <1>4. CASE PersistSeq        BY <1>4 DEF PersistSeq
  <1>5. CASE OnReady
    <2>1. PICK s \in Sids :
            /\ sessions' = [sessions EXCEPT ![s] = level]
            /\ server' = [mode |-> "live", sid |-> s, cur |-> 1]
            /\ row' = [sid |-> s, seq |-> 1, intent |-> intentIndex, fresh |-> TRUE]
      BY <1>5 DEF OnReady
    <2>2. 1 \in 0 .. MaxSeq /\ level \in 0 .. Levels - 1
      BY <1>5 DEF OnReady, Receive, IInv, LevelTried, Attached
    <2>3. /\ sessions' \in [Sids -> (0 .. Levels - 1) \cup {-1}]
          /\ UNCHANGED <<dead, delivered, thisRun, told>>
      BY <1>5, <2>1, <2>2 DEF OnReady
    <2> QED
      BY <2>1, <2>2, <2>3
  <1>6. CASE OnResumed         BY <1>6 DEF OnResumed, Receive
  <1>7. CASE OnEvent
    <2> DEFINE n == server.cur + 1
    <2>1. /\ n \in 1 .. MaxSeq /\ server.sid \in Sids /\ server.mode # "none"
          /\ server' = [server EXCEPT !.cur = n]
          /\ delivered' = delivered \cup {<<server.sid, n>>}
          /\ thisRun' = thisRun \cup {<<server.sid, n>>}
          /\ UNCHANGED <<row, sessions, dead, told>>
      BY <1>7, SMTT(20) DEF OnEvent, Receive, IInv, ServerFollows
    <2> HIDE DEF n
    <2>2. server' \in [mode : {"none", "identify", "resume", "live"},
                     sid : Sids \cup {NoSid}, cur : 0 .. MaxSeq]
      <3>1. n \in 0 .. MaxSeq
        BY <2>1, SMTT(20)
      <3> QED
        BY <2>1, <3>1
    <2>3. <<server.sid, n>> \in Sids \X (1 .. MaxSeq)
      BY <2>1
    <2> QED
      BY <2>1, <2>2, <2>3
  <1>8. CASE OnInvalidSession
    <2>1. {server.sid} \ {NoSid} \in SUBSET Sids
      OBVIOUS
    <2>2. dead' \in SUBSET Sids /\ told' \in SUBSET dead'
      BY <1>8, <2>1 DEF OnInvalidSession
    <2>3. server' \in [mode : {"none", "identify", "resume", "live"},
                     sid : Sids \cup {NoSid}, cur : 0 .. MaxSeq]
      BY <1>8 DEF OnInvalidSession
    <2> QED
      BY <1>8, <2>2, <2>3 DEF OnInvalidSession
  <1>9. CASE Crash             BY <1>9 DEF Crash, Idle
  <1>10. CASE RowExpires       BY <1>10 DEF RowExpires
  <1>11. CASE Elsewhere        BY <1>11 DEF Elsewhere
  <1> QED
    BY <1>1, <1>2, <1>3, <1>4, <1>5, <1>6, <1>7, <1>8, <1>9, <1>10, <1>11,
       StepShape

LEMMA TypeStep == ASSUME IInv, [Next]_vars PROVE TypeOK'
  BY LoopTypeStep, WorldTypeStep DEF TypeOK, LoopTyped, WorldTyped

(* The loop's place in the list of levels, its flag and the fresh start.    *)
LEMMA ControlStep ==
  ASSUME IInv, [Next]_vars PROVE OffIsFresh' /\ LevelTried' /\ FlagIsShortLived'
  <1> USE GatewayAssumption DEF IInv, TypeOK, OffIsFresh, LevelTried, FlagIsShortLived,
        LoopStep, LoopStates, Working, Connecting, Attached, Reading, NoSid,
        memory, external, history, vars
  <1>1. CASE Connect           BY <1>1 DEF Connect, Load, NoRow
  <1>2. CASE LoopTop           BY <1>2 DEF LoopTop
  <1>3. CASE GetURL            BY <1>3 DEF GetURL
  <1>4. CASE TryLevel          BY <1>4 DEF TryLevel
  <1>5. CASE Dial              BY <1>5 DEF Dial, Idle
  <1>6. CASE DialFails         BY <1>6 DEF DialFails, NextLevel
  <1>7. CASE SetConn           BY <1>7 DEF SetConn
  <1>8. CASE Hello             BY <1>8 DEF Hello
  <1>9. CASE HelloFails        BY <1>9 DEF HelloFails, NextLevel
  <1>10. CASE Authenticate     BY <1>10 DEF Authenticate
  <1>11. CASE AuthenticateFails BY <1>11 DEF AuthenticateFails, NextLevel
  <1>12. CASE EnterReadLoop    BY <1>12 DEF EnterReadLoop
  <1>13. CASE NoConnection     BY <1>13 DEF NoConnection, NextLevel
  <1>14. CASE CheckContext     BY <1>14 DEF CheckContext
  <1>15. CASE ReadLoopCancelled BY <1>15 DEF ReadLoopCancelled, NextLevel
  <1>16. CASE PersistSeq       BY <1>16 DEF PersistSeq
  <1>17. CASE AfterConnectOnce BY <1>17 DEF AfterConnectOnce
  <1>18. CASE Delay            BY <1>18 DEF Delay
  <1>19. CASE OnReady          BY <1>19 DEF OnReady, Receive
  <1>20. CASE OnResumed        BY <1>20 DEF OnResumed, Receive
  <1>21. CASE OnEvent          BY <1>21 DEF OnEvent, Receive
  <1>22. CASE OnReconnect      BY <1>22 DEF OnReconnect, Receive, CloseLink
  <1>23. CASE OnInvalidResumable BY <1>23 DEF OnInvalidResumable, Receive, CloseLink
  <1>24. CASE OnInvalidSession BY <1>24 DEF OnInvalidSession, Receive, CloseLink, Idle
  <1>25. CASE ReadFails        BY <1>25 DEF ReadFails, NextLevel
  <1>26. CASE CloseBegin       BY <1>26 DEF CloseBegin, CloseStep
  <1>27. CASE CloseConn        BY <1>27 DEF CloseConn, CloseStep, CloseLink
  <1>29. CASE CloseCancel      BY <1>29 DEF CloseCancel, CloseStep
  <1>30. CASE CancelParent     BY <1>30 DEF CancelParent
  <1>31. CASE Crash            BY <1>31 DEF Crash, Idle
  <1>32. CASE RowExpires
    <2>1. row # NoRow
      BY <1>32 DEF RowExpires, NoRow
    <2> QED
      BY <1>32, <2>1 DEF RowExpires
  <1>33. CASE UNCHANGED vars   BY <1>33
  <1> QED
    BY <1>1, <1>2, <1>3, <1>4, <1>5, <1>6, <1>7, <1>8, <1>9, <1>10, <1>11,
       <1>12, <1>13, <1>14, <1>15, <1>16, <1>17, <1>18, <1>19, <1>20,
       <1>21, <1>22, <1>23, <1>24, <1>25, <1>26, <1>27, <1>29,
       <1>30, <1>31, <1>32, <1>33 DEF Next, Loop, Message, Close, Ended

-----------------------------------------------------------------------------
(* The server's end, the row and the session in memory stay together.       *)
LEMMA FollowsStep == ASSUME IInv, [Next]_vars PROVE ServerFollows' /\ OnlyCreated'
  <1> USE GatewayAssumption DEF IInv, TypeOK, OffIsFresh, ServerFollows, OnlyCreated,
        LoopStep, Sids, NoSid, memory, external, history
  <1>1. CASE Connect
    <2>1. CASE row.sid # NoSid /\ row.fresh
      BY <1>1, <2>1 DEF Connect, Load, RowLevel, NoRow, Idle
    <2>2. CASE ~(row.sid # NoSid /\ row.fresh)
      BY <1>1, <2>2 DEF Connect, Load, Idle
    <2> QED
      BY <2>1, <2>2
  <1>2. CASE Dial              BY <1>2 DEF Dial, Idle
  <1>3. CASE Authenticate      BY <1>3 DEF Authenticate
  <1>4. CASE PersistSeq        BY <1>4 DEF PersistSeq
  <1>5. CASE OnReady           BY <1>5 DEF OnReady, Receive
  <1>6. CASE OnResumed         BY <1>6 DEF OnResumed, Receive
  <1>7. CASE OnEvent           BY <1>7 DEF OnEvent, Receive
  <1>8. CASE OnInvalidSession  BY <1>8 DEF OnInvalidSession, Receive, CloseLink, Idle
  <1>9. CASE Crash             BY <1>9 DEF Crash, Idle
  <1>10. CASE RowExpires       BY <1>10 DEF RowExpires
  <1>11. CASE Elsewhere        BY <1>11 DEF Elsewhere
  <1> QED
    BY <1>1, <1>2, <1>3, <1>4, <1>5, <1>6, <1>7, <1>8, <1>9, <1>10, <1>11,
       StepShape

(* An event extends what its session has been through by one.               *)
LEMMA EventCovered == ASSUME IInv, OnEvent PROVE SeqIsCovered' /\ NoGap'
  <1> DEFINE n == lastSeq + 1
             e == <<sessionID, n>>
  <1>1. /\ server.sid = sessionID /\ server.cur = lastSeq
        /\ UNCHANGED <<sessionID, row>>
    BY DEF OnEvent, Receive, IInv, ServerFollows
  <1>2. lastSeq \in Nat /\ n \in Nat /\ lastSeq' = n
    BY <1>1, GatewayAssumption DEF OnEvent, IInv, TypeOK
  <1>3. delivered' = delivered \cup {e} /\ thisRun' = thisRun \cup {e}
    BY <1>1 DEF OnEvent
  <1>4. \A f \in thisRun : f[1] = sessionID => f[2] <= lastSeq /\ f[2] \in Int
    BY GatewayAssumption DEF IInv, SeqIsCovered, TypeOK
  <1>5. n = lastSeq + 1 /\ e = <<sessionID, n>> /\ e[1] = sessionID /\ e[2] = n
    OBVIOUS
  <1> HIDE DEF n, e
  <1>6. \A m \in 2 .. n : <<sessionID, m>> \in delivered'
    <2> SUFFICES ASSUME NEW m \in 2 .. n PROVE <<sessionID, m>> \in delivered'
      OBVIOUS
    <2>1. CASE m = n
      BY <1>3, <1>5, <2>1
    <2>2. CASE m # n
      <3>1. m \in 2 .. lastSeq
        BY <1>2, <1>5, <2>2
      <3> QED
        BY <1>3, <3>1 DEF IInv, SeqIsCovered, Through
    <2> QED
      BY <2>1, <2>2
  <1>7. \A m \in 2 .. row.seq : <<row.sid, m>> \in delivered'
    BY <1>3 DEF IInv, SeqIsCovered, Through
  <1>8. \A f \in thisRun' : f[1] = sessionID => f[2] <= n
    BY <1>2, <1>3, <1>4, <1>5
  <1>9. NoGap'
    <2> SUFFICES ASSUME NEW f \in delivered', NEW m \in 2 .. f[2] - 1
                 PROVE  <<f[1], m>> \in delivered'
      BY DEF NoGap
    <2>1. CASE f = e
      <3>1. m \in 2 .. n
        BY <1>2, <1>5, <2>1
      <3> QED
        BY <1>5, <1>6, <2>1, <3>1
    <2>2. CASE f \in delivered
      BY <1>3, <2>2 DEF IInv, NoGap
    <2> QED
      BY <1>3, <2>1, <2>2
  <1> QED
    BY <1>1, <1>2, <1>6, <1>7, <1>8, <1>9 DEF SeqIsCovered, Through

(* Nothing before the sequence numbers in use was passed over.              *)
LEMMA CoveredStep == ASSUME IInv, [Next]_vars PROVE SeqIsCovered' /\ NoGap'
  <1> USE GatewayAssumption DEF IInv, TypeOK, OffIsFresh, ServerFollows, OnlyCreated,
        SeqIsCovered, NoGap, Through, LoopStep, Sids, NoSid, memory, external, history
  <1>1. CASE Connect           BY <1>1 DEF Connect, Load, NoRow
  <1>2. CASE Dial              BY <1>2 DEF Dial, Idle
  <1>3. CASE Authenticate      BY <1>3 DEF Authenticate
  <1>4. CASE PersistSeq        BY <1>4, SMTT(20) DEF PersistSeq
  <1>5. CASE OnReady           BY <1>5 DEF OnReady, Receive
  <1>6. CASE OnResumed         BY <1>6 DEF OnResumed, Receive
  <1>7. CASE OnEvent           BY <1>7, EventCovered
  <1>8. CASE OnInvalidSession  BY <1>8 DEF OnInvalidSession, Receive, CloseLink, Idle
  <1>9. CASE Crash             BY <1>9 DEF Crash, Idle
  <1>10. CASE RowExpires       BY <1>10 DEF RowExpires
  <1>11. CASE Elsewhere        BY <1>11 DEF Elsewhere
  <1> QED
    BY <1>1, <1>2, <1>3, <1>4, <1>5, <1>6, <1>7, <1>8, <1>9, <1>10, <1>11,
       StepShape

LEMMA RowStep == ASSUME IInv, [Next]_vars PROVE RowLevel'
  <1> USE GatewayAssumption DEF IInv, TypeOK, RowLevel, LevelTried, Attached, LoopStep,
        Sids, NoSid, memory, external, history
  <1>1. CASE Connect           BY <1>1 DEF Connect, Load, NoRow
  <1>2. CASE Dial              BY <1>2 DEF Dial, Idle
  <1>3. CASE Authenticate      BY <1>3 DEF Authenticate
  <1>4. CASE PersistSeq        BY <1>4 DEF PersistSeq
  <1>5. CASE OnReady           BY <1>5 DEF OnReady, Receive
  <1>6. CASE OnResumed         BY <1>6 DEF OnResumed, Receive
  <1>7. CASE OnEvent           BY <1>7 DEF OnEvent, Receive
  <1>8. CASE OnInvalidSession  BY <1>8 DEF OnInvalidSession, Receive, CloseLink, Idle
  <1>9. CASE Crash             BY <1>9 DEF Crash, Idle
  <1>10. CASE RowExpires       BY <1>10 DEF RowExpires
  <1>11. CASE Elsewhere        BY <1>11 DEF Elsewhere
  <1> QED
    BY <1>1, <1>2, <1>3, <1>4, <1>5, <1>6, <1>7, <1>8, <1>9, <1>10, <1>11,
       StepShape

LEMMA IInvStep == IInv /\ [Next]_vars => IInv'
  BY TypeStep, ControlStep, FollowsStep, CoveredStep, RowStep DEF IInv

LEMMA IInvAlways == Spec => []IInv
  BY InitIInv, IInvStep, PTL DEF Spec

-----------------------------------------------------------------------------
(* Every variable keeps its type: the level stays within the list and the   *)
(* attempts within the limit because of where they are read (LevelTried).   *)
THEOREM TypeCorrect == Spec => []TypeOK
  <1>1. IInv => TypeOK
    BY DEF IInv
  <1> QED
    BY IInvAlways, <1>1, PTL

(* No event is passed over, over any number of drops, resumes, invalid      *)
(* sessions and crashes: the sequence number the gateway resumes with, in   *)
(* memory or in the row, covers only events that were enqueued              *)
(* (gateway.go:222-233, 290-301).                                           *)
THEOREM NothingSkipped == Spec => []NoGap
  <1>1. IInv => NoGap
    BY DEF IInv
  <1> QED
    BY IInvAlways, <1>1, PTL

(* Within a process no event is replayed: the server starts at the number   *)
(* in memory, which none of this run's events exceeds (gateway.go:228-232). *)
THEOREM NothingReplayed == Spec => []NoRedelivery
  <1>1. IInv => NoRedelivery
    BY DEF IInv, ServerFollows, SeqIsCovered, NoRedelivery
  <1> QED
    BY IInvAlways, <1>1, PTL

(* The row names the level its session was identified with                  *)
(* (gateway.go:174, 523-538).                                               *)
THEOREM RowLevelRight == Spec => []RowLevel
  <1>1. IInv => RowLevel
    BY DEF IInv
  <1> QED
    BY IInvAlways, <1>1, PTL

(* A gateway counts as connected only while its loop reads (gateway.go:148).*)
THEOREM FlagMeansReading == Spec => []ConnectedMeansReading
  <1>1. IInv => ConnectedMeansReading
    BY DEF IInv, FlagIsShortLived, ConnectedMeansReading
  <1> QED
    BY IInvAlways, <1>1, PTL

(* A process that was told a session is invalid neither holds nor resumes   *)
(* it again, however often the process was started before; a session that   *)
(* is over is in memory only because the row still names it                 *)
(* (gateway.go:109-120, 222, 329-333).                                      *)
THEOREM RejectedIsForgotten == Spec => []RejectedNotResumed
  <1>1. IInv => RejectedNotResumed
    <2>1. IInv => sessionID \notin told
      BY DEF IInv, OnlyCreated
    <2>2. IInv => (server.mode = "resume" => server.sid = sessionID)
      BY DEF IInv, ServerFollows
    <2>3. ASSUME IInv, sessionID \in dead PROVE sessionID = row.sid
      <3>1. sessionID # NoSid
        BY <2>3 DEF IInv, TypeOK, Sids, NoSid
      <3> QED
        BY <2>3, <3>1 DEF IInv, ServerFollows
    <2> QED
      BY <2>1, <2>2, <2>3 DEF RejectedNotResumed
  <1> QED
    BY IInvAlways, <1>1, PTL

(* Together, in every process and for any bounds: the row's level, the flag *)
(* and the rejections this process was told (gateway.go:148-333).           *)
THEOREM MemoryHolds == Spec => []MemoryTrue
  BY RowLevelRight, FlagMeansReading, RejectedIsForgotten, PTL DEF MemoryTrue

(* Within a process the intent level only goes down the list                *)
(* (gateway.go:167-174, 334-336).                                           *)
THEOREM LevelFalls == Spec => LevelOnlyFalls
  <1> DEFINE Falls == lpc # "off" /\ lpc' # "off" => intentIndex' >= intentIndex
  <1>1. IInv /\ [Next]_vars => [Falls]_vars
    <2> SUFFICES ASSUME IInv, [Next]_vars PROVE Falls
      OBVIOUS
    <2>1. intentIndex \in Int /\ intentIndex >= intentIndex
      BY GatewayAssumption DEF IInv, TypeOK
    <2>2. CASE Connect \/ Crash
      BY <2>2 DEF Connect, Crash, LoopStep
    <2>3. CASE TryLevel
      BY <2>1, <2>3, GatewayAssumption DEF TryLevel, LoopStep, IInv, TypeOK, LevelTried
    <2>4. CASE OnInvalidSession
      BY <2>1, <2>4 DEF OnInvalidSession
    <2>5. CASE UNCHANGED intentIndex
      BY <2>1, <2>5
    <2> QED
      BY <2>2, <2>3, <2>4, <2>5, LevelChanges
  <1> QED
    BY <1>1, IInvAlways, PTL DEF Spec, LevelOnlyFalls

-----------------------------------------------------------------------------
(* The refinement of EventStream rests on what the row and the memory are   *)
(* to each other.                                                           *)

(* Sessions are created one after the other, and the row holds the last.    *)
RowIsLatest ==
  /\ \A s, t \in Sids : s < t /\ sessions[t] # -1 => sessions[s] # -1
  /\ row.sid # NoSid =>
       \A t \in Sids : sessions[t] # -1 => t <= row.sid

(* The row follows the memory but for the message being handled.            *)
RowInStep ==
  lpc \notin {"off", "seq"} /\ sessionID # NoSid => row.seq = lastSeq

(* A session forgotten while its row is kept was declared invalid.          *)
ForgottenIsDead ==
  /\ server.mode = "identify" => sessionID = NoSid
  /\ lpc # "off" /\ sessionID = NoSid /\ row.sid # NoSid => row.sid \in dead

(* A session to go on with is at most one event behind what was handed on.  *)
OneBehind(s, n) ==
  s # NoSid /\ s \notin dead =>
    n >= 1 /\ \A e \in delivered : e[1] = s => e[2] <= n + 1

SessionInv ==
  /\ RowIsLatest
  /\ RowInStep
  /\ ForgottenIsDead
  /\ OneBehind(sessionID, lastSeq)
  /\ OneBehind(row.sid, row.seq)

LEMMA InitSession == Init => SessionInv
  BY DEF Init, SessionInv, RowIsLatest, RowInStep, ForgottenIsDead, OneBehind,
         NoRow, NoSid, Sids, Idle

(* What IInv says of the types of sessions, rows and sequence numbers.      *)
LEMMA SessionTypes ==
  ASSUME IInv
  PROVE  /\ sessionID \in Nat /\ row.sid \in Nat /\ lastSeq \in Nat /\ row.seq \in Nat
         /\ \A s \in Sids : s \in Nat /\ s # NoSid
         /\ \A e \in delivered : e[1] \in Sids /\ e[2] \in Nat
         /\ row.sid # NoSid => row.sid \in Sids /\ sessions[row.sid] # -1
  BY GatewayAssumption DEF IInv, TypeOK, RowLevel, Sids, NoSid

LEMMA ConnectSession == ASSUME IInv, SessionInv, Connect PROVE SessionInv'
  <1>1. UNCHANGED <<sessions, dead, delivered, server>> /\ lpc = "off" /\ lpc' = "top"
    BY DEF Connect, LoopStep, external, history
  <1>2. sessionID = NoSid /\ lastSeq = 0 /\ server.mode = "none"
    BY <1>1 DEF IInv, OffIsFresh, Idle
  <1>3. CASE row.sid # NoSid /\ row.fresh
    <2>1. sessionID' = row.sid /\ lastSeq' = row.seq /\ row' = row
      BY <1>3 DEF Connect, Load
    <2> QED
      BY <1>1, <1>2, <1>3, <2>1
         DEF SessionInv, RowIsLatest, RowInStep, ForgottenIsDead, OneBehind
  <1>4. CASE ~(row.sid # NoSid /\ row.fresh)
    <2>1. sessionID' = NoSid /\ row' = NoRow /\ NoRow.sid = NoSid
      BY <1>2, <1>4 DEF Connect, Load, NoRow
    <2> QED
      BY <1>1, <1>2, <2>1
         DEF SessionInv, RowIsLatest, RowInStep, ForgottenIsDead, OneBehind
  <1> QED
    BY <1>3, <1>4

(* READY: the session is newer than all others, and nothing of it has been  *)
(* handed on.                                                               *)
LEMMA ReadyOpens ==
  ASSUME IInv, SessionInv, OnReady
  PROVE  \E s \in Sids :
           /\ sessionID = NoSid /\ sessionID' = s /\ lastSeq' = 1
           /\ row'.sid = s /\ row'.seq = 1
           /\ \A t \in Sids : sessions[t] # -1 => t < s
           /\ \A t \in Sids : sessions'[t] # -1 <=> sessions[t] # -1 \/ t = s
           /\ \A t \in Sids : t < s => sessions[t] # -1
           /\ \A e \in delivered : e[1] # s
           /\ server'.mode = "live" /\ lpc = "read" /\ lpc' = "seq"
           /\ UNCHANGED <<dead, delivered>>
  <1>1. PICK s \in Sids :
          /\ sessions[s] = -1
          /\ \A t \in Sids : t < s => sessions[t] # -1
          /\ sessions' = [sessions EXCEPT ![s] = level]
          /\ server' = [mode |-> "live", sid |-> s, cur |-> 1]
          /\ sessionID' = s
          /\ row' = [sid |-> s, seq |-> 1, intent |-> intentIndex, fresh |-> TRUE]
    BY DEF OnReady
  <1>2. sessionID = NoSid /\ lpc = "read" /\ lpc' = "seq"
    BY DEF OnReady, Receive, LoopStep, SessionInv, ForgottenIsDead
  <1>3. \A t \in Sids : sessions[t] # -1 => t < s
    <2> SUFFICES ASSUME NEW t \in Sids, sessions[t] # -1 PROVE t < s
      OBVIOUS
    <2>1. t \in Nat /\ s \in Nat
      BY SessionTypes
    <2>2. t # s /\ ~(s < t)
      BY <1>1 DEF SessionInv, RowIsLatest
    <2> QED
      BY <2>1, <2>2
  <1>4. level # -1 /\ sessions \in [Sids -> (0 .. Levels - 1) \cup {-1}]
    BY GatewayAssumption DEF IInv, TypeOK
  <1>5. \A t \in Sids : sessions'[t] # -1 <=> sessions[t] # -1 \/ t = s
    BY <1>1, <1>4
  <1>6. \A e \in delivered : e[1] # s
    BY <1>1 DEF IInv, OnlyCreated
  <1>7. lastSeq' = 1 /\ UNCHANGED <<dead, delivered>>
    BY DEF OnReady, history
  <1> QED
    BY <1>1, <1>2, <1>3, <1>5, <1>6, <1>7

LEMMA ReadySession == ASSUME IInv, SessionInv, OnReady PROVE SessionInv'
  <1>1. PICK s \in Sids :
           /\ sessionID' = s /\ lastSeq' = 1 /\ row'.sid = s /\ row'.seq = 1
           /\ \A t \in Sids : sessions[t] # -1 => t < s
           /\ \A t \in Sids : sessions'[t] # -1 <=> sessions[t] # -1 \/ t = s
           /\ \A t \in Sids : t < s => sessions[t] # -1
           /\ \A e \in delivered : e[1] # s
           /\ server'.mode = "live" /\ lpc' = "seq"
           /\ UNCHANGED <<dead, delivered>>
    BY ReadyOpens
  <1>2. \A t \in Sids : t \in Nat /\ t # NoSid
    BY SessionTypes
  <1>3. RowIsLatest'
    BY <1>1, <1>2 DEF SessionInv, RowIsLatest
  <1>4. RowInStep' /\ ForgottenIsDead'
    BY <1>1, <1>2 DEF RowInStep, ForgottenIsDead
  <1>5. OneBehind(sessionID, lastSeq)' /\ OneBehind(row.sid, row.seq)'
    BY <1>1 DEF OneBehind
  <1> QED
    BY <1>3, <1>4, <1>5 DEF SessionInv

(* An event is the one after the last, of a session that is not over.       *)
LEMMA EventTaken ==
  ASSUME IInv, OnEvent
  PROVE  /\ sessionID # NoSid /\ sessionID \notin dead
         /\ lastSeq' = lastSeq + 1 /\ sessionID' = sessionID
         /\ delivered' = delivered \cup {<<sessionID, lastSeq + 1>>}
         /\ lpc = "read" /\ lpc' = "seq"
         /\ server'.mode = server.mode /\ server.mode # "identify"
         /\ UNCHANGED <<row, sessions, dead>>
  <1>1. server.sid = sessionID /\ server.cur = lastSeq /\ sessionID # NoSid
    BY DEF OnEvent, Receive, IInv, ServerFollows
  <1>2. server'.mode = server.mode
    BY DEF OnEvent, IInv, TypeOK
  <1> QED
    BY <1>1, <1>2 DEF OnEvent, Receive, LoopStep

LEMMA EventSession == ASSUME IInv, SessionInv, OnEvent PROVE SessionInv'
  <1>1. row.sid = sessionID /\ row.seq = lastSeq
    BY EventTaken DEF IInv, ServerFollows, SessionInv, RowInStep
  <1>2. \A e \in delivered' : e[1] = sessionID => e[2] <= lastSeq + 1
    BY EventTaken, SessionTypes DEF SessionInv, OneBehind
  <1>3. \A e \in delivered' : e[2] \in Nat
    BY EventTaken, SessionTypes
  <1>4. lastSeq >= 1 /\ lastSeq \in Nat
    BY EventTaken, SessionTypes DEF SessionInv, OneBehind
  <1>5. OneBehind(sessionID, lastSeq)' /\ OneBehind(row.sid, row.seq)'
    BY <1>1, <1>2, <1>3, <1>4, EventTaken DEF OneBehind
  <1>6. RowIsLatest' /\ RowInStep' /\ ForgottenIsDead'
    BY EventTaken DEF SessionInv, RowIsLatest, RowInStep, ForgottenIsDead
  <1> QED
    BY <1>5, <1>6 DEF SessionInv

LEMMA PersistSession == ASSUME IInv, SessionInv, PersistSeq PROVE SessionInv'
  <1>1. /\ lpc = "seq" /\ lpc' = "check"
        /\ row' = IF row.sid # NoSid THEN [row EXCEPT !.seq = lastSeq] ELSE row
        /\ UNCHANGED <<sessionID, lastSeq, sessions, dead, delivered, server>>
    BY DEF PersistSeq, LoopStep, memory, external, history
  <1>2. row'.sid = row.sid /\ (row.sid # NoSid => row'.seq = lastSeq)
    BY <1>1 DEF IInv, TypeOK
  <1>3. RowIsLatest' /\ ForgottenIsDead'
    BY <1>1, <1>2 DEF SessionInv, RowIsLatest, ForgottenIsDead
  <1>4. RowInStep'
    BY <1>1, <1>2 DEF RowInStep, IInv, ServerFollows
  <1>5. OneBehind(row.sid, row.seq)'
    <2>1. CASE sessionID = NoSid
      BY <1>1, <1>2, <2>1 DEF SessionInv, ForgottenIsDead, OneBehind
    <2>2. CASE sessionID # NoSid
      BY <1>1, <1>2, <2>2 DEF SessionInv, OneBehind, IInv, ServerFollows
    <2> QED
      BY <2>1, <2>2
  <1>6. OneBehind(sessionID, lastSeq)'
    BY <1>1 DEF SessionInv, OneBehind
  <1> QED
    BY <1>3, <1>4, <1>5, <1>6 DEF SessionInv

(* A rejected session is over, and no session is left in memory.            *)
LEMMA Rejected ==
  ASSUME IInv, SessionInv, OnInvalidSession
  PROVE  /\ sessionID' = NoSid /\ lastSeq' = 0
         /\ dead' = dead \cup ({sessionID} \ {NoSid})
         /\ server'.mode = "none" /\ lpc = "read" /\ lpc' = "seq"
         /\ UNCHANGED <<row, sessions, delivered>>
  <1>1. server.mode \in {"identify", "resume", "live"}
    BY DEF OnInvalidSession, Receive
  <1>2. server.sid = sessionID
    BY <1>1 DEF IInv, ServerFollows, SessionInv, ForgottenIsDead
  <1> QED
    BY <1>2 DEF OnInvalidSession, Receive, LoopStep, Idle, history

LEMMA RejectedSession == ASSUME IInv, SessionInv, OnInvalidSession PROVE SessionInv'
  <1>1. sessionID # NoSid => row.sid = sessionID
    BY DEF IInv, ServerFollows
  <1>2. RowIsLatest' /\ RowInStep'
    BY Rejected DEF SessionInv, RowIsLatest, RowInStep
  <1>3. ForgottenIsDead'
    BY <1>1, Rejected DEF SessionInv, ForgottenIsDead
  <1>4. OneBehind(sessionID, lastSeq)' /\ OneBehind(row.sid, row.seq)'
    BY Rejected DEF SessionInv, OneBehind
  <1> QED
    BY <1>2, <1>3, <1>4 DEF SessionInv

(* No other step starts the gateway or ends it, or leaves a message half    *)
(* handled.                                                                 *)
LEMMA LoopMoves ==
  ASSUME IInv, [Next]_vars
  PROVE  \/ Connect \/ Crash \/ PersistSeq
         \/ lpc # "off" /\ lpc' # "off" /\ (lpc = "seq" => lpc' = "seq")
         \/ lpc' = lpc
  <1> SUFFICES ASSUME ~(Connect \/ Crash \/ PersistSeq), lpc' # lpc
               PROVE  lpc # "off" /\ lpc' # "off" /\ lpc # "seq"
    OBVIOUS
  <1> USE DEF LoopStep, memory, external, history, vars
  <1>1. CASE LoopTop \/ GetURL \/ TryLevel \/ Dial \/ SetConn \/ Hello
             \/ Authenticate \/ EnterReadLoop
    BY <1>1 DEF LoopTop, GetURL, TryLevel, Dial, SetConn, Hello, Authenticate,
                EnterReadLoop
  <1>2. CASE DialFails \/ HelloFails \/ AuthenticateFails \/ NoConnection
             \/ ReadLoopCancelled \/ ReadFails
    BY <1>2 DEF DialFails, HelloFails, AuthenticateFails, NoConnection,
                ReadLoopCancelled, ReadFails, NextLevel
  <1>3. CASE CheckContext \/ AfterConnectOnce \/ Delay
    BY <1>3 DEF CheckContext, AfterConnectOnce, Delay
  <1>4. CASE Message
    BY <1>4 DEF Message, OnReady, OnResumed, OnEvent, OnReconnect,
                OnInvalidResumable, OnInvalidSession, Receive
  <1>5. ~(Close \/ CancelParent \/ RowExpires \/ Ended \/ UNCHANGED vars)
    BY DEF Close, CloseBegin, CloseConn, CloseCancel, CancelParent, RowExpires, Ended
  <1> QED
    BY <1>1, <1>2, <1>3, <1>4, <1>5 DEF Next, Loop

LEMMA QuietSession ==
  ASSUME IInv, SessionInv, [Next]_vars, ~Connect, ~Crash, ~PersistSeq,
         Dial \/ Authenticate \/ OnResumed \/ RowExpires \/ Elsewhere
  PROVE  SessionInv'
  <1>1. /\ UNCHANGED <<sessionID, lastSeq, sessions, dead, delivered>>
        /\ row'.sid = row.sid /\ row'.seq = row.seq
        /\ server'.mode = "identify" => sessionID = NoSid
    <2>1. CASE Dial
      BY <2>1 DEF Dial, Idle, memory, history
    <2>2. CASE Authenticate
      BY <2>2 DEF Authenticate, memory, history
    <2>3. CASE OnResumed
      BY <2>3 DEF OnResumed, Receive, history, IInv, TypeOK
    <2>4. CASE RowExpires
      <3>1. row'.sid = row.sid /\ row'.seq = row.seq
        BY <2>4 DEF RowExpires, IInv, TypeOK
      <3> QED
        BY <2>4, <3>1 DEF RowExpires, memory, external, history, SessionInv, ForgottenIsDead
    <2>5. CASE Elsewhere
      BY <2>5 DEF Elsewhere, SessionInv, ForgottenIsDead
    <2> QED
      BY <2>1, <2>2, <2>3, <2>4, <2>5
  <1>2. /\ lpc' = "off" <=> lpc = "off"
        /\ lpc = "seq" => lpc' = "seq"
    BY LoopMoves
  <1>3. RowIsLatest' /\ RowInStep' /\ ForgottenIsDead'
    BY <1>1, <1>2 DEF SessionInv, RowIsLatest, RowInStep, ForgottenIsDead
  <1>4. OneBehind(sessionID, lastSeq)' /\ OneBehind(row.sid, row.seq)'
    BY <1>1 DEF SessionInv, OneBehind
  <1> QED
    BY <1>3, <1>4 DEF SessionInv

LEMMA CrashSession == ASSUME SessionInv, Crash PROVE SessionInv'
  <1>1. /\ lpc' = "off" /\ sessionID' = NoSid /\ server'.mode = "none"
        /\ UNCHANGED <<row, sessions, dead, delivered>>
    BY DEF Crash, Idle
  <1> QED
    BY <1>1 DEF SessionInv, RowIsLatest, RowInStep, ForgottenIsDead, OneBehind

LEMMA SessionStep == IInv /\ SessionInv /\ [Next]_vars => SessionInv'
  BY StepShape, ConnectSession, ReadySession, EventSession, PersistSession,
     RejectedSession, QuietSession, CrashSession

LEMMA SessionAlways == Spec => [](IInv /\ SessionInv)
  BY InitIInv, IInvStep, InitSession, SessionStep, PTL DEF Spec

-----------------------------------------------------------------------------
(* The mapping, state by state: what an observer sees of the gateway.       *)
Opened == {s \in Sids : sessions[s] # -1}
Observed == <<lpc # "off", sessionID, lastSeq, delivered, Opened, dead>>

LEMMA ConnectStarts == ASSUME IInv, SessionInv, Connect PROVE Stream!SNext
  <1>1. /\ lpc = "off" /\ lpc' # "off" /\ sessionID = NoSid /\ lastSeq = 0
        /\ UNCHANGED <<delivered, sessions, dead>>
    BY DEF Connect, LoopStep, external, history, IInv, OffIsFresh
  <1>2. CASE row.sid # NoSid /\ row.fresh
    <2>1. /\ sessionID' = row.sid /\ lastSeq' = row.seq
          /\ row.sid \in Sids /\ sessions[row.sid] # -1
          /\ row.seq \in 0 .. MaxSeq
      BY <1>2, SessionTypes DEF Connect, Load, IInv, TypeOK
    <2>2. row.sid \in dead \/ Stream!SafePlace(row.sid, row.seq)
      BY <1>2 DEF Stream!SafePlace, SessionInv, OneBehind, IInv, SeqIsCovered, Through
    <2>3. \A t \in Opened : t <= row.sid
      BY <1>2 DEF SessionInv, RowIsLatest, Opened
    <2>4. Stream!StartFrom(row.sid, row.seq)
      BY <1>1, <2>1, <2>2, <2>3 DEF Stream!StartFrom, Stream!Holding, Opened
    <2> QED
      BY <2>1, <2>4 DEF Stream!SNext
  <1>3. CASE ~(row.sid # NoSid /\ row.fresh)
    <2>1. sessionID' = NoSid /\ lastSeq' = 0
      BY <1>1, <1>3 DEF Connect, Load
    <2>2. Stream!StartAfresh
      BY <1>1, <2>1 DEF Stream!StartAfresh, Stream!Holding
    <2> QED
      BY <2>2 DEF Stream!SNext
  <1> QED
    BY <1>2, <1>3

LEMMA ReadyIsOpen == ASSUME IInv, SessionInv, OnReady PROVE Stream!SNext
  <1>1. PICK s \in Sids :
           /\ sessionID = NoSid /\ sessionID' = s /\ lastSeq' = 1
           /\ \A t \in Sids : sessions[t] # -1 => t < s
           /\ \A t \in Sids : sessions'[t] # -1 <=> sessions[t] # -1 \/ t = s
           /\ lpc = "read" /\ lpc' = "seq"
           /\ UNCHANGED <<dead, delivered>>
    BY ReadyOpens
  <1>2. Opened' = Opened \cup {s} /\ \A t \in Opened : t < s
    BY <1>1 DEF Opened
  <1>3. Stream!Open(s)
    BY <1>1, <1>2 DEF Stream!Open, Stream!Holding, Opened
  <1> QED
    BY <1>3 DEF Stream!SNext

LEMMA EventIsTake == ASSUME IInv, OnEvent PROVE Stream!SNext
  <1>1. Stream!Take
    BY EventTaken DEF Stream!Take, Stream!Holding
  <1> QED
    BY <1>1 DEF Stream!SNext

LEMMA RejectedIsEnd ==
  ASSUME IInv, SessionInv, OnInvalidSession
  PROVE  Stream!SNext \/ UNCHANGED Observed
  <1>1. CASE sessionID = NoSid
    <2>1. lastSeq = 0
      BY <1>1 DEF IInv, ServerFollows
    <2> QED
      BY <1>1, <2>1, Rejected DEF Observed, Opened
  <1>2. CASE sessionID # NoSid
    <2>1. Stream!End
      BY <1>2, Rejected DEF Stream!End, Stream!Holding
    <2> QED
      BY <2>1 DEF Stream!SNext
  <1> QED
    BY <1>1, <1>2

LEMMA CrashIsDie == ASSUME Crash PROVE Stream!SNext
  <1>1. Stream!Die
    BY DEF Crash, Stream!Die, Stream!Holding
  <1> QED
    BY <1>1 DEF Stream!SNext

LEMMA QuietStutters ==
  ASSUME IInv, [Next]_vars, ~Connect, ~Crash,
         Dial \/ Authenticate \/ PersistSeq \/ OnResumed \/ RowExpires \/ Elsewhere
  PROVE  UNCHANGED Observed
  <1>1. UNCHANGED <<sessionID, lastSeq, sessions, dead, delivered>>
    BY DEF Dial, Authenticate, PersistSeq, OnResumed, Receive, RowExpires, Elsewhere,
           memory, external, history
  <1>2. (lpc # "off")' = (lpc # "off")
    BY LoopMoves DEF PersistSeq, LoopStep
  <1> QED
    BY <1>1, <1>2 DEF Observed, Opened

LEMMA StreamInit == Init => Stream!SInit
  <1> SUFFICES ASSUME Init PROVE Stream!SInit
    OBVIOUS
  <1>1. \A s \in Sids : sessions[s] = -1
    BY DEF Init
  <1> QED
    BY <1>1 DEF Init, Stream!SInit

LEMMA StreamStep ==
  IInv /\ SessionInv /\ [Next]_vars => [Stream!SNext]_(Stream!svars)
  <1> SUFFICES ASSUME IInv, SessionInv, [Next]_vars
               PROVE  Stream!SNext \/ UNCHANGED Observed
    BY DEF Observed, Opened, Stream!svars
  <1> QED
    BY StepShape, ConnectStarts, ReadyIsOpen, EventIsTake, RejectedIsEnd,
       CrashIsDie, QuietStutters

(* The gateway implements EventStream, for any number of levels, attempts,  *)
(* sessions, sequence numbers and crashes: between Connect and the end of   *)
(* the process it leaves a session only when the server ends it, takes each *)
(* event once and in order, and a restart takes at most one again           *)
(* (gateway.go:90-385, session.go:66-107).                                  *)
THEOREM GatewayImplementsStream == Spec => ImplementsStream
  BY SessionAlways, StreamInit, StreamStep, PTL DEF Spec, ImplementsStream, Stream!SSpec

(* What the row and the memory are to each other and to the events handed   *)
(* on: the row holds the last session created, one message behind the       *)
(* memory at most, and the memory or row one event behind at most           *)
(* (gateway.go:222-233, 289-305, 329-333, 523-538).                         *)
THEOREM SessionKept == Spec => []SessionInv
  BY SessionAlways, PTL

-----------------------------------------------------------------------------
(* The heartbeat timers.  The gateway has no connection it has not dialled; *)
(* until Close it has the last but for the moment between dialling it and   *)
(* storing it, and behind the dialling there is one.                        *)
LatestConn ==
  /\ conn <= dials
  /\ closeAt = "idle" /\ loopAt # "dialed" => conn = dials
  /\ loopAt \in {"dialed", "hello", "stop", "start", "read"} => dials >= 1

TimersInv == TimersOK /\ LatestConn /\ HeartbeatKept

(* The types of Heartbeat, with its abbreviations spelled out.              *)
LoopPlaces == {"dial", "dialed", "hello", "stop", "start", "read", "round", "over"}
ChainStates == {"none", "armed", "fired", "write", "rearm"}
NetStates == {"new", "open", "closed"}
PlacesTyped ==
  /\ loopAt \in LoopPlaces /\ closeAt \in {"idle", "flag", "done"}
  /\ quit \in BOOLEAN
NetTyped ==
  /\ dials \in 0 .. MaxConns /\ net \in [1 .. MaxConns -> NetStates]
  /\ conn \in 0 .. MaxConns
  /\ \A c \in 1 .. MaxConns : net[c] = "new" <=> c > dials
ChainsTyped ==
  /\ heartbeatTimer \in Chains \cup {0} /\ chain \in [Chains -> ChainStates]
  /\ target \in [Chains -> 0 .. MaxConns]
  /\ \A h \in Chains : chain[h] \in {"write", "rearm"} => target[h] # 0

LEMMA TimersTyped ==
  /\ TimersOK <=> PlacesTyped /\ NetTyped /\ ChainsTyped
  /\ TimersOK' <=> PlacesTyped' /\ NetTyped' /\ ChainsTyped'
  <1>1. 1 .. MaxConns \cup {0} = 0 .. MaxConns
    BY HeartbeatAssumption
  <1> QED
    BY ONLY <1>1
       DEF TimersOK, Conns, NoConn, NoTimer,
           PlacesTyped, NetTyped, ChainsTyped, LoopPlaces, ChainStates, NetStates

LEMMA InitTimers == TimersInit => TimersInv
  <1> SUFFICES ASSUME TimersInit PROVE TimersInv
    OBVIOUS
  <1>1. /\ loopAt = "dial" /\ dials = 0 /\ conn = 0 /\ heartbeatTimer = 0
        /\ net = [c \in 1 .. MaxConns |-> "new"] /\ closeAt = "idle" /\ quit = FALSE
        /\ chain = [h \in Chains |-> "none"] /\ target = [h \in Chains |-> 0]
    BY DEF TimersInit, Conns, NoConn, NoTimer
  <1>2. TimersOK
    <2>1. PlacesTyped
      BY <1>1 DEF PlacesTyped, LoopPlaces
    <2>2. NetTyped
      BY <1>1, HeartbeatAssumption DEF NetTyped, NetStates
    <2>3. ChainsTyped
      BY <1>1, HeartbeatAssumption DEF ChainsTyped, ChainStates
    <2> QED
      BY <2>1, <2>2, <2>3, TimersTyped
  <1>3. LatestConn /\ HeartbeatKept
    BY <1>1 DEF LatestConn, HeartbeatKept
  <1> QED
    BY <1>2, <1>3 DEF TimersInv

(* A callback changes one chain.                                            *)
LEMMA CallbackMoves ==
  ASSUME ChainsTyped, NEW h \in Chains, NEW a \in ChainStates, NEW b \in ChainStates,
         CallbackStep(h, a, b)
  PROVE  /\ chain[h] = a /\ chain' \in [Chains -> ChainStates] /\ chain'[h] = b
         /\ \A g \in Chains \ {h} : chain'[g] = chain[g]
         /\ UNCHANGED <<loopAt, dials, net, conn, closeAt, quit>>
  BY DEF CallbackStep, ChainsTyped

(* Stopping the timer ends a chain or leaves all as they are.               *)
LEMMA Disarmed ==
  ASSUME ChainsTyped, Disarm, target' = target PROVE ChainsTyped'
  <1>1. \A h \in Chains : chain'[h] = chain[h] \/ chain'[h] = "none"
    BY DEF Disarm
  <1>2. chain' \in [Chains -> ChainStates] /\ heartbeatTimer' = 0
    BY DEF Disarm, NoTimer, ChainsTyped, ChainStates
  <1> QED
    BY <1>1, <1>2 DEF ChainsTyped

LEMMA LoopSteps ==
  ASSUME TimersInv,
         \/ DialConn \/ StoreConn \/ Handshake \/ ConnectionFails
         \/ ReadLoopEnds \/ RoundEnds \/ NextRound
         \/ StopHeartbeat \/ StartHeartbeat
  PROVE  TimersInv'
  <1>0. /\ PlacesTyped /\ NetTyped /\ ChainsTyped /\ LatestConn /\ HeartbeatKept
        /\ MaxConns \in Nat /\ 0 \notin Chains
    BY TimersTyped, HeartbeatAssumption DEF TimersInv
  <1>1. CASE DialConn
    <2>1. /\ dials < MaxConns /\ loopAt' = "dialed" /\ dials' = dials + 1
          /\ net' = [net EXCEPT ![dials + 1] = "open"]
          /\ UNCHANGED <<conn, heartbeatTimer, chain, target, closeAt, quit>>
      BY <1>1 DEF DialConn, LoopGoes
    <2>2. PlacesTyped' /\ ChainsTyped' /\ LatestConn' /\ HeartbeatKept'
      BY <1>0, <2>1 DEF PlacesTyped, LoopPlaces, NetTyped, ChainsTyped, LatestConn, HeartbeatKept, Up
    <2>3. NetTyped'
      BY <1>0, <2>1 DEF NetTyped, NetStates
    <2> QED
      BY <2>2, <2>3, TimersTyped DEF TimersInv
  <1>6. CASE StoreConn
    <2>1. /\ loopAt = "dialed" /\ loopAt' = "hello" /\ conn' = dials
          /\ UNCHANGED <<dials, net, heartbeatTimer, chain, target, closeAt, quit>>
      BY <1>6 DEF StoreConn, LoopGoes
    <2>2. PlacesTyped' /\ ChainsTyped' /\ LatestConn' /\ HeartbeatKept'
      BY <1>0, <2>1 DEF PlacesTyped, LoopPlaces, NetTyped, ChainsTyped, LatestConn, HeartbeatKept, Up
    <2>3. NetTyped'
      BY <1>0, <2>1 DEF NetTyped
    <2> QED
      BY <2>2, <2>3, TimersTyped DEF TimersInv
  <1>2. CASE ConnectionFails
    <2>1. /\ loopAt \in {"hello", "read"} /\ loopAt' = "dial"
          /\ net' = [net EXCEPT ![dials] = "closed"]
          /\ UNCHANGED <<dials, conn, heartbeatTimer, chain, target, closeAt, quit>>
      BY <1>2 DEF ConnectionFails
    <2>2. PlacesTyped' /\ ChainsTyped' /\ LatestConn' /\ HeartbeatKept'
      BY <1>0, <2>1 DEF PlacesTyped, LoopPlaces, ChainsTyped, LatestConn, HeartbeatKept, Up
    <2>3. NetTyped'
      BY <1>0, <2>1 DEF NetTyped, NetStates, LatestConn
    <2> QED
      BY <2>2, <2>3, TimersTyped DEF TimersInv
  <1>3. CASE Handshake \/ ReadLoopEnds \/ NextRound
    <2>1. /\ loopAt' \in LoopPlaces \ {"read"}
          /\ loopAt' = "stop" => loopAt = "hello"
          /\ loopAt' \notin {"dialed", "hello", "start"} /\ loopAt # "dialed"
          /\ UNCHANGED <<dials, net, conn, heartbeatTimer, chain, target, closeAt, quit>>
      BY <1>3 DEF Handshake, ReadLoopEnds, NextRound,
                  LoopGoes, LoopPlaces
    <2>2. PlacesTyped' /\ LatestConn' /\ HeartbeatKept'
      BY <1>0, <2>1 DEF PlacesTyped, LoopPlaces, LatestConn, HeartbeatKept, Up
    <2>3. NetTyped' /\ ChainsTyped'
      BY <1>0, <2>1 DEF NetTyped, ChainsTyped
    <2> QED
      BY <2>2, <2>3, TimersTyped DEF TimersInv
  <1>4. CASE RoundEnds \/ StopHeartbeat
    <2>1. /\ loopAt' \in {"round", "start"}
          /\ loopAt' = "start" => loopAt = "stop"
          /\ loopAt # "dialed" /\ Disarm /\ UNCHANGED <<dials, net, conn, target, closeAt, quit>>
      BY <1>4 DEF RoundEnds, StopHeartbeat, LoopGoes
    <2>2. PlacesTyped' /\ NetTyped' /\ LatestConn' /\ HeartbeatKept'
      BY <1>0, <2>1 DEF PlacesTyped, LoopPlaces, NetTyped, LatestConn, HeartbeatKept, Up
    <2>3. ChainsTyped'
      BY <1>0, <2>1, Disarmed
    <2> QED
      BY <2>2, <2>3, TimersTyped DEF TimersInv
  <1>5. CASE StartHeartbeat
    <2>1. PICK h \in Chains : /\ chain[h] = "none" /\ chain' = [chain EXCEPT ![h] = "armed"]
                              /\ heartbeatTimer' = h
      BY <1>5 DEF StartHeartbeat
    <2>2. /\ loopAt = "start" /\ loopAt' = "read"
          /\ UNCHANGED <<dials, net, conn, target, closeAt, quit>>
      BY <1>5 DEF StartHeartbeat, LoopGoes
    <2>3. PlacesTyped' /\ NetTyped' /\ LatestConn'
      BY <1>0, <2>2 DEF PlacesTyped, LoopPlaces, NetTyped, LatestConn
    <2>4. ChainsTyped' /\ chain'[h] = "armed"
      BY <1>0, <2>1, <2>2 DEF ChainsTyped, ChainStates
    <2>5. HeartbeatKept'
      BY <2>4 DEF HeartbeatKept, GoesOn, Up
    <2> QED
      BY <2>3, <2>4, <2>5, TimersTyped DEF TimersInv
  <1> QED
    BY <1>1, <1>2, <1>3, <1>4, <1>5, <1>6

(* A callback of the chain that goes on finds the last connection, and it   *)
(* is up.                                                                   *)
LEMMA CallbackSteps ==
  ASSUME TimersInv, NEW h \in Chains, Callback(h)
  PROVE  TimersInv'
  <1>0. /\ PlacesTyped /\ NetTyped /\ ChainsTyped /\ LatestConn /\ HeartbeatKept
        /\ MaxConns \in Nat /\ 0 \notin Chains
    BY TimersTyped, HeartbeatAssumption DEF TimersInv
  <1> DEFINE Done(b) ==
        /\ chain' \in [Chains -> ChainStates] /\ chain'[h] = b
        /\ \A g \in Chains \ {h} : chain'[g] = chain[g]
        /\ UNCHANGED <<loopAt, dials, net, conn, closeAt, quit>>
  <1>1. CASE Fire(h)
    <2>1. chain[h] = "armed" /\ Done("fired") /\ UNCHANGED <<heartbeatTimer, target>>
      BY <1>0, <1>1, CallbackMoves DEF Fire, ChainStates
    <2>2. ChainsTyped'
      BY <1>0, <2>1 DEF ChainsTyped
    <2>3. HeartbeatKept'
      BY <1>0, <2>1 DEF HeartbeatKept, GoesOn, Up
    <2>4. PlacesTyped' /\ NetTyped' /\ LatestConn'
      BY <1>0, <2>1 DEF PlacesTyped, NetTyped, LatestConn
    <2> QED
      BY <2>2, <2>3, <2>4, TimersTyped DEF TimersInv
  <1>2. CASE GetConn(h)
    <2>1. /\ chain[h] = "fired" /\ Done(IF conn = 0 THEN "none" ELSE "write")
          /\ target' = [target EXCEPT ![h] = conn] /\ heartbeatTimer' = heartbeatTimer
      BY <1>0, <1>2, CallbackMoves DEF GetConn, NoConn, ChainStates
    <2>2. /\ target' \in [Chains -> 0 .. MaxConns] /\ target'[h] = conn
          /\ \A g \in Chains \ {h} : target'[g] = target[g]
      BY <1>0, <2>1 DEF ChainsTyped, NetTyped
    <2>3. ChainsTyped'
      BY <1>0, <2>1, <2>2 DEF ChainsTyped
    <2>4. HeartbeatKept'
      BY <1>0, <2>1, <2>2 DEF HeartbeatKept, GoesOn, Up, LatestConn, NetTyped
    <2>5. PlacesTyped' /\ NetTyped' /\ LatestConn'
      BY <1>0, <2>1 DEF PlacesTyped, NetTyped, LatestConn
    <2> QED
      BY <2>3, <2>4, <2>5, TimersTyped DEF TimersInv
  <1>3. CASE WriteHeartbeat(h)
    <2>1. /\ chain[h] = "write" /\ Done(IF net[target[h]] = "open" THEN "rearm" ELSE "none")
          /\ UNCHANGED <<heartbeatTimer, target>>
      BY <1>0, <1>3, CallbackMoves DEF WriteHeartbeat, Up, ChainStates
    <2>2. ChainsTyped'
      BY <1>0, <2>1 DEF ChainsTyped
    <2>3. HeartbeatKept'
      BY <1>0, <2>1 DEF HeartbeatKept, GoesOn, Up
    <2>4. PlacesTyped' /\ NetTyped' /\ LatestConn'
      BY <1>0, <2>1 DEF PlacesTyped, NetTyped, LatestConn
    <2> QED
      BY <2>2, <2>3, <2>4, TimersTyped DEF TimersInv
  <1>4. CASE Rearm(h)
    <2>1. /\ chain[h] = "rearm" /\ Done("armed")
          /\ target' = [target EXCEPT ![h] = 0] /\ heartbeatTimer' = h
      BY <1>0, <1>4, CallbackMoves DEF Rearm, NoConn, ChainStates
    <2>2. /\ target' \in [Chains -> 0 .. MaxConns]
          /\ \A g \in Chains \ {h} : target'[g] = target[g]
      BY <1>0, <2>1 DEF ChainsTyped
    <2>3. ChainsTyped'
      BY <1>0, <2>1, <2>2 DEF ChainsTyped
    <2>4. HeartbeatKept'
      BY <2>1 DEF HeartbeatKept, GoesOn, Up
    <2>5. PlacesTyped' /\ NetTyped' /\ LatestConn'
      BY <1>0, <2>1 DEF PlacesTyped, NetTyped, LatestConn
    <2> QED
      BY <2>3, <2>4, <2>5, TimersTyped DEF TimersInv
  <1> QED
    BY <1>1, <1>2, <1>3, <1>4 DEF Callback

LEMMA CloseSteps ==
  ASSUME TimersInv, CloseTimers \/ CloseSocket
  PROVE  TimersInv'
  <1>0. PlacesTyped /\ NetTyped /\ ChainsTyped /\ LatestConn /\ MaxConns \in Nat
    BY TimersTyped, HeartbeatAssumption DEF TimersInv
  <1>1. /\ closeAt' \in {"flag", "done"} /\ UNCHANGED <<loopAt, dials, target, quit>>
    BY DEF CloseTimers, CloseSocket
  <1>2. PlacesTyped' /\ HeartbeatKept'
    BY <1>0, <1>1 DEF PlacesTyped, HeartbeatKept, Up
  <1>3. ChainsTyped'
    <2>1. CASE CloseTimers
      BY <1>0, <1>1, <2>1, Disarmed DEF CloseTimers
    <2>2. CASE CloseSocket
      BY <1>0, <1>1, <2>2 DEF CloseSocket, ChainsTyped
    <2> QED
      BY <2>1, <2>2
  <1>4. NetTyped'
    <2>1. CASE UNCHANGED <<net, conn>>
      BY <1>0, <1>1, <2>1 DEF NetTyped
    <2>2. CASE CloseSocket
      <3>1. conn' = 0 /\ net' = IF conn # 0 THEN [net EXCEPT ![conn] = "closed"] ELSE net
        BY <2>2 DEF CloseSocket, NoConn
      <3>2. conn # 0 => conn \in 1 .. MaxConns /\ ~(conn > dials) /\ net[conn] # "new"
        BY <1>0 DEF NetTyped, LatestConn
      <3> QED
        BY <1>0, <1>1, <3>1, <3>2 DEF NetTyped, NetStates
    <2> QED
      BY <2>1, <2>2 DEF CloseTimers
  <1>5. LatestConn'
    BY <1>0, <1>1 DEF LatestConn, NetTyped, CloseTimers, CloseSocket, NoConn
  <1> QED
    BY <1>2, <1>3, <1>4, <1>5, TimersTyped DEF TimersInv

(* The context is cancelled, or a connection left open drops.               *)
LEMMA OutsideSteps ==
  ASSUME TimersInv, CancelLoop \/ LeftoverDrops
  PROVE  TimersInv'
  <1>0. /\ PlacesTyped /\ NetTyped /\ ChainsTyped /\ LatestConn /\ HeartbeatKept
        /\ MaxConns \in Nat
    BY TimersTyped, HeartbeatAssumption DEF TimersInv
  <1>1. CASE CancelLoop
    <2>1. /\ quit' \in BOOLEAN
          /\ UNCHANGED <<loopAt, dials, net, conn, heartbeatTimer, chain, target, closeAt>>
      BY <1>1 DEF CancelLoop
    <2>2. PlacesTyped' /\ NetTyped' /\ ChainsTyped' /\ LatestConn'
      BY <1>0, <2>1 DEF PlacesTyped, NetTyped, ChainsTyped, LatestConn
    <2>3. HeartbeatKept'
      BY <1>0, <2>1 DEF HeartbeatKept, GoesOn, Up
    <2> QED
      BY <2>2, <2>3, TimersTyped DEF TimersInv
  <1>2. CASE LeftoverDrops
    <2>1. PICK c \in 1 .. MaxConns :
            net[c] = "open" /\ net' = [net EXCEPT ![c] = "closed"]
      BY <1>2 DEF LeftoverDrops, Conns, Up
    <2>2. /\ loopAt = "over"
          /\ UNCHANGED <<loopAt, dials, conn, heartbeatTimer, chain, target, closeAt, quit>>
      BY <1>2 DEF LeftoverDrops
    <2>3. PlacesTyped' /\ ChainsTyped' /\ LatestConn' /\ HeartbeatKept'
      BY <1>0, <2>2 DEF PlacesTyped, ChainsTyped, LatestConn, HeartbeatKept
    <2>4. NetTyped'
      BY <1>0, <2>1, <2>2 DEF NetTyped, NetStates
    <2> QED
      BY <2>3, <2>4, TimersTyped DEF TimersInv
  <1> QED
    BY <1>1, <1>2

LEMMA TimersInductive ==
  ASSUME TimersInv, [TimersNext]_(timersVars)
  PROVE  TimersInv'
  <1>1. CASE TimersNext /\ ~TimersEnded
    BY <1>1, LoopSteps, CallbackSteps, CloseSteps, OutsideSteps DEF TimersNext
  <1>2. CASE UNCHANGED timersVars
    <2>1. UNCHANGED <<loopAt, dials, net, conn, heartbeatTimer, chain, target, closeAt, quit>>
      BY <1>2 DEF timersVars
    <2>2. PlacesTyped' /\ NetTyped' /\ ChainsTyped' /\ LatestConn' /\ HeartbeatKept'
      BY <2>1, TimersTyped
         DEF TimersInv, PlacesTyped, NetTyped, ChainsTyped, LatestConn, HeartbeatKept, GoesOn, Up
    <2> QED
      BY <2>2, TimersTyped DEF TimersInv
  <1> QED
    BY <1>1, <1>2 DEF TimersEnded

(* The types of the timers: no callback writes before it has taken a        *)
(* connection, and none takes one that was never dialled                    *)
(* (gateway.go:408-438).                                                    *)
THEOREM TimersTypeCorrect == TimersSpec => []TimersOK
  <1>1. TimersInv => TimersOK
    BY DEF TimersInv
  <1> QED
    BY <1>1, InitTimers, TimersInductive, PTL DEF TimersSpec

(* While the loop reads a connection that is up and the gateway is open,    *)
(* some chain goes on writing heartbeats to that connection, however many   *)
(* old callbacks are still under way (gateway.go:255-258, 400-438).         *)
THEOREM HeartbeatGoesOn == TimersSpec => []HeartbeatKept
  <1>1. TimersInv => HeartbeatKept
    BY DEF TimersInv
  <1> QED
    BY <1>1, InitTimers, TimersInductive, PTL DEF TimersSpec
=============================================================================

# Formal model of qqbot-go

TLA+ specifications of the concurrent and stateful parts of qqbot-go, a QQ bot
gateway in Go: TLC checks them on small instances, and TLAPS proves the
theorems listed below for every value of the constants. Paths are relative to
the repository; `architecture.md` and `api.md` are those under `docs/en/`.

Checking: `tlc -config MCMessageQueue.cfg MCMessageQueue.tla`, and so on
for each configuration of the table *Runs*; `tlapm MessageQueueProofs.tla` for
the proofs.

## 1. The system

One process runs any number of bot accounts. For each account a **gateway**
holds a WebSocket to the QQ server, authenticates (Identify, or Resume of a
stored session), sends heartbeats and reads events. Message events go through a
**message queue** to the handler of the **bot manager**, which records the user
and passes the event to a **webhook** or, in channel mode, to an **MCP server**
on stdin and stdout. In the other direction HTTP **API** handlers and channel
tools send messages through the **outbound** handler and the **API client**,
which takes its **access token** from a cache. Each account has a **reminder
scheduler**. Sessions, reminders, known users and the reference index are rows
of one SQLite database.

| component | state | operations | hard behaviour |
|---|---|---|---|
| message queue, `gateway/queue.go` | a channel, a count and a worker per key; semaphore; `stopped`; context; WaitGroup | Enqueue, userWorker, Stop | callers against a worker's exit and its successor; Stop against a late Enqueue; limits |
| gateway, `gateway/gateway.go`, `reconnect.go`, `intents.go` | session ID, sequence number, intent level, connected, connection, attempts | Connect, connectLoop, connectOnce, tryConnect, readLoop, handlePayload, Close | drops and resumes, invalid sessions, fallback of levels, Close against the loop, restart from the row |
| heartbeat, same file | timer, connection | startHeartbeat, sendHeartbeat, stopHeartbeat | callbacks of old connections against new ones |
| session store, `store/session.go` | row per account | Load, Save, UpdateLastSeq | stale rows after a crash |
| scheduler, `proactive/scheduler.go`, `store/reminder_store.go` | map of jobs per account, one table for all | Start, Stop, AddReminder, CancelReminder, checkDue, executeJob | sends with no lock held; restarts |
| bot manager, `qqbot/botmanager.go`, `run.go` | accounts, `started`, context, forwarders, database | AddAccount, Start, Stop, Run, the event handler | order and time limit of the shutdown; the unlocked goroutine of Start |
| process lock, `qqbot/lock.go`, `channel.go` | PID file | Acquire, takeover, Release | several processes started together |
| access tokens, `api/token.go` | token and expiry per app, singleflight | GetAccessToken, Clear, background refresh | a shared fetch and its first caller's context; expiry |
| API client, `api/client.go`, `message.go`, `media.go` | app ID, secret, cancel | doRequest, apiRequestWithRetry, sendAndNotify | retries; a token that became invalid |
| upload cache, `api/upload_cache.go` | entries with expiry | Get, Set | eviction at the limit |
| outbound, `outbound/*.go` | replies counted per message ID | SendText, SendMedia, Check, Record | Check and Record apart, with the send between them |
| webhooks, `httpapi/webhook.go` | URL per account | Dispatch, send | one goroutine per event; retries |
| channel server, `channel/*.go` | chat of each sender, last sender | ForwardMessage, PushPermissionRequest, tool handlers | replies to whoever wrote last |
| known users, reference index, migration, `store/*.go` | rows | Record, Set, Get, migrate | a crash between rename and commit; caps and expiry |
| cron, `proactive/cron.go` | none | parseCronExpression, expandField | calendar boundaries |
| HTTP API, health, proactive, image server, image sizes, audio, utilities, configuration, types | none, or files | decode, call, encode | none a model would reach |

What makes each correct:

- *queue*: the items of a key are handled one at a time, in order, none is lost
  before Stop; the counters are exact, because the limits rest on them; Stop
  comes back.
- *gateway*: no event of a session is skipped, none is replayed within a
  process; the row describes the session it names; the loop reaches a
  connection or gives up; shutdown ends it.
- *heartbeat*: a connection being read has a heartbeat; once the loop is over they
  end, unless a connection is left that nobody closes.
- *scheduler*: an accepted reminder is kept until executed or cancelled, a
  cancelled one never comes back to whoever cancelled it, no scheduler executes a
  run time twice in a process.
- *process*: a shutdown loses nothing it had time for, leaves nothing running but
  an Enqueue it overtook, and ends, also when it times out and is run a second time.
- *lock*: the process that uses a data directory is the one its PID file names;
  every start ends.
- *migration*: users and references are in their file or in the database, and a
  newer row is not taken back.
- *tokens*: the server is asked once at a time and only for need; a failure goes
  to those it concerns; the token comes back after an expiry.
- *outbound*: the reply limit is exceeded by no more than what is under way; the
  parts of a message arrive in order; cached uploads are still valid where their lifetime allows it.
- *delivery*: an event is delivered or given up after its attempts; it is handed to
  the MCP server no more often than it was posted; a permission request goes to the
  last chat.
- *schedules*: the next run is the first minute that matches.

## 2. Modules

| module | models | code |
|---|---|---|
| `SerialProcessor` | what the queue promises: the abstract specification | gateway/queue.go:24 |
| `MessageQueue` | Enqueue, the workers and Stop | gateway/queue.go |
| `EventStream` | what a gateway session promises: the abstract specification | gateway/gateway.go:195-390 |
| `Gateway` | connect loop, messages of the server, Close, restart, session row, server | gateway/gateway.go, store/session.go |
| `Heartbeat` | timers and callbacks against the loop and Close | gateway/gateway.go:127-438 |
| `Scheduler` | all schedulers of a process over the table, restarts | proactive/scheduler.go, store/reminder_store.go |
| `Cron` | the next run of a schedule, as pure operators | proactive/cron.go, scheduler.go:190-213 |
| `TokenCache` | one app's token: callers, shared fetch, refresher | api/token.go |
| `Outbound` | sends of one account: reply limiter, media tags, uploads and their cache, requests and retries | outbound/\*.go, api/client.go, message.go, media.go, upload_cache.go |
| `BotManager` | a process: manager, event handlers, API calls, known users, shutdown | qqbot/botmanager.go, run.go, httpapi, proactive/proactive.go, store/known_users.go |
| `ChannelProcess` | channel processes over one directory: PID file, open, migration, crash | qqbot/channel.go, lock.go, store/db.go, migrate.go |
| `Delivery` | an event from the queue to the agent, through a webhook or embedded; permission requests | httpapi/webhook.go, channel/\*.go |
| `MessageQueueProofs`, `TokenCacheProofs`, `OutboundProofs`, `BotManagerProofs`, `ChannelProcessProofs`, `DeliveryProofs` | theorems about the module of that name | |
| `GatewayProofs` | theorems about `Gateway` and `Heartbeat` | |
| `SchedulerProofs` | theorems about `Scheduler` and `Cron` | |
| `MC*` | constants, and reference definitions of pure operators, for TLC | |

How they fit: `MessageQueue` implements `SerialProcessor` and `Gateway` implements
`EventStream` (both checked and proved).
`BotManager` uses the gateway, the queue and the schedulers only as their own
modules leave them: a loop that ends with its context (`ShutdownStops`), and a queue
that runs one handler per account (`BooksExact`); of the queue's Stop it keeps what
`MessageQueue` shows a late Enqueue can do to it. `Delivery` begins where the queue's handler ends. `Scheduler`
takes a schedule to be the time to its next run, which lies ahead; that `Cron` gives
it so is proved (`ScheduleLiesAhead`). `Outbound` takes a missing token to be one
more way a request is refused; `TokenCache` says when there is one.

### MessageQueue

Keys are values of `MessageItem.AccountID`. An item is passed to `Enqueue` once,
so it also names the call, and, when that call creates a worker, the worker and
its channel. `epc`, `wpc` and `spc` say where each call, worker and Stop is. A
step is one critical section of `q.mu`, one channel operation, one atomic
operation or one WaitGroup call:

- *Enqueue* is `CheckStopped` (no lock), `RejectFull` or `Reserve` (one critical
  section: count, find or create the channel and its worker), then the select:
  `Send` or, with the context cancelled, `SendCancelled` and `UndoReserve`.
- *userWorker* is `Receive`, `Acquire`, `HandlerReturns`, `Decrement` and
  again; with the context cancelled `SelectCancelled`, or `AcquireCancelled` and
  `DropItem`, then `Cleanup` and `WorkerDone`, the deferred function.
- *Stop* is `StopSwap`, `StopCancel`, `StopWait` and, when it had to wait,
  `StopResume`. Go's WaitGroup panics when a waiter it has woken finds the
  counter raised again; `StopResume` models that and nothing moves afterwards.

`SerialProcessor` accepts, begins and finishes items of each key in order, at
most `MaxParallel` keys at once, and may abandon items only once it is closing.
The refinement mapping takes the accepted items to be those whose call returned
true, `pending` to be what the registered worker has received or has in its
channel, and `running` to be what it is handling.

### Gateway

`lpc` is where the goroutine of `connectLoop` is, and `level`, `attempts`,
`intentIndex`, `sessionID`, `lastSeq`, `connected`, `ready`, `hasConn` are the
variables of the code. `link` is the state of the loop's own WebSocket. `row` is
the row of the account: session ID, sequence number, intent level, and whether
`saved_at` is less than five minutes old. `server`, `sessions` and `dead` are
the other end: it answers Identify with READY and a new session, Resume with
RESUMED and the replay of what followed, or with INVALID_SESSION, and may
ask for a reconnect or hang up at any time. The history `told` holds the sessions the
process was told are invalid. An event is two steps: `OnEvent`
takes the sequence number and calls Enqueue, `PersistSeq` writes the row
afterwards; `Crash` may come between them. `Close` is three steps, in the order
of the code: the flag with the heartbeat's timer, the connection, the context with
the queue. `CancelParent` is the context that `BotManager.Stop` cancels.

`EventStream` keeps a session and a place in it while it runs, takes the event after
that place, and lets go of the session only when the server has ended it; it starts
afresh or from the session opened last, at a safe place: nothing before it is
missing and at most the event after it was taken already. The refinement mapping
(`Stream`) takes them to be the session ID and the sequence number in memory, and the
events taken those given to the queue.

### Heartbeat

`loopAt`, `net` and `closeAt` say where the loop is, how its connections are, and where
Close is; `quit` is the loop's context. `tryConnect` dials (`DialConn`) and stores the
connection (`StoreConn`) in two steps, and Close may clear it in between or before.
`CancelLoop` comes at any time: `BotManager.Stop` cancels before it closes, Close
alone afterwards. `LeftoverDrops` is the peer giving up a connection nobody closed.
A chain is a timer and the callbacks that arm it again. `GetConn`,
`WriteHeartbeat` and `Rearm` are the three stages of `sendHeartbeat`, with no
lock between them, so that a callback of an old connection may write to a new
one and replace the timer that belongs to it. `Disarm` is `Timer.Stop`, which
does nothing to a callback that has begun.

### Scheduler and Cron

`jobs[a]` is the map of account `a`'s scheduler, `table` the rows, both holding
the next run. `checkDue` is `CollectDue` (its first lock), an `ExecuteJob` per
job with no lock held, and `Reschedule` (its second lock) after each. `Boot` is
`Start` of every scheduler, which loads every row into an empty map; `Crash`
leaves only the table. `CancelReminder` goes through any account whose map holds the
reminder. `Stop` is the manager's context, which ends every scheduler. The histories
say what was accepted and executed, which reminders were accepted by this process
(`added`), who cancelled which in it (`withdrawn`) and which were cancelled by an
earlier one (`gone`).

`Cron` is `expandField` part by part, the rule of the two day fields, and the
search minute by minute with its fallback of one minute later. Its calendar is a
constant, so that `MCScheduler` compares it on thirteen days with a definition of
what the documentation says a schedule means, and `MCCron` runs it on 2023 to 2025.

### TokenCache

Time is what is left: `ttl` until the cached token expires, `wait` until the
refresher's timer fires. `GetAccessToken` is the look under the read lock, `Do`
joins or leads the singleflight call, `DoubleCheck` is the second look,
`FetchSucceeds` and `FetchFails` are the request to the server, `EndFlight` hands
its result to everyone who waits. A failure includes the cancellation of the
leader's context. `Schedule`, `Wake` and `RefreshStops` are the background refresh,
`InitClient` and `Close` its start and end.

### Outbound

Each request is a goroutine of an HTTP handler. `Start` is the handler with the
limiter's Check; `PostText` a post with its three outcomes (taken, taken with its
answer lost, refused), `Record` the limiter's Record in a critical section of its
own; `Upload` asks the cache, `UploadAnswered`, `UploadRetried` and `UploadFailed`
are `apiRequestWithRetry` with `UploadCache.Set`, `PostMedia` the message that
carries the file. `SendText` computes the parts of a message as
`sendMixedContent` does: it looks for each normalised tag in the text as written,
behind the one before (`Walk`, the loop as a recursive function). The history
says which parts of a request were posted (`posted`) and, for each message, how
many texts its window confirmed; `granted` is the lifetime the service gave each file.
Two assumptions of `MCOutbound` compare it with the runs
of words and tags over all contents of up to four tokens.

### BotManager

`Stoppers` are the two runs of the shutdown: the goroutine that `Run` starts on a
signal, and the deferred calls of `Run`, which run beside it when ten seconds are
over (`RunReturns`). Each is `CloseAPI`, `Cancel` (the lock section of
`BotManager.Stop`), `CloseGateway` per account with the wait of the queue's Stop, and
the two steps of `CloseDB`, which reads and resets `m.db` without the lock. `Connect`
is the goroutine that `Start` began and may come after all of that. An event's way is
that of the code: `CheckStopped` is the look at `stopped` that `Enqueue` takes before
its lock, `Enqueue` the rest, which may start a worker of a queue stopped meanwhile;
`Take` and `Handle` are the worker with the write to `known_users`, `WorkerLeaves` and
`WorkerDone` its end. `group` is the queue's WaitGroup. A Stop that finds it above zero
is parked (`StopWaits`), and once woken panics if a late Enqueue has raised it again
(`StopResumes`). The history `overtaken` holds the events put into a queue stopped
since their check. `Call`, `SendOne` and `Answer` are an API request, with broadcasts
one recipient at a time.

### ChannelProcess

A process is its PID, and a PID is given out again. `Acquire` is `ReadPID`,
`TakeOver` or `CleanStale`, `Poll` or `Timeout`, `WritePID`. What SIGTERM does
depends on how far the other process is (`SIGTERM`). `CommitRows` and `Rename` are
the migration of known users and references, `InsertSessions` and
`CommitSessions` that of sessions, which renames before it commits. `Kill` may
come at any point.

### Delivery

`post[e]` is the goroutine of `send` for event `e` of an account with a webhook URL,
`handlers` the runs of `handleWebhook`, each for one attempt; an attempt may fail
though its handler goes on. In mode "embedded" the handler runs in the queue's worker.
`ForwardMessage` is `RememberChat`, its lock section, and `PushNotification`, which
hands the message to the MCP server. There the agent sees it (`Shown`) or not
(`Missed`): never before its session is initialized (`Initialize`), and not when the
session takes no more. `Restart` loses what the receiver remembers, with the session.
`PushPermissionRequest` is `FindChat`, the look for the last sender's chat, and
`SendRequest`, under the account of the receiver's configuration: the `-account` flag,
or "default" in embedded mode.

## 3. Runs

| run | configuration | checks | bounds |
|---|---|---|---|
| `queue` | `MCMessageQueue` | `TypeOK` `BooksExact` `CountsFit` `ImplementsPromise` `AcceptedIsHandled` `CallsComeBack` | three Enqueue calls, of one key or two of one and one of another, limit 2, one slot, one Stop |
| `gateway` | `MCGateway` | `TypeOK` `NoGap` `MemoryTrue` `ImplementsStream` `KeepsTrying` `ShutdownStops` | two levels, two attempts, two sessions of three sequence numbers, one crash |
| `heartbeat` | `MCHeartbeat` | `TimersOK` `HeartbeatKept` `HeartbeatsEnd` | three connections, three chains at once |
| `scheduler` | `MCScheduler` | `TypeOK` `OncePerRunTime` `CancelledIsGone` `AcceptedIsKept` `DueIsHandled` | two accounts, a recurring and a one-time reminder, times 0 to 2, one restart |
| `token_cache` | `MCTokenCache` | `TypeOK` `FetchesJustified` `CallsReturn` `TokenComesBack` | two callers and the refresher; lifetimes shorter and longer than the margin, and none stated |
| `outbound` | `MCOutbound` | `TypeOK` `ReplyOvershoot` `PartsInOrder` `CachedFilesLive` | three replies to one message, one with a picture, two other sends, two at a time; limit 1; two files, cache of one entry; margin 1, minimum 2, lifetimes 1, 3 and unstated |
| `bot_manager` | `MCBotManager` | `TypeOK` `NothingLostInTime` `QuietAfterStop` `ShutdownEnds` | two accounts, an event for each, and one API request of any kind |
| `channel_process` | `MCChannelProcess` | `TypeOK` `HolderIsNamed` `StartSettles` `MigrationKeeps` | three PIDs, one process starting at a time |
| `delivery` | `MCDelivery` | `TypeOK` `RequestToLastChat` `PushedForEachPost` `EventSettles` | three events, two of them of one sender in two chats of an account with a webhook, two attempts, one restart, one request |
| `scheduler_one_time` | `MCSchedulerOneTime` | `OneTimeExecutedOnce`, violated | one account, times 0 to 1 |
| `cron_leap_year` | `MCCron` | `MatchIsFound`, violated | the calendar of 2023 to 2025 |
| `channel_lock` | `MCChannelLock` | `OneInstance`, violated | three PIDs, two processes starting together |

`BooksExact` stands for `SerialPerKey`, `WorkerOwnsKey`, `SemaphoreExact` and
`WaitGroupExact`; `CountsFit` for `CountExact` and `SendNeverBlocks`; `MemoryTrue`
for `RowLevel`, `ConnectedMeansReading` and `RejectedNotResumed`;
`FetchesJustified` for `NoNeedlessFetch` and `FailureHasCause`.

Why the bounds suffice.

- *queue*: with limit 2, three calls of a key fill the channel and have one
  rejected, let a call be between its reservation and its send while the worker
  leaves, and let another create the successor; with a call of another key they
  compete for the one slot. Three calls is a state constraint, `ThreeCalls`, on
  four items; a call need not begin, so it cuts off other behaviours and not the
  ends of these. Two calls of Stop add nothing: the second returns at once.
- *gateway*: two sessions are the first one and the one after an invalid session;
  three sequence numbers are READY, an event handled and one that follows; one
  crash gives the row its round trip; two levels are a fallback and the last.
- *heartbeat*: a callback of the first connection may survive until the third, which
  Close may leave behind.
- *scheduler*: one recurring reminder that runs up to three times and one that runs
  once, on different accounts, with a restart in between, are all the cases
  `checkDue` and `Start` distinguish.
- *token_cache*: one leads a request, one joins it, and one that missed the cache
  before it comes after it; the times keep the order of the code's constants.
- *outbound*: the code's limit is 4 and its hour 60 minutes; with limit 1, a time
  unit and two at a time, two checks come before a record, and a third after the
  record has expired. The lifetimes are one the cache shortens by the margin, one it
  raises to the minimum, and none. `MaxTexts` is the most texts one request of the instance has.
- *bot_manager*: two accounts are one whose queue is waited for while the other's
  is still open; an event is enough to be overtaken, and a request of each kind meets
  the shutdown at every point.
- *channel_process*: three PIDs are a holder, one that takes over and a dead one in
  the file whose number is used again. Starts together are the third run.
- *delivery*: the code's three attempts are two here: the one that is repeated and
  the last. Messages of one sender in two chats and of another sender are what the
  remembered chat can confuse. The two accounts have no "default" among them, so
  that a request sent from the embedded channel fails.

Deadlock is checked in every run but `bot_manager` and `delivery`: a process exits
there, and a settled event has nothing left to do. Elsewhere the states in which
the system really ends (`Terminated`, `Ended`) allow a stuttering step of their
own.

### Fairness

- *queue*: a goroutine that stays runnable runs, handlers return, and callers
  that have begun go on; nobody is obliged to call. Weak fairness is enough: a
  blocked send or receive stays enabled until it happens, and as the items are
  finitely many, a worker that waits for a slot in the end competes with nobody.
- *gateway*: the goroutine of the loop runs; the dial and the wait for Hello end
  one way or the other; the server answers an Identify or Resume, or the
  connection breaks; a read of a closed connection returns. A server that has
  accepted may stay silent for ever: `ShutdownStops` does not need it to speak.
- *heartbeat*: timers fire, callbacks run, the loop goes on behind the handshake, a
  read of a closed connection fails. The context need not be cancelled, and nobody
  need drop a connection that was left.
- *scheduler*: the goroutine runs and a send returns, as the HTTP client has a
  time limit. Nobody need call the API, and time need not pass.
- *token_cache*: goroutines, timers and time go on; a request ends, as it has a
  limit of 30 seconds. Strong fairness of a good answer is the one assumption about
  the server: it does not fail for ever.
- *bot_manager*: handlers end, workers notice their context, and the shutdown goes on,
  the time limits of 5 and 10 seconds among its steps. This is one condition, `GoesOn`:
  while some of these can move, one of them does; none can go round for ever.
- *channel_process*: a process that starts goes on, and the takeover's deadline comes.
- *delivery*: goroutines go on, and an attempt ends by an answer or by the client's
  limit of ten seconds.

### Mutants

For every property of a passing run `PROJECT.json` names a mutant of a
definition, found in the modules under a comment `Mutant:`, with which
TLC finds the property violated: a missing reset, a limit off by one, a lost
release, a changed order. They show that the properties are about the code.

## 4. Where code and documentation part

Three runs show a statement of the documentation or of a comment that the code
breaks:

1. `scheduler_one_time`: architecture.md:432, a one-time reminder is deleted from
   the store. It is deleted from the map, and executed again after a restart.
2. `cron_leap_year`: cron.go:27, "up to 366 days". The search ends after 526000
   minutes, which is 365 days and less than seven hours, and falls back to one
   minute later: a yearly reminder executed in a leap year runs every minute for
   most of a day.
3. `channel_lock`: lock.go:12, "only one qqbot channel instance runs". Two
   processes that start together both find no file, write theirs and run.

Seen while modelling, without a run of their own:

- *Queue.* An Enqueue that read `stopped` before Stop's swap starts a worker
  after Stop has returned (queue.go:66, 79). In a shutdown that stays in time its event
  may be written to a closed database or be handled once the manager has stopped, one
  event of an account at most (`overtaken` in `BotManager`). Stop may panic through the WaitGroup
  (queue.go:96, the state `panicked` of `MessageQueue`). The key is the account, so
  all users of an account share one worker and the limit of 20 (gateway.go:375).
- *Gateway.* Close alone (as `RemoveAccount` calls it) cancels the loop's context
  last, so the loop may dial again and store a connection nobody closes, on which a
  callback that `stopHeartbeat` missed beats on for ever (gateway.go:194, 441-449);
  `HeartbeatsEnd` makes that exception. `BotManager.Stop` cancels first. The
  intent level is also lowered when an accepted connection drops, and a session
  cleared by INVALID_SESSION stays in the database and is resumed after a restart
  within five minutes (both architecture.md:309); `RejectedNotResumed` says what
  holds, that a process does not resume a session it was itself told is invalid. After `stopHeartbeat` a callback
  that is already running arms its timer again, so two chains may run side by side
  (gateway.go:424, 431). No heartbeat ACK is ever awaited (gateway.go:313).
- *Reminders.* After a restart every scheduler loads every account's rows
  (architecture.md:67) and executes them: a run time is executed once by each. A
  DELETE through another account then answers with success and removes the row
  (botmanager.go:491-498, scheduler.go:106-117), but its owner's scheduler keeps the
  reminder and executes it until the next restart; `CancelledIsGone` says what such a
  DELETE achieves. The row of a recurring reminder keeps its first `next_run`,
  so it is overdue at every restart. "@every 0s", a negative duration and a cron
  expression that never matches (weekday 7, 30 February, six fields) are accepted
  and fire at every tick or every minute.
- *Tokens and sends.* The first caller's context cancels the fetch that others
  share. An answer 401 clears nothing. Media replies are never recorded by the
  reply limiter, and concurrent replies pass it together, so the four per hour of
  api.md:353 can be exceeded; `ReplyOvershoot` says how far. An upload whose TTL is
  shorter than the margin and the minimum together stays cached longer than the margin
  allows, and even longer than the file lives (upload_cache.go:95-98);
  `CachedFilesLive` says by how much. A tag in any
  but the standard form, an alias for instance (api.md:376), is not found again in the
  text as written, and `sendMixedContent` sends it as text.
- *Process lock.* A stale file with the PID of the new process itself, as a container
  gives it, makes it send SIGTERM to itself.
- *Migration.* Session files are renamed before the commit (migrate.go:195-197,
  against architecture.md:364), so a crash in between loses the sessions. A rename
  that fails imports the file again at the next start.
- *Delivery and channel.* README.md:176 says "up to 3 retries"; there are three
  attempts in all. A notification is dropped without a trace when the agent's session
  is not initialized, as right after a start, or takes no more; the webhook is answered
  200 and does not post again (channel.go:74, webhook.go:67), so "delivered" does not
  mean that the agent has seen it. The chat of a sender is remembered without the
  account, and a permission request is sent under the configured account
  (channel.go:186), which need not be the one the chat belongs to, nor one there is:
  "default" in embedded mode. Its error is only logged. The embedded receiver leaves the mention in a group message, so a permission reply
  written there is not recognised; the reminder tools of the embedded mode use an
  empty client; the event handler is set after `mgr.Start`.
- *No caller outside the tests*: `ShouldQuickStop`, `SessionStore.Clear`,
  `RefIndexStore.Set` and `Get`, `RemoveAccount`, the `onMessageSent` hook,
  `TokenCache.Clear`, `ClearAll` and `GetStatus`.

## 5. Theorems

The proofs hold for every value of the constants that satisfies the module's
assumptions: any number of keys, items, callers, accounts, reminders, levels,
sessions, requests, events and processes. `MaxSeq`, `MaxSessions`, `MaxCrashes`,
`MaxTime`, `MaxConns` and `MaxRestarts` bound the state space for TLC; being
arbitrary in the proofs, they bound nothing there. The assumptions are typing:
limits are positive where the code's are, `NONE` and the like are no real values,
the things of different kinds a module puts in one set are different
(`Events \cap Calls = {}`), and what is counted is finite. Two bounds are
assumptions that say something: `MaxTexts` is the most texts one request has
(`TextsAssumption`), and `MaxStarting` how many channel processes start at once.

Each proof module defines an inductive invariant and proves that the initial
states satisfy it, that every step keeps it, and the theorems from it. TLC checked
each of them on the instances above before it was proved.

| module | theorem | states |
|---|---|---|
| `MessageQueueProofs` | `TypeCorrect`, `BooksAgree` with its parts, `CountsAlwaysFit`, `OwnEntryRemoved` | `TypeOK`, `BooksExact`, `CountsFit`, `OnlyOwnEntryRemoved` |
| | `QueueImplementsPromise` | `ImplementsPromise` |
| `GatewayProofs` | `TypeCorrect`, `NothingSkipped`, `NothingReplayed`, `MemoryHolds` with its parts, `LevelFalls` | `TypeOK`, `NoGap`, `NoRedelivery`, `MemoryTrue`, `LevelOnlyFalls` |
| | `GatewayImplementsStream`; `SessionKept` | `ImplementsStream`; the invariant `SessionInv` |
| | `TimersTypeCorrect`, `HeartbeatGoesOn` | `TimersOK` and `HeartbeatKept` of `Heartbeat` |
| `SchedulerProofs` | `TypeCorrect`, `ExecutesOnce`, `CancelIsFinal`, `AcceptedStays` | `TypeOK`, `OncePerRunTime`, `CancelledIsGone`, `AcceptedIsKept` |
| | `MatchMeansDue`, `NextRunIsFirstMatch`, `RunsWhenFirstDue`, `ScheduleLiesAhead` | what `Cron` computes, for any schedule |
| `TokenCacheProofs` | `TypeCorrect`, `FetchesAreJustified` | `TypeOK`, `FetchesJustified` |
| `OutboundProofs` | `TypeCorrect`, `PartsSentInOrder`, `OvershootBounded`, `CacheIsLive` | `TypeOK`, `PartsInOrder`, `ReplyOvershoot`, `CachedFilesLive` |
| | `TextsApart`, `SentInOrder` | what `SendText` sends, for any content |
| `BotManagerProofs` | `TypeCorrect`, `NothingLost`, `QuietWhenStopped` | `TypeOK`, `NothingLostInTime`, `QuietAfterStop` |
| `ChannelProcessProofs` | `TypeCorrect`, `NothingMigratedAway`; for `MaxStarting = 1`, `HolderNamed` | `TypeOK`, `MigrationKeeps`, `HolderIsNamed` |
| `DeliveryProofs` | `TypeCorrect`, `RequestGoesToLastChat`, `PushedPerPost` | `TypeOK`, `RequestToLastChat`, `PushedForEachPost` |

**`MessageQueueProofs`.** `TypeOK` is not inductive: the semaphore could become
negative if a worker gave back a slot nobody took, and a worker could be created
twice. `IInv` adds that the semaphore and the WaitGroup count exactly the workers in
the states they should (`SemaphoreExact`, `WaitGroupExact`), that a call which has
not reserved has created no worker (`FreshCalls`), and that the map and the live
workers name each other (`WorkerOwnsKey`). Serialisation per key follows: two
workers of one key that hold items would both be the one the map names. For the
counts and the refinement `QInv` adds `Places`: an accepted item is in one place,
its call's hands, one channel, its worker's hands or done; and `CountExact`: a
key's counter is the number of those in the first three. With that, a call that
has reserved finds room in its channel, and each step maps to one step of
`SerialProcessor` or to a stutter: `Send` to its acceptance, `Acquire` to its
beginning, `HandlerReturns` to its end, and the step of a worker that finds the
context cancelled to the abandonment which only that allows.

**`GatewayProofs`.** The heart is `ServerFollows` (a server that resumes or streams
does so for the session and sequence number in memory, and the row holds the
session in memory if there is one) with `SeqIsCovered` (all events up to the
sequence number, in memory and in the row, were enqueued). `LevelTried` says how the
level being tried and the recorded one relate at each point of the loop;
`OnlyCreated` that a new session's ID is really new to everyone, also to `told`: so a
session the process was told is invalid never comes back into its memory, and what is
resumed is what memory holds (`RejectedIsForgotten`).

The refinement needs more than those, `SessionInv`: the row holds the session created
last (`RowIsLatest`), its sequence number is the one in memory but while a message is
being handled (`RowInStep`), a session in the row that memory has forgotten is one
the server has ended (`ForgottenIsDead`), and neither place is more than one event
behind those handed on (`OneBehind`). Without `RowInStep` the place a restart goes on
from could lie anywhere behind; without `ForgottenIsDead` it could go on from a row
that nothing has kept in step. Each step then maps to one step of `EventStream` or to a
stutter: `Connect` to a start, READY to `Open`, `OnEvent` to `Take`,
INVALID_SESSION that cannot be resumed to `End`, `Crash` to `Die`. `NoRedelivery` and
`LevelOnlyFalls` are proved and in no run: the refinement, checked by the run
`gateway`, says the former of every event a process takes, and the level is
part of no promise.

For the timers
`TimersInv` adds `LatestConn`: until Close the gateway's connection is the last one
dialled and stored. So the chain that `StartHeartbeat` begins takes that one in `GetConn`, its
write succeeds while the connection is up, and no step of another chain ends it; a
callback of an earlier connection may end or go on beside it, and even take over the
timer, without harm to it.

**`SchedulerProofs`.** `ExecutedIsPast` says that what a process has executed lies
behind the job's next run unless it is the job about to be rescheduled; it needs
`TickBound`, as the next run is reckoned from the time the check began. `RowKept`
says that a reminder keeps its row until it is cancelled; it carries
`AcceptedIsKept` over a restart. A reminder accepted since the start is in its owner's
map and no other (`OwnersAlone`), so cancelling it through any account that has it is
final for all, and nobody else executes it; one loaded at the start is in every map, and
`CancelIsFinal` and `ExecutesOnce` claim less for it: the row and the map it was
cancelled through, and each scheduler by itself.

For `Cron` the theorems hold of any calendar, lengths of its units, schedule and
number of minutes tried, which replaces the instances of `MCScheduler`. A value is in
an expanded field exactly when some part counts up to it in its steps
(`FieldMeaning`, from `CountsUp` on remainders), so a minute matches exactly when it is
due by the documentation (`MatchMeansDue`, for a calendar whose days are days). A set
of naturals with a member has a least one (`LeastOf`), so the search returns the first
match (`NextRunIsFirstMatch`, `RunsWhenFirstDue`). `ScheduleLiesAhead` has one
hypothesis that the code does not enforce, that a duration after "@every" is
positive; section 4 says what happens otherwise.

**`TokenCacheProofs`.** That a fetch is needed rests on there being one at a time:
whoever leads a request, from before its second look at the cache until it ends, is
the one the singleflight group holds, so nobody else can have stored a token in
between; and whoever waits for a request that has failed is marked as having joined
it.

**`OutboundProofs`.** `OvershootBounded` is a matter of capacity: `Held(m)` are the
texts that have passed the check as replies to `m` and are still to be sent or
recorded. A request that is admitted brings at most `MaxTexts` of them and finds at
most `MaxInFlight - 1` others; a record moves one from `Held` to the count; an
expired record starts with what `Pending` holds. `Room` bounds the count and `Held`
together, and `Balance` says that the confirmed texts are the recorded ones and
those about to be. `PartsSentInOrder` follows from `PostedKept`: what was posted is
exactly what can be sent of the parts behind the current one, and that part as well
while it waits for the limiter or has failed with its answer lost. `CacheIsLive` follows
the lifetime the service granted: an entry and its file lose the same time, so the
margin between them stays, or what the minimum made of a lifetime too short for it. Type
correctness needs that `SendText` returns a sequence of texts and media for every
content, which is an induction along `Walk`. The library's induction theorems take
an operator, which the provers cannot instantiate; `SetInduction` states induction
for a *set* of naturals instead (an element outside the set would make "one less" an
injection of a finite set into a smaller one) and is proved from the facts on
cardinality. The same induction gives what a content becomes: between two media there
is at most one text (`TextsApart`, any tags), and when every tag is written in the
standard form the parts are the content's runs of words and its tags, in order
(`SentInOrder`; `InStep` says of each prefix what `Walk` has found and what is left
to send). That every tag is exact is needed: a tag in any other form is not
found in the text as written and goes out as text.

**`BotManagerProofs`.** `ShutdownInv` says where the stops can be: the deferred calls
begin only when the goroutine is done or given up (`StopsInOrder`), past
`CloseAPI` no request runs unless that gave up (`APIDrained`), and while Run waits,
a queue the goroutine has left is stopped and drained and one it has not come to is
untouched (`QueuesInTime`). Drained means up to an overtaken event: what lies in a queue
has a worker and each worker is counted (`QueueBooks`), so a WaitGroup at zero is an
empty queue; one Enqueue of an account at a time is past its check, and behind a Stop it
is the last (`OneOvertaken`); and a Stop that was woken finds zero again unless such an
Enqueue came (`WaitsForNone`). Nothing else is lost because the database is closed
behind all three.

**`ChannelProcessProofs`.** With one process starting at a time (`OneAcquires`), what
it read in the PID file stays true until it writes (`ReadIsCurrent`), and who writes
is alone (`WriterIsAlone`); so the file names every owner (`HolderNamed`).
`MaxStarting = 1` is a hypothesis of this theorem and not of the module: the
run `channel_lock` shows that two processes started together both run. `NothingMigratedAway` needs
no such hypothesis: its invariant `Migrated` says that a source whose file is renamed,
or about to be, has its row.

**`DeliveryProofs`.** What was handed to the MCP server is bounded only together with
what the running handlers will still hand over (`WithinBudget`), each of which belongs
to a post that was made (`HandlersPosted`). In embedded mode a worker is given an event
only when the one before is handed over (`EmbeddedInTurn`). The remembered chat of the
last sender is that of the last message, or none after a restart (`LastChatKnown`).

**Only model-checked.** Every safety invariant and action property of the passing
runs is proved. Liveness (`AcceptedIsHandled`, `CallsComeBack`, `KeepsTrying`,
`ShutdownStops`, `HeartbeatsEnd`, `DueIsHandled`, `CallsReturn`, `TokenComesBack`,
`StartSettles`, `ShutdownEnds`, `EventSettles`) stays with TLC: TLAPS has no rules
for fairness, which needs ENABLED. In `MCOutbound` an assumption also bounds how many
media a content with odd tags is sent as; the others of `MCOutbound` and `MCScheduler`
are bounded instances of theorems, kept because they tie the operators to definitions
that TLC evaluates. No module uses a RECURSIVE operator.

## 6. Not modelled

- **A malformed message** changes at most the sequence number; binary frames and
  compression are the library's.
- **Time** appears where the code compares it (a row's age, a reminder's run, what is
  left of a token), as a flag or a small counter. Delays are steps that may take any
  time.
- **Database errors** are printed and otherwise ignored by the code. `BotManager` has
  the one that matters, a database already closed, and `ChannelProcess` a commit that
  fails; elsewhere SQLite is taken to accept writes.
- **Data**: texts, attachments, request bodies, media formats, configuration, image
  and audio code; of known users the nickname, times and counter; the clean-up of
  the reply limiter above ten thousand records, which drops expired ones only.
- **Overlapping writes** of a heartbeat and the handshake to one WebSocket, which the
  library forbids (gateway.go:419), and everything else that is a data race below
  the grain of a step.
- **Tools of the channel server** parse arguments and make one call; the health and
  listing handlers only read; the image server is file I/O.
- Components without a module and the reason for each are in `PROJECT.json`.

## 7. What is left

1. The reminder tools of the channel server, and a sender that two accounts have in
   common.
2. The reference index with its cap and expiry, once something calls it.
3. Liveness by proof, when the prover has rules for ENABLED: `HeartbeatsEnd` and
   `CallsReturn` would be the first, as their invariants are proved.

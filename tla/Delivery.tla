------------------------------ MODULE Delivery ------------------------------
(***************************************************************************)
(* From an event handled by the queue to the agent that answers it.        *)
(*                                                                         *)
(* In "webhook" mode newEventHandler hands the event to                    *)
(* WebhookDispatcher.Dispatch (internal/httpapi/webhook.go), which starts  *)
(* one goroutine per event; send posts it up to MaxAttempts times.  The    *)
(* receiver is the channel server in a process of its own                  *)
(* (internal/channel/webhook.go), whose net/http answers once the handler  *)
(* has returned.  In "embedded" mode (internal/qqbot/channel.go) the       *)
(* handler runs in the queue's worker.  Both end in ForwardMessage, which  *)
(* remembers the chat of the sender under its lock and then hands the      *)
(* message to the MCP server.  That drops it without a word when the       *)
(* agent's session is not initialized yet or takes no more; whoever posted *)
(* the event is answered with success all the same.                        *)
(*                                                                         *)
(* The agent may ask for permission: PushPermissionRequest sends the       *)
(* request to the chat of whoever was forwarded last, under the account    *)
(* the receiver was configured with.                                       *)
(*                                                                         *)
(* Messages the receiver drops by their type, undecodable payloads and the *)
(* text of messages are left out.                                          *)
(***************************************************************************)
EXTENDS Naturals, Sequences, SequencesExt

CONSTANTS Accounts,       \* the accounts of the bot process
          Hooked,         \* those with a webhook URL
          FlagAccount,    \* the -account flag of the channel server
          Events,         \* message events
          AccountOf(_),   \* the account an event belongs to
          TypeOf(_),      \* its type,
          AuthorOf(_),    \* who wrote it,
          PlaceOf(_),     \* and the group or channel it was written in
          Requests,       \* permission requests of the agent
          NoChat,         \* no entry, no sender yet, no account either
          MaxAttempts,    \* webhookMaxRetries
          MaxRestarts     \* bound: restarts of the receiving process

ASSUME DeliveryAssumption ==
  /\ MaxAttempts \in Nat \ {0} /\ MaxRestarts \in Nat
  /\ \A e \in Events :
       TypeOf(e) \in {"C2C_MESSAGE_CREATE", "GROUP_AT_MESSAGE_CREATE", "GUILD_MESSAGE_CREATE",
                     "DIRECT_MESSAGE_CREATE"}

\* ExtractMessage, and the handlers of handleWebhook, which do the same: the
\* sender and the chat of a message.
SenderOf(e) == AuthorOf(e)
ChatOf(e) ==
  CASE TypeOf(e) = "C2C_MESSAGE_CREATE"      -> <<"c2c", AuthorOf(e)>>
    [] TypeOf(e) = "GROUP_AT_MESSAGE_CREATE" -> <<"group", PlaceOf(e)>>
    [] TypeOf(e) = "GUILD_MESSAGE_CREATE"    -> <<"channel", PlaceOf(e)>>
    [] TypeOf(e) = "DIRECT_MESSAGE_CREATE"   -> <<"dm", PlaceOf(e)>>

Senders == {SenderOf(e) : e \in Events}
Chats == {ChatOf(e) : e \in Events}

ASSUME NoChatAssumption == NoChat \notin Senders \cup Chats

VARIABLES
  mode,        \* "webhook" or "embedded"
  emitted,     \* the events in the order the workers handled them, embedded only
  post,        \* event -> what its goroutine in send is doing
  handlers,    \* runs of handleWebhook or of the embedded handler
  chatIDMap,   \* sender -> chat, in the receiving process
  lastSender,
  asked,       \* permission request -> how far PushPermissionRequest came
  restarts,
  client,      \* whether the agent's session with the receiver is initialized
  shown,       \* history: event -> how often it was shown to the agent
  missed,      \* history: event -> how often the MCP server dropped it
  latest       \* history: the chat of the message remembered last

dispatcher == <<mode, emitted, post>>
chats == <<chatIDMap, lastSender, latest>>
agent == <<client, shown, missed>>
receiver == <<handlers, chats, agent, restarts>>
vars == <<dispatcher, receiver, asked>>

Init ==
  /\ mode \in {"webhook", "embedded"}
  /\ emitted = <<>>
  /\ post = [e \in Events |-> [stage |-> "none", attempt |-> 0]]
  /\ handlers = {}
  /\ chatIDMap = [s \in Senders |-> NoChat]
  /\ lastSender = NoChat
  /\ asked = [r \in Requests |->
                [stage |-> "none", account |-> NoChat, chat |-> NoChat, due |-> NoChat]]
  /\ restarts = 0
  /\ client = FALSE
  /\ shown = [e \in Events |-> 0] /\ missed = [e \in Events |-> 0]
  /\ latest = NoChat

\* The handlers whose answer the dispatcher still waits for.
Awaited == {h \in handlers : post[h.event].stage = "waiting" /\ post[h.event].attempt = h.attempt}

-----------------------------------------------------------------------------
(* The dispatcher. *)

\* Dispatch, for an account with a URL: one goroutine per event, so the worker
\* does not wait.
Dispatch(e) ==
  /\ mode = "webhook" /\ AccountOf(e) \in Hooked
  /\ post[e].stage = "none"
  /\ post' = [post EXCEPT ![e].stage = "ready"]
  /\ UNCHANGED <<mode, emitted, receiver, asked>>

\* handleWebhook begins: net/http has read the request.
Arrive(e, n) == handlers' = handlers \cup {[event |-> e, attempt |-> n, stage |-> "got"]}

\* One turn of the loop of send, after its sleep: the request leaves, and may
\* not arrive.
Post(e) ==
  /\ post[e].stage = "ready"
  /\ LET n == post[e].attempt + 1 IN
     /\ post' = [post EXCEPT ![e] = [stage |-> "waiting", attempt |-> n]]
     /\ Arrive(e, n) \/ UNCHANGED handlers
  /\ UNCHANGED <<mode, emitted, chats, agent, restarts, asked>>

\* client.Do returns the receiver's answer.
Answered(e) ==
  /\ post[e].stage = "waiting"
  /\ \E h \in handlers :
       /\ h = [event |-> e, attempt |-> post[e].attempt, stage |-> "returned"]
       /\ handlers' = handlers \ {h}
  /\ post' = [post EXCEPT ![e].stage = "delivered"]
  /\ UNCHANGED <<mode, emitted, chats, agent, restarts, asked>>

AttemptFailsLate(e) ==   \* mutant: <= for < in the loop's test
  /\ post[e].stage = "waiting"
  /\ post' = [post EXCEPT ![e].stage =
                IF post[e].attempt <= MaxAttempts THEN "ready" ELSE "gaveUp"]
  /\ handlers' = {h \in handlers : h.event # e \/ h.stage # "returned"}
  /\ UNCHANGED <<mode, emitted, chats, agent, restarts, asked>>

AttemptFailsOnAnswer(e) ==   \* mutant: the client has no timeout
  /\ post[e].stage = "waiting"
  /\ \E h \in handlers \cap Awaited : h.event = e
  /\ post' = [post EXCEPT ![e].stage =
                IF post[e].attempt < MaxAttempts THEN "ready" ELSE "gaveUp"]
  /\ handlers' = {h \in handlers : h.event # e \/ h.stage # "returned"}
  /\ UNCHANGED <<mode, emitted, chats, agent, restarts, asked>>

\* client.Do fails, or the status is 400 or more: refused, lost or timed out.
\* Whatever runs in the receiver goes on.
AttemptFails(e) ==
  /\ post[e].stage = "waiting"
  /\ post' = [post EXCEPT ![e].stage =
                IF post[e].attempt < MaxAttempts THEN "ready" ELSE "gaveUp"]
  /\ handlers' = {h \in handlers : h.event # e \/ h.stage # "returned"}
  /\ UNCHANGED <<mode, emitted, chats, agent, restarts, asked>>

-----------------------------------------------------------------------------
(* The receiver. *)

\* The embedded handler runs in the worker of its account.
Embedded(e) ==
  /\ mode = "embedded"
  /\ e \notin Range(emitted)
  /\ \A h \in handlers : AccountOf(h.event) # AccountOf(e)
  /\ emitted' = Append(emitted, e)
  /\ handlers' = handlers \cup {[event |-> e, attempt |-> 0, stage |-> "got"]}
  /\ UNCHANGED <<mode, post, chats, agent, restarts, asked>>

\* The end of a handler: net/http has its answer, or the worker goes on.
HandlerReturns(h) ==
  handlers' = (handlers \ {h}) \cup {[x EXCEPT !.stage = "returned"] : x \in {h} \cap Awaited}

RememberFirst(e) ==   \* mutant: a known sender keeps the chat first seen
  /\ chatIDMap' = [chatIDMap EXCEPT ![SenderOf(e)] = IF @ = NoChat THEN ChatOf(e) ELSE @]
  /\ lastSender' = SenderOf(e)
  /\ latest' = ChatOf(e)

\* ForwardMessage under its lock: the chat of the sender, and the sender.
Remember(e) ==
  /\ chatIDMap' = [chatIDMap EXCEPT ![SenderOf(e)] = ChatOf(e)]
  /\ lastSender' = SenderOf(e)
  /\ latest' = ChatOf(e)

Shown(e) == client /\ shown' = [shown EXCEPT ![e] = @ + 1] /\ UNCHANGED missed
Missed(e) == missed' = [missed EXCEPT ![e] = @ + 1] /\ UNCHANGED shown

ShowTwice(e) ==   \* mutant: a verdict is shown as a message too
  Missed(e) \/ (client /\ shown' = [shown EXCEPT ![e] = @ + 2] /\ UNCHANGED missed)

\* SendNotificationToAllClients, for a message or a verdict: a session that is
\* not initialized is skipped, one whose channel is full loses it; neither is
\* reported back.
Show(e) == Shown(e) \/ Missed(e)

\* ForwardMessage up to its unlock, and what follows.
RememberChat(h) ==
  /\ h.stage = "got"
  /\ Remember(h.event)
  /\ handlers' = (handlers \ {h}) \cup {[h EXCEPT !.stage = "remembered"]}
  /\ UNCHANGED <<dispatcher, agent, restarts, asked>>

PushNotification(h) ==
  /\ h.stage = "remembered"
  /\ Show(h.event)
  /\ HandlerReturns(h)
  /\ UNCHANGED <<dispatcher, chats, client, restarts, asked>>

ForwardMessage(h) == RememberChat(h) \/ PushNotification(h)

Forward == \E h \in handlers : ForwardMessage(h)

\* The agent completes the handshake: ServeStdio runs beside the webhook server
\* and, embedded, after the gateways are started.
Initialize ==
  /\ ~client /\ client' = TRUE
  /\ UNCHANGED <<dispatcher, handlers, chats, shown, missed, restarts, asked>>

\* The receiving process is stopped and started again: its memory is gone, the
\* runs of its handlers too, and the dispatcher sees broken connections.
Restart ==
  /\ mode = "webhook" /\ restarts < MaxRestarts
  /\ restarts' = restarts + 1
  /\ handlers' = {}
  /\ chatIDMap' = [s \in Senders |-> NoChat]
  /\ lastSender' = NoChat
  /\ latest' = NoChat
  /\ client' = FALSE
  /\ asked' = [r \in Requests |->
                 IF asked[r].stage = "found" THEN [asked[r] EXCEPT !.stage = "failed"] ELSE asked[r]]
  /\ UNCHANGED <<dispatcher, shown, missed>>

-----------------------------------------------------------------------------
(* Permission requests. *)

\* cs.config.Account.
ReplyAccount == IF mode = "embedded" THEN "default" ELSE FlagAccount

\* PushPermissionRequest looks up the chat under the lock, and drops the request
\* without one.
FindChat(r) ==
  /\ client /\ asked[r].stage = "none"
  /\ LET chat == IF lastSender = NoChat THEN NoChat ELSE chatIDMap[lastSender] IN
     asked' = [asked EXCEPT ![r] =
       [stage |-> IF chat = NoChat THEN "dropped" ELSE "found",
        account |-> ReplyAccount, chat |-> chat, due |-> latest]]
  /\ UNCHANGED <<dispatcher, receiver>>

\* sender.Send: an unknown account is an error, and any other call may fail;
\* the error is logged only.
SendRequest(r) ==
  /\ asked[r].stage = "found"
  /\ \/ asked[r].account \in Accounts /\ asked' = [asked EXCEPT ![r].stage = "sent"]
     \/ asked' = [asked EXCEPT ![r].stage = "failed"]
  /\ UNCHANGED <<dispatcher, receiver>>

PushPermissionRequest(r) == FindChat(r) \/ SendRequest(r)

Send(e) == Post(e) \/ Answered(e) \/ AttemptFails(e)

Next ==
  \/ \E e \in Events : Dispatch(e) \/ Send(e) \/ Embedded(e)
  \/ Forward
  \/ Initialize
  \/ Restart
  \/ \E r \in Requests : PushPermissionRequest(r)

Spec == Init /\ [][Next]_vars

\* A goroutine in send, and a handler, go on; an answer or the client's timeout
\* of ten seconds ends every attempt.
FairSpec ==
  Spec /\ (\A e \in Events : WF_vars(Send(e))) /\ WF_vars(Forward)

-----------------------------------------------------------------------------
(* Properties. *)

TypeOK ==
  /\ mode \in {"webhook", "embedded"}
  /\ emitted \in Seq(Events)
  /\ post \in [Events -> [stage : {"none", "ready", "waiting", "delivered", "gaveUp"},
                          attempt : 0 .. MaxAttempts]]
  /\ handlers \subseteq [event : Events, attempt : 0 .. MaxAttempts,
                         stage : {"got", "remembered", "returned"}]
  /\ chatIDMap \in [Senders -> Chats \cup {NoChat}]
  /\ lastSender \in Senders \cup {NoChat}
  /\ asked \in [Requests -> [stage : {"none", "found", "sent", "failed", "dropped"},
                             account : {"default", FlagAccount, NoChat},
                             chat : Chats \cup {NoChat}, due : Chats \cup {NoChat}]]
  /\ client \in BOOLEAN
  /\ restarts \in 0 .. MaxRestarts
  /\ shown \in [Events -> Nat] /\ missed \in [Events -> Nat]
  /\ latest \in Chats \cup {NoChat}

\* A permission request goes to the chat of the message remembered last when it
\* was looked up (channel.go:164), also for a sender who writes in several chats,
\* however the forwarding of other messages interleaves; it is dropped exactly
\* when none came since the process started, and sent only under an account the
\* bot has, which need not be the one the chat belongs to.
RequestToLastChat ==
  \A r \in Requests : asked[r].stage # "none" =>
    /\ asked[r].chat = asked[r].due
    /\ asked[r].due = NoChat <=> asked[r].stage = "dropped"
    /\ asked[r].stage = "sent" => asked[r].account \in Accounts

\* How often an event was handed to the MCP server.
Pushed(e) == shown[e] + missed[e]

\* Retries and lost answers (httpapi/webhook.go:91-106): an event that counts as
\* delivered has been handed to the MCP server, also when the receiver was
\* restarted, but perhaps before the agent's session was there to see it; none
\* is handed over more often than it was posted; and without a network in
\* between each is at most once, and those of one account in the order the queue
\* handled them.
PushedForEachPost ==
  /\ \A e \in Events :
       /\ post[e].stage = "delivered" => Pushed(e) >= 1
       /\ Pushed(e) <= IF mode = "webhook" THEN post[e].attempt ELSE 1
  /\ mode = "embedded" => \A i, j \in DOMAIN emitted :
       (i < j /\ AccountOf(emitted[i]) = AccountOf(emitted[j])) =>
         Pushed(emitted[j]) <= Pushed(emitted[i])

\* An event in the loop of send, or an embedded one not handed over yet.
Pending(e) ==
  \/ post[e].stage \in {"ready", "waiting"}
  \/ e \in Range(emitted) /\ Pushed(e) = 0

\* No goroutine of the dispatcher stays in its loop, and no embedded message in
\* its worker: whenever events are pending, all are settled later, delivered or
\* given up or handed over.  (Events are finitely many, so each of them settles.)
EventSettles ==
  (\E e \in Events : Pending(e)) ~> ~(\E e \in Events : Pending(e))

=============================================================================

---------------------------- MODULE DeliveryProofs ----------------------------
(***************************************************************************)
(* Theorems about Delivery for any events, accounts, chats and requests,   *)
(* any number of attempts and of restarts of the receiver.                 *)
(***************************************************************************)
EXTENDS Delivery, FiniteSetTheorems, TLAPS

(* The runs of e's handler that have not handed it over yet.                *)
Got(e) == {h \in handlers : h.event = e /\ h.stage \in {"got", "remembered"}}

(* How often e may have been handed over: once for each post, or for the    *)
(* one run of the embedded handler.                                         *)
Budget(e) ==
  IF mode = "webhook" THEN post[e].attempt ELSE IF e \in Range(emitted) THEN 1 ELSE 0

-----------------------------------------------------------------------------
(* A goroutine in send that is ready, or not started, has a turn left; there *)
(* is none in embedded mode.                                                *)
TurnsLeft ==
  \A e \in Events :
    /\ post[e].stage \in {"none", "ready"} => post[e].attempt < MaxAttempts
    /\ mode = "embedded" => post[e].stage = "none"

(* The chat of the last sender is that of the message remembered last.      *)
LastChatKnown ==
  /\ lastSender = NoChat => latest = NoChat
  /\ lastSender # NoChat => latest = chatIDMap[lastSender] /\ latest # NoChat

(* A handler runs for a post that was made; it has handed its event over    *)
(* once it has returned.                                                    *)
HandlersPosted ==
  /\ IsFiniteSet(handlers)
  /\ \A h \in handlers :
       /\ mode = "webhook" => h.attempt <= post[h.event].attempt
       /\ h.stage = "returned" => Pushed(h.event) >= 1
       /\ mode = "embedded" => h.stage # "returned" /\ h.event \in Range(emitted)

(* What is handed over and what will be is within the posts made.           *)
WithinBudget == \A e \in Events : Pushed(e) + Cardinality(Got(e)) <= Budget(e)

DeliveredPushed == \A e \in Events : post[e].stage = "delivered" => Pushed(e) >= 1

(* An embedded message is handed over or in its worker's hands, and a       *)
(* worker is not given the next one before.                                 *)
EmbeddedInTurn ==
  mode = "embedded" =>
    /\ \A e \in Range(emitted) : Pushed(e) = 1 \/ \E h \in handlers : h.event = e
    /\ \A i, j \in DOMAIN emitted :
         i < j /\ AccountOf(emitted[i]) = AccountOf(emitted[j]) =>
           \A h \in handlers : h.event # emitted[i]

(* The inductive invariant.  What was handed over is bounded only together  *)
(* with what the running handlers will still hand over (WithinBudget).      *)
DInv ==
  /\ TypeOK
  /\ TurnsLeft
  /\ LastChatKnown
  /\ HandlersPosted
  /\ WithinBudget
  /\ DeliveredPushed
  /\ EmbeddedInTurn
  /\ RequestToLastChat

-----------------------------------------------------------------------------
Stages == {"none", "ready", "waiting", "delivered", "gaveUp"}
Posts == [Events -> [stage : Stages, attempt : 0 .. MaxAttempts]]
Runs == [event : Events, attempt : 0 .. MaxAttempts, stage : {"got", "remembered", "returned"}]
Ask == [stage : {"none", "found", "sent", "failed", "dropped"},
        account : {"default", FlagAccount, NoChat},
        chat : Chats \cup {NoChat}, due : Chats \cup {NoChat}]
Asks == [Requests -> Ask]

(* TypeOK by the variables that change together.                            *)
PostsOK == mode \in {"webhook", "embedded"} /\ post \in Posts /\ emitted \in Seq(Events)
ChatsOK ==
  /\ chatIDMap \in [Senders -> Chats \cup {NoChat}]
  /\ lastSender \in Senders \cup {NoChat} /\ latest \in Chats \cup {NoChat}
PushesOK == client \in BOOLEAN /\ shown \in [Events -> Nat] /\ missed \in [Events -> Nat]

LEMMA TypeParts ==
  TypeOK <=> /\ PostsOK /\ ChatsOK /\ PushesOK
             /\ handlers \subseteq Runs /\ asked \in Asks /\ restarts \in 0 .. MaxRestarts
  BY DEF TypeOK, PostsOK, ChatsOK, PushesOK, Posts, Stages, Runs, Asks, Ask

LEMMA PushedNat == PushesOK => \A e \in Events : Pushed(e) \in Nat
  BY DEF PushesOK, Pushed

LEMMA PushedSame == UNCHANGED <<shown, missed>> => \A e : Pushed(e)' = Pushed(e)
  BY DEF Pushed

LEMMA ChatFacts ==
  /\ \A e \in Events : SenderOf(e) \in Senders /\ ChatOf(e) \in Chats
  /\ NoChat \notin Senders /\ NoChat \notin Chats
  BY NoChatAssumption DEF Senders, Chats

(* The two ways a goroutine of send changes its entry.                      *)
LEMMA StageSet ==
  ASSUME post \in Posts, NEW e \in Events, NEW s \in Stages,
         post' = [post EXCEPT ![e].stage = s]
  PROVE  /\ post' \in Posts
         /\ post'[e].stage = s /\ post'[e].attempt = post[e].attempt
         /\ \A f \in Events : f # e => post'[f] = post[f]
  <1>1. /\ post[e] \in [stage : Stages, attempt : 0 .. MaxAttempts]
        /\ post'[e] = [post[e] EXCEPT !.stage = s]
        /\ \A f \in Events : f # e => post'[f] = post[f]
    BY DEF Posts
  <1>2. /\ post'[e].stage = s /\ post'[e].attempt = post[e].attempt
        /\ post'[e] \in [stage : Stages, attempt : 0 .. MaxAttempts]
    BY <1>1
  <1>3. post' \in Posts
    BY <1>1, <1>2 DEF Posts
  <1> QED
    BY <1>1, <1>2, <1>3

LEMMA TurnTaken ==
  ASSUME post \in Posts, NEW e \in Events, NEW n \in 0 .. MaxAttempts,
         post' = [post EXCEPT ![e] = [stage |-> "waiting", attempt |-> n]]
  PROVE  /\ post' \in Posts
         /\ post'[e].stage = "waiting" /\ post'[e].attempt = n
         /\ \A f \in Events : f # e => post'[f] = post[f]
  BY DEF Posts, Stages

(* The handlers of one event.                                               *)
LEMMA GotFinite ==
  ASSUME IsFiniteSet(handlers), NEW e
  PROVE  IsFiniteSet(Got(e)) /\ Cardinality(Got(e)) \in Nat
  BY FS_Subset, FS_CardinalityType DEF Got

(* A new run counts once for its event and not for another.                 *)
LEMMA GotOneMore ==
  ASSUME IsFiniteSet(handlers), NEW e \in Events, NEW n,
         handlers' = handlers \cup {[event |-> e, attempt |-> n, stage |-> "got"]}
  PROVE  /\ IsFiniteSet(handlers')
         /\ Cardinality(Got(e)') <= Cardinality(Got(e)) + 1
         /\ Cardinality(Got(e)') \in Nat
         /\ \A f \in Events : f # e => Got(f)' = Got(f)
  <1> DEFINE r == [event |-> e, attempt |-> n, stage |-> "got"]
  <1>1. Got(e)' = Got(e) \cup {r}
    BY DEF Got
  <1>2. \A f \in Events : f # e => Got(f)' = Got(f)
    BY DEF Got
  <1>3. IsFiniteSet(handlers')
    BY FS_AddElement
  <1>4. /\ IsFiniteSet(Got(e)') /\ Cardinality(Got(e)) \in Nat
        /\ Cardinality(Got(e)') = IF r \in Got(e) THEN Cardinality(Got(e)) ELSE Cardinality(Got(e)) + 1
    <2>1. IsFiniteSet(Got(e)) /\ Cardinality(Got(e)) \in Nat
      BY GotFinite
    <2> HIDE DEF r
    <2>2. /\ IsFiniteSet(Got(e) \cup {r})
          /\ Cardinality(Got(e) \cup {r}) =
               IF r \in Got(e) THEN Cardinality(Got(e)) ELSE Cardinality(Got(e)) + 1
      BY ONLY <2>1, FS_AddElement
    <2> QED
      BY ONLY <1>1, <2>1, <2>2
  <1> HIDE DEF r
  <1> QED
    BY <1>2, <1>3, <1>4

LEMMA InitDInv == Init => DInv
  <1> SUFFICES ASSUME Init PROVE DInv
    OBVIOUS
  <1>1. PostsOK /\ PushesOK /\ ChatsOK
    <2>1. post \in Posts
      BY DeliveryAssumption DEF Init, Posts, Stages
    <2>2. mode \in {"webhook", "embedded"} /\ emitted \in Seq(Events)
      BY DEF Init
    <2>3. PushesOK
      BY DEF Init, PushesOK
    <2>4. ChatsOK
      BY DEF Init, ChatsOK
    <2> QED
      BY <2>1, <2>2, <2>3, <2>4 DEF PostsOK
  <1>2. handlers \subseteq Runs /\ asked \in Asks /\ restarts \in 0 .. MaxRestarts
    BY DeliveryAssumption DEF Init, Asks, Ask
  <1>3. \A e : Got(e) = {}
    BY DEF Init, Got
  <1>4. WithinBudget
    <2>1. \A e : Cardinality(Got(e)) = 0
      BY <1>3, FS_EmptySet
    <2>2. \A e \in Events : Pushed(e) = 0 /\ post[e].attempt = 0
      BY DEF Init, Pushed
    <2>3. \A e \in Events : Budget(e) \in {0, 1}
      BY <2>2 DEF Budget
    <2> QED
      BY <2>1, <2>2, <2>3 DEF WithinBudget
  <1>5. HandlersPosted
    BY FS_EmptySet DEF Init, HandlersPosted
  <1>6. TurnsLeft /\ LastChatKnown /\ DeliveredPushed /\ RequestToLastChat
    BY DeliveryAssumption DEF Init, TurnsLeft, LastChatKnown, DeliveredPushed, RequestToLastChat
  <1>7. EmbeddedInTurn
    BY DEF Init, EmbeddedInTurn, Range
  <1> QED
    BY <1>1, <1>2, <1>4, <1>5, <1>6, <1>7, TypeParts DEF DInv

-----------------------------------------------------------------------------
(* A step of a goroutine of send that posts nothing: its stage changes, and *)
(* handlers that have answered may be forgotten.                            *)
LEMMA StageStep ==
  ASSUME DInv, mode = "webhook", NEW e \in Events, NEW s \in Stages \ {"none"},
         s = "ready" => post[e].attempt < MaxAttempts,
         s = "delivered" => Pushed(e) >= 1,
         post' = [post EXCEPT ![e].stage = s],
         handlers' \subseteq handlers,
         UNCHANGED <<mode, emitted, chatIDMap, lastSender, restarts, client, shown, missed, latest, asked>>
  PROVE  DInv'
  <1>0. /\ PostsOK /\ ChatsOK /\ PushesOK
        /\ handlers \subseteq Runs /\ asked \in Asks /\ restarts \in 0 .. MaxRestarts
    BY TypeParts DEF DInv
  <1>1. /\ post' \in Posts
        /\ post'[e].stage = s /\ post'[e].attempt = post[e].attempt
        /\ \A f \in Events : f # e => post'[f] = post[f]
    BY <1>0, StageSet DEF PostsOK
  <1>2. \A f \in Events : post'[f].attempt = post[f].attempt
    BY <1>1
  <1>p. \A f : Pushed(f)' = Pushed(f)
    BY PushedSame
  <1>3. TypeOK'
    BY ONLY <1>0, <1>1, handlers' \subseteq handlers,
            UNCHANGED <<mode, emitted, chatIDMap, lastSender, restarts, client, shown, missed, latest, asked>>
       DEF TypeOK, PostsOK, ChatsOK, PushesOK, Posts, Stages, Runs, Asks, Ask
  <1>4. TurnsLeft'
    <2>1. TurnsLeft
      BY DEF DInv
    <2> QED
      BY <1>1, <2>1 DEF TurnsLeft
  <1>5. LastChatKnown' /\ RequestToLastChat'
    BY ONLY DInv, UNCHANGED <<mode, emitted, chatIDMap, lastSender, restarts, client, shown, missed, latest, asked>>
       DEF DInv, LastChatKnown, RequestToLastChat
  <1>6. HandlersPosted'
    <2>1. HandlersPosted /\ \A h \in handlers : h.event \in Events
      BY <1>0 DEF DInv, Runs
    <2>2. IsFiniteSet(handlers')
      BY <2>1, FS_Subset DEF HandlersPosted
    <2> QED
      BY <1>2, <1>p, <2>1, <2>2 DEF HandlersPosted
  <1>7. WithinBudget'
    <2>1. IsFiniteSet(handlers) /\ WithinBudget
      BY DEF DInv, HandlersPosted
    <2>2. ASSUME NEW f \in Events
          PROVE  /\ Cardinality(Got(f)) \in Nat /\ Cardinality(Got(f)') \in Nat
                 /\ Cardinality(Got(f)') <= Cardinality(Got(f))
      <3>1. IsFiniteSet(Got(f)) /\ Got(f)' \subseteq Got(f)
        BY <2>1, GotFinite DEF Got
      <3> QED
        BY <3>1, FS_Subset, FS_CardinalityType
    <2>3. \A f \in Events : Budget(f)' = Budget(f) /\ Pushed(f)' = Pushed(f)
      BY <1>2, <1>p DEF Budget
    <2>4. \A f \in Events : Pushed(f) \in Nat /\ Budget(f) \in Int
      BY <1>0, PushedNat DEF PostsOK, Posts, Budget
    <2> QED
      BY <2>1, <2>2, <2>3, <2>4 DEF WithinBudget
  <1>8. DeliveredPushed'
    BY <1>1, <1>p DEF DInv, DeliveredPushed
  <1>9. EmbeddedInTurn'
    BY DEF EmbeddedInTurn
  <1> QED
    BY <1>3, <1>4, <1>5, <1>6, <1>7, <1>8, <1>9 DEF DInv

LEMMA DispatchStep == ASSUME DInv, NEW e \in Events, Dispatch(e) PROVE DInv'
  <1>1. /\ mode = "webhook" /\ post[e].stage = "none"
        /\ post' = [post EXCEPT ![e].stage = "ready"] /\ handlers' = handlers
        /\ UNCHANGED <<mode, emitted, chatIDMap, lastSender, restarts, client, shown, missed, latest, asked>>
    BY DEF Dispatch, receiver, chats, agent
  <1>2. post[e].attempt < MaxAttempts
    BY <1>1 DEF DInv, TurnsLeft
  <1>3. "ready" \in Stages \ {"none"} /\ "ready" # "delivered" /\ handlers' \subseteq handlers
    BY <1>1 DEF Stages
  <1> QED
    BY <1>1, <1>2, <1>3, StageStep

LEMMA AnsweredStep == ASSUME DInv, NEW e \in Events, Answered(e) PROVE DInv'
  <1>1. /\ post[e].stage = "waiting"
        /\ post' = [post EXCEPT ![e].stage = "delivered"] /\ handlers' \subseteq handlers
        /\ UNCHANGED <<mode, emitted, chatIDMap, lastSender, restarts, client, shown, missed, latest, asked>>
    BY DEF Answered, chats, agent
  <1>2. mode = "webhook"
    BY <1>1 DEF DInv, TurnsLeft, TypeOK
  <1>3. Pushed(e) >= 1
    BY DEF Answered, DInv, HandlersPosted
  <1>4. "delivered" \in Stages \ {"none"} /\ "delivered" # "ready"
    BY DEF Stages
  <1> QED
    BY <1>1, <1>2, <1>3, <1>4, StageStep

LEMMA AttemptFailsStep == ASSUME DInv, NEW e \in Events, AttemptFails(e) PROVE DInv'
  <1> DEFINE s == IF post[e].attempt < MaxAttempts THEN "ready" ELSE "gaveUp"
  <1>1. /\ post[e].stage = "waiting"
        /\ post' = [post EXCEPT ![e].stage = s] /\ handlers' \subseteq handlers
        /\ UNCHANGED <<mode, emitted, chatIDMap, lastSender, restarts, client, shown, missed, latest, asked>>
    BY DEF AttemptFails, chats, agent
  <1>2. mode = "webhook"
    BY <1>1 DEF DInv, TurnsLeft, TypeOK
  <1>3. /\ s \in Stages \ {"none"} /\ s # "delivered"
        /\ s = "ready" => post[e].attempt < MaxAttempts
    BY DEF Stages
  <1> HIDE DEF s
  <1> QED
    BY <1>1, <1>2, <1>3, StageStep

(* A post: a turn was left, and at most one run more will show the event.   *)
LEMMA PostStep == ASSUME DInv, NEW e \in Events, Post(e) PROVE DInv'
  <1> DEFINE n == post[e].attempt + 1
  <1>0. /\ PostsOK /\ ChatsOK /\ PushesOK
        /\ handlers \subseteq Runs /\ asked \in Asks /\ restarts \in 0 .. MaxRestarts
    BY TypeParts DEF DInv
  <1>1. /\ post[e].stage = "ready"
        /\ post' = [post EXCEPT ![e] = [stage |-> "waiting", attempt |-> n]]
        /\ \/ handlers' = handlers \cup {[event |-> e, attempt |-> n, stage |-> "got"]}
           \/ handlers' = handlers
        /\ UNCHANGED <<mode, emitted, chatIDMap, lastSender, restarts, client, shown, missed, latest, asked>>
    BY DEF Post, Arrive, chats, agent
  <1>p. \A f : Pushed(f)' = Pushed(f)
    BY <1>1, PushedSame
  <1>2. n \in 0 .. MaxAttempts /\ post[e].attempt \in Nat /\ mode = "webhook"
    BY <1>0, <1>1, DeliveryAssumption DEF DInv, TurnsLeft, PostsOK, Posts
  <1>3. n = post[e].attempt + 1
    OBVIOUS
  <1> HIDE DEF n
  <1>4. /\ post' \in Posts
        /\ post'[e].stage = "waiting" /\ post'[e].attempt = n
        /\ \A f \in Events : f # e => post'[f] = post[f]
    BY <1>0, <1>1, <1>2, TurnTaken DEF PostsOK
  <1>5. handlers' \subseteq Runs
    BY <1>0, <1>1, <1>2 DEF Runs
  <1>6. TypeOK'
    BY ONLY <1>0, <1>1, <1>4, <1>5
       DEF TypeOK, PostsOK, ChatsOK, PushesOK, Posts, Stages, Runs, Asks, Ask
  <1>7. TurnsLeft'
    BY <1>1, <1>2, <1>4 DEF DInv, TurnsLeft
  <1>8. LastChatKnown' /\ RequestToLastChat'
    BY ONLY DInv, <1>1 DEF DInv, LastChatKnown, RequestToLastChat
  <1>9. IsFiniteSet(handlers)
    BY DEF DInv, HandlersPosted
  <1>10. /\ IsFiniteSet(handlers')
         /\ Cardinality(Got(e)') <= Cardinality(Got(e)) + 1
         /\ Cardinality(Got(e)') \in Nat
         /\ \A f \in Events : f # e => Got(f)' = Got(f)
    <2>1. CASE handlers' = handlers \cup {[event |-> e, attempt |-> n, stage |-> "got"]}
      BY <1>9, <2>1, GotOneMore
    <2>2. CASE handlers' = handlers
      <3>1. \A f : Got(f)' = Got(f)
        BY <2>2 DEF Got
      <3> QED
        BY <1>9, <2>2, <3>1, GotFinite
    <2> QED
      BY <1>1, <2>1, <2>2
  <1>11. HandlersPosted'
    <2>1. HandlersPosted /\ \A h \in handlers : h.event \in Events /\ h.attempt \in Nat
      BY <1>0, DeliveryAssumption DEF DInv, Runs
    <2>2. \A f \in Events : post[f].attempt \in Nat /\ post'[f].attempt \in Nat
                              /\ post[f].attempt <= post'[f].attempt
      BY <1>0, <1>2, <1>3, <1>4 DEF PostsOK, Posts
    <2>3. ASSUME NEW h \in handlers' PROVE h.attempt <= post'[h.event].attempt
      <3>1. CASE h \in handlers
        BY <1>2, <2>1, <2>2, <3>1 DEF HandlersPosted
      <3>2. CASE h = [event |-> e, attempt |-> n, stage |-> "got"]
        BY <1>2, <1>4, <3>2
      <3> QED
        BY <1>1, <3>1, <3>2
    <2>4. \A h \in handlers' : h.stage = "returned" => Pushed(h.event)' >= 1
      BY <1>1, <1>p, <2>1 DEF HandlersPosted
    <2> QED
      BY <1>1, <1>2, <1>10, <2>3, <2>4 DEF HandlersPosted
  <1>12. WithinBudget'
    <2>1. ASSUME NEW f \in Events PROVE Pushed(f)' + Cardinality(Got(f)') <= Budget(f)'
      <3>1. Pushed(f) \in Nat /\ Pushed(f)' = Pushed(f) /\ Cardinality(Got(f)) \in Nat
        BY <1>0, <1>p, <1>9, GotFinite, PushedNat
      <3>2. Pushed(f) + Cardinality(Got(f)) <= post[f].attempt
        BY <1>2 DEF DInv, WithinBudget, Budget
      <3>3. Budget(f)' = post'[f].attempt /\ post[f].attempt \in Nat
        BY <1>0, <1>1, <1>2 DEF Budget, PostsOK, Posts
      <3>4. CASE f = e
        BY <1>2, <1>3, <1>4, <1>10, <3>1, <3>2, <3>3, <3>4
      <3>5. CASE f # e
        BY <1>4, <1>10, <3>1, <3>2, <3>3, <3>5
      <3> QED
        BY <3>4, <3>5
    <2> QED
      BY <2>1 DEF WithinBudget
  <1>13. DeliveredPushed'
    BY <1>1, <1>4, <1>p DEF DInv, DeliveredPushed
  <1>14. EmbeddedInTurn'
    BY <1>1, <1>2 DEF EmbeddedInTurn
  <1> QED
    BY <1>6, <1>7, <1>8, <1>11, <1>12, <1>13, <1>14 DEF DInv

(* The embedded handler begins: its event is new, and no other handler of   *)
(* the account runs.                                                        *)
LEMMA EmbeddedStep == ASSUME DInv, NEW e \in Events, Embedded(e) PROVE DInv'
  <1> DEFINE r == [event |-> e, attempt |-> 0, stage |-> "got"]
  <1>0. /\ PostsOK /\ ChatsOK /\ PushesOK
        /\ handlers \subseteq Runs /\ asked \in Asks /\ restarts \in 0 .. MaxRestarts
    BY TypeParts DEF DInv
  <1>1. /\ mode = "embedded" /\ e \notin Range(emitted)
        /\ \A h \in handlers : AccountOf(h.event) # AccountOf(e)
        /\ emitted' = Append(emitted, e)
        /\ handlers' = handlers \cup {r}
        /\ UNCHANGED <<mode, post, chatIDMap, lastSender, restarts, client, shown, missed, latest, asked>>
    BY DEF Embedded, chats, agent
  <1>p. \A f : Pushed(f)' = Pushed(f)
    BY <1>1, PushedSame
  <1>2. r \in Runs /\ r.event = e /\ r.stage = "got"
    BY DeliveryAssumption DEF Runs
  <1>3. IsFiniteSet(handlers) /\ HandlersPosted
    BY DEF DInv, HandlersPosted
  <1>4. /\ IsFiniteSet(handlers')
        /\ Cardinality(Got(e)') <= Cardinality(Got(e)) + 1
        /\ Cardinality(Got(e)') \in Nat
        /\ \A f \in Events : f # e => Got(f)' = Got(f)
    BY <1>1, <1>3, GotOneMore
  <1> HIDE DEF r
  <1>5. /\ emitted' \in Seq(Events) /\ Len(emitted') = Len(emitted) + 1
        /\ DOMAIN emitted = 1 .. Len(emitted) /\ DOMAIN emitted' = 1 .. Len(emitted')
        /\ Len(emitted) \in Nat
        /\ \A i \in 1 .. Len(emitted) : emitted'[i] = emitted[i]
        /\ emitted'[Len(emitted')] = e
    BY <1>0, <1>1 DEF PostsOK
  <1>6. Range(emitted') = Range(emitted) \cup {e}
    BY <1>5 DEF Range
  <1>7. TypeOK'
    BY ONLY <1>0, <1>1, <1>2, <1>5
       DEF TypeOK, PostsOK, ChatsOK, PushesOK, Posts, Stages, Runs, Asks, Ask
  <1>8. TurnsLeft' /\ DeliveredPushed'
    BY <1>1, <1>p DEF DInv, TurnsLeft, DeliveredPushed
  <1>9. LastChatKnown' /\ RequestToLastChat'
    BY ONLY DInv, <1>1 DEF DInv, LastChatKnown, RequestToLastChat
  <1>10. HandlersPosted'
    BY <1>1, <1>2, <1>3, <1>4, <1>6, <1>p DEF HandlersPosted
  <1>11. WithinBudget'
    <2>1. ASSUME NEW f \in Events PROVE Pushed(f)' + Cardinality(Got(f)') <= Budget(f)'
      <3>1. Pushed(f) \in Nat /\ Pushed(f)' = Pushed(f) /\ Cardinality(Got(f)) \in Nat
        BY <1>0, <1>p, <1>3, GotFinite, PushedNat
      <3>2. Pushed(f) + Cardinality(Got(f)) <= IF f \in Range(emitted) THEN 1 ELSE 0
        BY <1>1 DEF DInv, WithinBudget, Budget
      <3>3. Budget(f)' = IF f \in Range(emitted) \cup {e} THEN 1 ELSE 0
        BY <1>1, <1>6 DEF Budget
      <3>4. CASE f = e
        BY <1>1, <1>4, <3>1, <3>2, <3>3, <3>4
      <3>5. CASE f # e
        BY <1>4, <3>1, <3>2, <3>3, <3>5
      <3> QED
        BY <3>4, <3>5
    <2> QED
      BY <2>1 DEF WithinBudget
  <1>12. EmbeddedInTurn'
    <2>0. EmbeddedInTurn
      BY DEF DInv
    <2>1. ASSUME NEW f \in Range(emitted')
          PROVE  Pushed(f)' = 1 \/ \E h \in handlers' : h.event = f
      BY <1>1, <1>2, <1>6, <1>p, <2>0 DEF EmbeddedInTurn
    <2>2. ASSUME NEW i \in DOMAIN emitted', NEW j \in DOMAIN emitted', i < j,
                 AccountOf(emitted'[i]) = AccountOf(emitted'[j]), NEW h \in handlers'
          PROVE  h.event # emitted'[i]
      <3>1. i \in DOMAIN emitted /\ emitted'[i] = emitted[i] /\ emitted[i] \in Range(emitted)
        BY <1>5, <2>2 DEF Range
      <3>2. CASE h = r
        BY <1>1, <1>2, <3>1, <3>2
      <3>3. CASE h \in handlers /\ j = Len(emitted')
        BY <1>1, <1>5, <2>2, <3>1, <3>3
      <3>4. CASE h \in handlers /\ j # Len(emitted')
        <4>1. j \in DOMAIN emitted /\ emitted'[j] = emitted[j]
          BY <1>5, <3>4
        <4> QED
          BY <1>1, <2>0, <2>2, <3>1, <3>4, <4>1 DEF EmbeddedInTurn
      <3> QED
        BY <1>1, <3>2, <3>3, <3>4
    <2> QED
      BY <2>1, <2>2 DEF EmbeddedInTurn
  <1> QED
    BY <1>7, <1>8, <1>9, <1>10, <1>11, <1>12 DEF DInv

(* The locked part: the chat is remembered, and the run is still to hand    *)
(* its message over.                                                        *)
LEMMA RememberStep == ASSUME DInv, NEW h \in handlers, RememberChat(h) PROVE DInv'
  <1> DEFINE e == h.event
             x == [h EXCEPT !.stage = "remembered"]
  <1>0. /\ PostsOK /\ ChatsOK /\ PushesOK
        /\ handlers \subseteq Runs /\ asked \in Asks /\ restarts \in 0 .. MaxRestarts
    BY TypeParts DEF DInv
  <1>1. /\ h.stage = "got"
        /\ chatIDMap' = [chatIDMap EXCEPT ![SenderOf(e)] = ChatOf(e)]
        /\ lastSender' = SenderOf(e) /\ latest' = ChatOf(e)
        /\ handlers' = (handlers \ {h}) \cup {x}
        /\ UNCHANGED <<mode, emitted, post, client, shown, missed, restarts, asked>>
    BY DEF RememberChat, Remember, dispatcher, agent
  <1>2. /\ e \in Events /\ h \in Runs
        /\ x \in Runs /\ x.event = e /\ x.attempt = h.attempt /\ x.stage = "remembered"
    BY <1>0 DEF Runs
  <1>3. /\ SenderOf(e) \in Senders /\ ChatOf(e) \in Chats
        /\ SenderOf(e) # NoChat /\ ChatOf(e) # NoChat
    BY <1>2, ChatFacts
  <1>4. e = h.event /\ \A f : Pushed(f)' = Pushed(f) /\ Budget(f)' = Budget(f)
    BY <1>1, PushedSame DEF Budget
  <1> HIDE DEF e, x
  <1>5. ChatsOK'
    BY <1>0, <1>1, <1>3 DEF ChatsOK
  <1>6. TypeOK'
    <2>1. handlers' \subseteq Runs
      BY <1>0, <1>1, <1>2
    <2> QED
      BY ONLY <1>0, <1>1, <1>5, <2>1
         DEF TypeOK, PostsOK, ChatsOK, PushesOK, Posts, Stages, Runs, Asks, Ask
  <1>7. TurnsLeft' /\ RequestToLastChat' /\ DeliveredPushed'
    BY <1>1, <1>4 DEF DInv, TurnsLeft, RequestToLastChat, DeliveredPushed
  <1>8. LastChatKnown'
    BY <1>0, <1>1, <1>3 DEF LastChatKnown, ChatsOK
  <1>9. IsFiniteSet(handlers) /\ HandlersPosted
    BY DEF DInv, HandlersPosted
  <1>10. HandlersPosted'
    <2>1. IsFiniteSet(handlers \ {h}) /\ IsFiniteSet(handlers')
      BY <1>1, <1>9, FS_Subset, FS_AddElement
    <2>2. ASSUME NEW g \in handlers'
          PROVE  /\ mode = "webhook" => g.attempt <= post[g.event].attempt
                 /\ g.stage = "returned" => Pushed(g.event) >= 1
                 /\ mode = "embedded" => g.stage # "returned" /\ g.event \in Range(emitted)
      <3>1. CASE g \in handlers
        BY <1>9, <3>1 DEF HandlersPosted
      <3>2. CASE g = x
        BY <1>2, <1>4, <1>9, <3>2 DEF HandlersPosted
      <3> QED
        BY <1>1, <3>1, <3>2
    <2> QED
      BY <1>1, <1>4, <2>1, <2>2 DEF HandlersPosted
  <1>11. /\ Got(e)' = (Got(e) \ {h}) \cup {x} /\ h \in Got(e)
         /\ \A f \in Events : f # e => Got(f)' = Got(f)
    BY <1>1, <1>2, <1>4 DEF Got
  <1>12. WithinBudget'
    <2>1. /\ IsFiniteSet(Got(e)) /\ Cardinality(Got(e)) \in Nat
          /\ IsFiniteSet(Got(e) \ {h}) /\ Cardinality(Got(e) \ {h}) = Cardinality(Got(e)) - 1
      BY <1>9, <1>11, GotFinite, FS_RemoveElement
    <2>2. Cardinality(Got(e)') \in {Cardinality(Got(e)) - 1, Cardinality(Got(e))}
      <3>1. Cardinality((Got(e) \ {h}) \cup {x}) \in
              {Cardinality(Got(e) \ {h}), Cardinality(Got(e) \ {h}) + 1}
        BY <2>1, FS_AddElement
      <3> QED
        BY <1>11, <2>1, <3>1
    <2>3. \A f \in Events : Pushed(f) + Cardinality(Got(f)) <= Budget(f)
      BY DEF DInv, WithinBudget
    <2>4. \A f \in Events : Pushed(f) \in Nat /\ Budget(f) \in Int
      BY <1>0, PushedNat DEF PostsOK, Posts, Budget
    <2>5. ASSUME NEW f \in Events PROVE Pushed(f)' + Cardinality(Got(f)') <= Budget(f)'
      <3>1. CASE f = e
        BY <1>2, <1>4, <2>1, <2>2, <2>3, <2>4, <3>1
      <3>2. CASE f # e
        BY <1>4, <1>11, <2>3, <3>2
      <3> QED
        BY <3>1, <3>2
    <2> QED
      BY <2>5 DEF WithinBudget
  <1>13. EmbeddedInTurn'
    <2>1. \A f : (\E g \in handlers : g.event = f) <=> (\E g \in handlers' : g.event = f)
      BY <1>1, <1>2, <1>4
    <2>2. EmbeddedInTurn
      BY DEF DInv
    <2> QED
      BY <1>1, <1>4, <2>1, <2>2 DEF EmbeddedInTurn
  <1> QED
    BY <1>6, <1>7, <1>8, <1>10, <1>12, <1>13 DEF DInv

(* The push: the run counts as handed over from now on.                     *)
LEMMA PushNotificationStep ==
  ASSUME DInv, NEW h \in handlers, PushNotification(h) PROVE DInv'
  <1> DEFINE e == h.event
             x == [h EXCEPT !.stage = "returned"]
  <1>0. /\ PostsOK /\ ChatsOK /\ PushesOK
        /\ handlers \subseteq Runs /\ asked \in Asks /\ restarts \in 0 .. MaxRestarts
    BY TypeParts DEF DInv
  <1>1. /\ h.stage = "remembered"
        /\ \/ shown' = [shown EXCEPT ![e] = @ + 1] /\ missed' = missed
           \/ missed' = [missed EXCEPT ![e] = @ + 1] /\ shown' = shown
        /\ UNCHANGED <<mode, emitted, post, chatIDMap, lastSender, latest, client, restarts, asked>>
    BY DEF PushNotification, Show, Shown, Missed, dispatcher, chats
  <1>2. /\ e \in Events /\ h \in Runs
        /\ x \in Runs /\ x.event = e /\ x.attempt = h.attempt /\ x.stage = "returned"
    BY <1>0 DEF Runs
  <1>3. \/ handlers' = handlers \ {h}
        \/ mode = "webhook" /\ handlers' = (handlers \ {h}) \cup {x}
    <2>1. CASE h \in Awaited
      <3>1. post[e].stage = "waiting"
        BY <2>1 DEF Awaited
      <3>2. mode = "webhook"
        BY <1>0, <1>2, <3>1 DEF DInv, TurnsLeft, PostsOK
      <3> QED
        BY <2>1, <3>2 DEF PushNotification, HandlerReturns
    <2>2. CASE h \notin Awaited
      <3>1. {h} \cap Awaited = {}
        BY <2>2
      <3> QED
        BY <3>1 DEF PushNotification, HandlerReturns
    <2> QED
      BY <2>1, <2>2
  <1> HIDE DEF e, x
  <1>4. /\ shown' \in [Events -> Nat] /\ missed' \in [Events -> Nat]
        /\ \/ shown'[e] = shown[e] + 1 /\ missed'[e] = missed[e]
           \/ shown'[e] = shown[e] /\ missed'[e] = missed[e] + 1
        /\ \A f \in Events : f # e => shown'[f] = shown[f] /\ missed'[f] = missed[f]
    BY <1>0, <1>1, <1>2 DEF PushesOK
  <1>5. /\ Pushed(e)' = Pushed(e) + 1 /\ Pushed(e) \in Nat
        /\ \A f \in Events : f # e => Pushed(f)' = Pushed(f)
    BY <1>0, <1>2, <1>4 DEF PushesOK, Pushed
  <1>6. \A f \in Events : Pushed(f) \in Nat
    BY <1>0, PushedNat
  <1>7. TypeOK'
    <2>1. handlers' \subseteq Runs
      BY <1>0, <1>2, <1>3
    <2> QED
      BY ONLY <1>0, <1>1, <1>4, <2>1
         DEF TypeOK, PostsOK, ChatsOK, PushesOK, Posts, Stages, Runs, Asks, Ask
  <1>8. TurnsLeft'
    BY <1>1 DEF DInv, TurnsLeft
  <1>9. LastChatKnown'
    BY <1>1 DEF DInv, LastChatKnown
  <1>10. RequestToLastChat'
    BY <1>1 DEF DInv, RequestToLastChat
  <1>11. DeliveredPushed'
    BY <1>1, <1>5, <1>6 DEF DInv, DeliveredPushed
  <1>12. /\ IsFiniteSet(handlers) /\ HandlersPosted
         /\ \A g \in handlers : g.event \in Events
    BY <1>0 DEF DInv, HandlersPosted, Runs
  <1>13. HandlersPosted'
    <2>1. IsFiniteSet(handlers')
      <3>1. IsFiniteSet(handlers \ {h})
        BY <1>12, FS_Subset
      <3> QED
        BY <1>3, <3>1, FS_AddElement
    <2>2. \A f \in Events : Pushed(f) \in Nat /\ Pushed(f)' >= Pushed(f)
      <3>1. ASSUME NEW f \in Events PROVE Pushed(f)' >= Pushed(f)
        BY <1>5, <1>6
      <3> QED
        BY <1>6, <3>1
    <2>3. ASSUME NEW g \in handlers'
          PROVE  /\ mode = "webhook" => g.attempt <= post[g.event].attempt
                 /\ g.stage = "returned" => Pushed(g.event)' >= 1
                 /\ mode = "embedded" => g.stage # "returned" /\ g.event \in Range(emitted)
      <3>1. CASE g \in handlers
        <4>1. /\ Pushed(g.event) \in Nat /\ Pushed(g.event)' \in Nat
              /\ Pushed(g.event)' >= Pushed(g.event)
          BY <1>5, <1>12, <2>2, <3>1
        <4> QED
          BY <1>12, <3>1, <4>1 DEF HandlersPosted
      <3>2. CASE mode = "webhook" /\ g = x
        <4>1. g.event = h.event /\ g.attempt = h.attempt /\ g.event = e
          BY <1>2, <3>2 DEF e
        <4>2. h.attempt <= post[h.event].attempt
          BY <1>12, <3>2 DEF HandlersPosted
        <4>3. Pushed(e)' >= 1
          BY <1>5
        <4> QED
          BY <3>2, <4>1, <4>2, <4>3
      <3> QED
        BY <1>3, <3>1, <3>2
    <2> QED
      BY <1>1, <2>1, <2>3 DEF HandlersPosted
  <1>14. /\ Got(e)' = Got(e) \ {h} /\ h \in Got(e)
         /\ \A f \in Events : f # e => Got(f)' = Got(f)
    BY <1>1, <1>2, <1>3 DEF Got, e
  <1>15. WithinBudget'
    <2>1. \A f \in Events : Pushed(f) + Cardinality(Got(f)) <= Budget(f)
      BY DEF DInv, WithinBudget
    <2>2. \A f \in Events : Budget(f)' = Budget(f) /\ Budget(f) \in Int
      BY <1>0, <1>1 DEF Budget, PostsOK, Posts
    <2>3. Cardinality(Got(e)') = Cardinality(Got(e)) - 1 /\ Cardinality(Got(e)) \in Nat
      BY <1>12, <1>14, GotFinite, FS_RemoveElement
    <2>4. ASSUME NEW f \in Events PROVE Pushed(f)' + Cardinality(Got(f)') <= Budget(f)'
      <3>1. CASE f = e
        BY <1>2, <1>5, <2>1, <2>2, <2>3, <3>1
      <3>2. CASE f # e
        BY <1>5, <1>6, <1>14, <2>1, <2>2, <3>2
      <3> QED
        BY <3>1, <3>2
    <2> QED
      BY <2>4 DEF WithinBudget
  <1>16. EmbeddedInTurn'
    <2>1. SUFFICES ASSUME mode = "embedded" PROVE EmbeddedInTurn'
      BY <1>1 DEF EmbeddedInTurn
    <2>2. handlers' = handlers \ {h} /\ EmbeddedInTurn
      BY <1>3, <2>1 DEF DInv
    <2>3. Pushed(e)' = 1
      <3>1. e \in Range(emitted) /\ Pushed(e) + Cardinality(Got(e)) <= 1
        BY <1>2, <1>12, <2>1 DEF DInv, WithinBudget, Budget, HandlersPosted, e
      <3>2. Cardinality(Got(e)) \in Nat /\ Cardinality(Got(e)) # 0
        BY <1>12, <1>14, GotFinite, FS_EmptySet
      <3> QED
        BY <1>5, <3>1, <3>2
    <2>4. ASSUME NEW f \in Range(emitted)
          PROVE  Pushed(f)' = 1 \/ \E g \in handlers' : g.event = f
      <3>1. CASE f = e
        BY <2>3, <3>1
      <3>2. CASE f # e
        <4>1. f \in Events
          BY <1>0 DEF PostsOK, Range
        <4>2. Pushed(f) = 1 \/ \E g \in handlers : g.event = f
          BY <2>1, <2>2 DEF EmbeddedInTurn
        <4> QED
          BY <1>5, <2>2, <3>2, <4>1, <4>2 DEF e
      <3> QED
        BY <3>1, <3>2
    <2> QED
      BY <1>1, <2>1, <2>2, <2>4 DEF EmbeddedInTurn
  <1> QED
    BY <1>7, <1>8, <1>9, <1>10, <1>11, <1>13, <1>15, <1>16 DEF DInv

(* The agent's session comes up: nothing else changes.                      *)
LEMMA InitializeStep == ASSUME DInv, Initialize PROVE DInv'
  <1>1. /\ client' = TRUE
        /\ UNCHANGED <<mode, emitted, post, handlers, chatIDMap, lastSender, latest,
                       shown, missed, restarts, asked>>
    BY DEF Initialize, dispatcher, chats
  <1>2. \A f : Got(f)' = Got(f) /\ Budget(f)' = Budget(f) /\ Pushed(f)' = Pushed(f)
    BY <1>1, PushedSame DEF Got, Budget
  <1>3. TypeOK'
    BY ONLY DInv, <1>1 DEF DInv, TypeOK
  <1>4. /\ TurnsLeft' /\ LastChatKnown' /\ HandlersPosted' /\ DeliveredPushed'
        /\ EmbeddedInTurn' /\ RequestToLastChat'
    BY <1>1, <1>2 DEF DInv, TurnsLeft, LastChatKnown, HandlersPosted, DeliveredPushed,
                      EmbeddedInTurn, RequestToLastChat
  <1>5. WithinBudget'
    BY <1>1, <1>2 DEF DInv, WithinBudget
  <1> QED
    BY <1>3, <1>4, <1>5 DEF DInv

(* A restart of the receiver forgets the runs of its handlers and the chats,*)
(* and with them the requests not sent yet.                                 *)
LEMMA RestartStep == ASSUME DInv, Restart PROVE DInv'
  <1>0. /\ PostsOK /\ ChatsOK /\ PushesOK
        /\ handlers \subseteq Runs /\ asked \in Asks /\ restarts \in 0 .. MaxRestarts
    BY TypeParts DEF DInv
  <1>1. /\ mode = "webhook" /\ restarts < MaxRestarts /\ restarts' = restarts + 1
        /\ handlers' = {} /\ chatIDMap' = [s \in Senders |-> NoChat]
        /\ lastSender' = NoChat /\ latest' = NoChat /\ client' = FALSE
        /\ asked' = [r \in Requests |->
              IF asked[r].stage = "found" THEN [asked[r] EXCEPT !.stage = "failed"] ELSE asked[r]]
        /\ UNCHANGED <<mode, emitted, post, shown, missed>>
    BY DEF Restart, dispatcher
  <1>2. restarts' \in 0 .. MaxRestarts
    BY <1>0, <1>1, DeliveryAssumption
  <1>3. ASSUME NEW r \in Requests
        PROVE  /\ asked[r] \in Ask /\ asked'[r] \in Ask
               /\ asked'[r].chat = asked[r].chat /\ asked'[r].due = asked[r].due
               /\ asked'[r].account = asked[r].account
               /\ \/ asked'[r].stage = asked[r].stage
                  \/ asked[r].stage = "found" /\ asked'[r].stage = "failed"
    BY <1>0, <1>1 DEF Asks, Ask
  <1>4. asked' \in Asks
    BY <1>1, <1>3 DEF Asks
  <1>5. TypeOK'
    BY ONLY <1>0, <1>1, <1>2, <1>4
       DEF TypeOK, PostsOK, ChatsOK, PushesOK, Posts, Stages, Runs, Asks, Ask
  <1>6. RequestToLastChat'
    BY <1>3 DEF DInv, RequestToLastChat
  <1>p. \A f : Pushed(f)' = Pushed(f) /\ Budget(f)' = Budget(f)
    BY <1>1, PushedSame DEF Budget
  <1>7. TurnsLeft' /\ DeliveredPushed'
    BY <1>1, <1>p DEF DInv, TurnsLeft, DeliveredPushed
  <1>8. LastChatKnown' /\ EmbeddedInTurn'
    BY <1>1 DEF LastChatKnown, EmbeddedInTurn
  <1>9. HandlersPosted'
    BY <1>1, FS_EmptySet DEF HandlersPosted
  <1>10. WithinBudget'
    <2>1. ASSUME NEW f \in Events PROVE Pushed(f)' + Cardinality(Got(f)') <= Budget(f)'
      <3>1. Got(f)' = {}
        BY <1>1 DEF Got
      <3>2. Pushed(f) + Cardinality(Got(f)) <= Budget(f)
        BY DEF DInv, WithinBudget
      <3>3. Cardinality(Got(f)) \in Nat /\ Pushed(f) \in Nat /\ Budget(f) \in Int
        BY <1>0, GotFinite, PushedNat DEF DInv, HandlersPosted, Budget, PostsOK, Posts
      <3> QED
        BY <1>p, <3>1, <3>2, <3>3, FS_EmptySet
    <2> QED
      BY <2>1 DEF WithinBudget
  <1> QED
    BY <1>5, <1>6, <1>7, <1>8, <1>9, <1>10 DEF DInv

(* A step that changes one request only.                                    *)
LEMMA AskStep ==
  ASSUME DInv, NEW r \in Requests, NEW ask \in Ask,
         ask.stage # "none",
         ask.chat = ask.due,
         ask.due = NoChat <=> ask.stage = "dropped",
         ask.stage = "sent" => ask.account \in Accounts,
         asked' = [asked EXCEPT ![r] = ask],
         UNCHANGED <<dispatcher, receiver>>
  PROVE  DInv'
  <1>0. /\ PostsOK /\ ChatsOK /\ PushesOK
        /\ handlers \subseteq Runs /\ asked \in Asks /\ restarts \in 0 .. MaxRestarts
    BY TypeParts DEF DInv
  <1>1. UNCHANGED <<mode, emitted, post, handlers, chatIDMap, lastSender, restarts, client,
                    shown, missed, latest>>
    BY DEF dispatcher, receiver, chats, agent
  <1>2. /\ asked' \in Asks /\ asked'[r] = ask
        /\ \A q \in Requests : q # r => asked'[q] = asked[q]
    BY <1>0 DEF Asks
  <1>3. TypeOK'
    BY ONLY <1>0, <1>1, <1>2
       DEF TypeOK, PostsOK, ChatsOK, PushesOK, Posts, Stages, Runs, Asks, Ask
  <1>4. RequestToLastChat'
    BY <1>2 DEF DInv, RequestToLastChat
  <1>5. \A f : Got(f)' = Got(f) /\ Budget(f)' = Budget(f) /\ Pushed(f)' = Pushed(f)
    BY <1>1, PushedSame DEF Got, Budget
  <1>6. TurnsLeft' /\ LastChatKnown' /\ HandlersPosted' /\ DeliveredPushed' /\ EmbeddedInTurn'
    BY <1>1, <1>5 DEF DInv, TurnsLeft, LastChatKnown, HandlersPosted, DeliveredPushed, EmbeddedInTurn
  <1>7. WithinBudget'
    BY <1>1, <1>5 DEF DInv, WithinBudget
  <1> QED
    BY <1>3, <1>4, <1>6, <1>7 DEF DInv

(* The chat found is that of the message remembered last.                   *)
LEMMA FindChatStep == ASSUME DInv, NEW r \in Requests, FindChat(r) PROVE DInv'
  <1> DEFINE chat == IF lastSender = NoChat THEN NoChat ELSE chatIDMap[lastSender]
             ask == [stage |-> IF chat = NoChat THEN "dropped" ELSE "found",
                     account |-> ReplyAccount, chat |-> chat, due |-> latest]
  <1>1. asked' = [asked EXCEPT ![r] = ask] /\ UNCHANGED <<dispatcher, receiver>>
    BY DEF FindChat
  <1>2. chat = latest /\ latest \in Chats \cup {NoChat}
    BY TypeParts DEF DInv, LastChatKnown, ChatsOK
  <1>3. /\ ask.chat = latest /\ ask.due = latest
        /\ ask.stage = IF latest = NoChat THEN "dropped" ELSE "found"
        /\ ask \in Ask
    BY <1>2 DEF Ask, ReplyAccount
  <1> HIDE DEF chat, ask
  <1> QED
    BY <1>1, <1>3, AskStep

LEMMA SendRequestStep == ASSUME DInv, NEW r \in Requests, SendRequest(r) PROVE DInv'
  <1>1. PICK s \in {"sent", "failed"} :
          /\ s = "sent" => asked[r].account \in Accounts
          /\ asked' = [asked EXCEPT ![r].stage = s]
    BY DEF SendRequest
  <1> DEFINE ask == [asked[r] EXCEPT !.stage = s]
  <1>2. asked \in Asks /\ RequestToLastChat /\ asked[r].stage = "found"
    BY TypeParts DEF DInv, SendRequest
  <1>3. /\ ask \in Ask /\ ask.stage = s /\ ask.account = asked[r].account
        /\ ask.chat = asked[r].chat /\ ask.due = asked[r].due
    BY <1>2 DEF Asks, Ask
  <1>4. asked' = [asked EXCEPT ![r] = ask]
    BY <1>1
  <1>5. ask.chat = ask.due /\ ask.due # NoChat
    BY <1>2, <1>3 DEF RequestToLastChat
  <1>6. UNCHANGED <<dispatcher, receiver>>
    BY DEF SendRequest
  <1> HIDE DEF ask
  <1> QED
    BY <1>1, <1>3, <1>4, <1>5, <1>6, AskStep

LEMMA Stutter == ASSUME DInv, UNCHANGED vars PROVE DInv'
  <1>1. UNCHANGED <<mode, emitted, post, handlers, chatIDMap, lastSender, asked, restarts, client,
                    shown, missed, latest>>
    BY DEF vars, dispatcher, receiver, chats, agent
  <1>2. \A f : Got(f)' = Got(f) /\ Budget(f)' = Budget(f) /\ Pushed(f)' = Pushed(f)
    BY <1>1, PushedSame DEF Got, Budget
  <1>3. TypeOK'
    BY ONLY DInv, <1>1 DEF DInv, TypeOK
  <1>4. /\ TurnsLeft' /\ LastChatKnown' /\ HandlersPosted' /\ DeliveredPushed'
        /\ EmbeddedInTurn' /\ RequestToLastChat'
    BY <1>1, <1>2 DEF DInv, TurnsLeft, LastChatKnown, HandlersPosted, DeliveredPushed,
                      EmbeddedInTurn, RequestToLastChat
  <1>5. WithinBudget'
    BY <1>1, <1>2 DEF DInv, WithinBudget
  <1> QED
    BY <1>3, <1>4, <1>5 DEF DInv

LEMMA Inductive == Spec => []DInv
  <1>1. DInv /\ [Next]_vars => DInv'
    <2> SUFFICES ASSUME DInv, [Next]_vars PROVE DInv'
      OBVIOUS
    <2>1. CASE \E e \in Events : Dispatch(e)
      BY <2>1, DispatchStep
    <2>2. CASE \E e \in Events : Send(e)
      BY <2>2, PostStep, AnsweredStep, AttemptFailsStep DEF Send
    <2>3. CASE \E e \in Events : Embedded(e)
      BY <2>3, EmbeddedStep
    <2>4. CASE Forward
      BY <2>4, RememberStep, PushNotificationStep DEF Forward, ForwardMessage
    <2>5. CASE Restart
      BY <2>5, RestartStep
    <2>6. CASE \E r \in Requests : PushPermissionRequest(r)
      BY <2>6, FindChatStep, SendRequestStep DEF PushPermissionRequest
    <2>7. CASE Initialize
      BY <2>7, InitializeStep
    <2>8. CASE UNCHANGED vars
      BY <2>8, Stutter
    <2> QED
      BY <2>1, <2>2, <2>3, <2>4, <2>5, <2>6, <2>7, <2>8 DEF Next
  <1> QED
    BY <1>1, InitDInv, PTL DEF Spec

-----------------------------------------------------------------------------
(* The types of the dispatcher's, the receiver's and the agent's state hold, *)
(* attempts and restarts within their limits (httpapi/webhook.go:93-148).    *)
THEOREM TypeCorrect == Spec => []TypeOK
  <1>1. DInv => TypeOK
    BY DEF DInv
  <1> QED
    BY <1>1, Inductive, PTL

(* A permission request goes to the chat of the message remembered last     *)
(* when it was looked up, is dropped exactly when there is none, and sent   *)
(* only under an account of the bot, for any senders in any chats           *)
(* (channel.go:164).                                                        *)
THEOREM RequestGoesToLastChat == Spec => []RequestToLastChat
  <1>1. DInv => RequestToLastChat
    BY DEF DInv
  <1> QED
    BY <1>1, Inductive, PTL

(* What counts as delivered was handed to the MCP server, nothing is handed *)
(* over more often than it was posted, and in one process each once at most *)
(* and in the order of its account, over any number of retries, lost        *)
(* answers and restarts (httpapi/webhook.go:71-106, qqbot/channel.go:       *)
(* 114-124).                                                                *)
THEOREM PushedPerPost == Spec => []PushedForEachPost
  <1>1. DInv => PushedForEachPost
    <2> SUFFICES ASSUME DInv PROVE PushedForEachPost
      OBVIOUS
    <2>0. PostsOK /\ PushesOK /\ IsFiniteSet(handlers)
      BY TypeParts DEF DInv, HandlersPosted
    <2>1. ASSUME NEW f \in Events
          PROVE  /\ Pushed(f) <= Budget(f) /\ Pushed(f) \in Nat
                 /\ Pushed(f) <= IF mode = "webhook" THEN post[f].attempt ELSE 1
      <3>1. Pushed(f) + Cardinality(Got(f)) <= Budget(f)
        BY DEF DInv, WithinBudget
      <3>2. Cardinality(Got(f)) \in Nat /\ Pushed(f) \in Nat /\ Budget(f) \in Int
        BY <2>0, GotFinite, PushedNat DEF Budget, PostsOK, Posts
      <3>3. Pushed(f) <= Budget(f)
        BY <3>1, <3>2
      <3> QED
        BY <3>2, <3>3 DEF Budget
    <2>2. ASSUME mode = "embedded", NEW i \in DOMAIN emitted, NEW j \in DOMAIN emitted,
                 i < j, AccountOf(emitted[i]) = AccountOf(emitted[j])
          PROVE  Pushed(emitted[j]) <= Pushed(emitted[i])
      <3>1. emitted[i] \in Range(emitted) /\ emitted[i] \in Events /\ emitted[j] \in Events
        BY <2>0 DEF PostsOK, Range
      <3>2. Pushed(emitted[i]) = 1
        BY <2>2, <3>1 DEF DInv, EmbeddedInTurn
      <3>3. Pushed(emitted[j]) <= 1
        BY <2>1, <2>2, <3>1
      <3> QED
        BY <3>2, <3>3
    <2>3. \A f \in Events : post[f].stage = "delivered" => Pushed(f) >= 1
      BY DEF DInv, DeliveredPushed
    <2> QED
      BY <2>1, <2>2, <2>3 DEF PushedForEachPost
  <1> QED
    BY <1>1, Inductive, PTL
=============================================================================

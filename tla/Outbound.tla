------------------------------ MODULE Outbound ------------------------------
(***************************************************************************)
(* One account's way out: internal/outbound (SendText with its media tags  *)
(* and the reply limiter, SendImage and its like) on top of the API client *)
(* of internal/api (message.go, media.go, client.go, upload_cache.go), as  *)
(* the handlers of internal/httpapi call it, each request in a goroutine   *)
(* of its own.                                                             *)
(*                                                                         *)
(* A request is a sequence of parts, each a text or a medium: one medium,  *)
(* or what SendText makes of its content, a sequence of words and media    *)
(* tags, some of them not written as the standard has it.  An API call is  *)
(* one step with three outcomes: "lost" is a message that the service took *)
(* and whose answer did not arrive.  No token, an error status, a timeout  *)
(* and a gone client are all "refused" or "lost".  Requests that are not   *)
(* JSON are answered without effect; that the limiter forgets old records  *)
(* beyond ten thousand is left out.                                        *)
(***************************************************************************)
EXTENDS Integers, FiniteSets, SequencesExt

CONSTANTS
  Requests,
  ReqOf,           \* what each asks for: [text, scope, msg, file, content]
  MsgIDs,          \* the messages that are replied to
  Paths,           \* of files, named in tags
  Files,           \* keys of the upload cache: content, scope, target and type
  ReplyLimit,      \* MessageReplyLimit
  ReplyTTL,        \* MessageReplyTTL
  MaxRetries,      \* UploadMaxRetries
  MaxSize,         \* of the upload cache
  SafetyMargin, MinTTL,
  ServerTTLs,      \* what an upload's answer says of its lifetime
  MaxInFlight,     \* bound: requests under way together
  MaxTexts,        \* bound: texts in one request
  NONE

Token == [path : Paths \cup {NONE}, exact : BOOLEAN]   \* no path: words

ASSUME OutboundAssumption ==
  /\ ReqOf \in [Requests -> [text : BOOLEAN, scope : {"c2c", "group", "channel"},
                             msg : MsgIDs \cup {NONE}, file : Files \cup {NONE},
                             content : Seq(Token)]]
  /\ NONE \notin MsgIDs \cup Files \cup Paths
  /\ {ReplyLimit, MaxSize, MaxInFlight} \subseteq Nat \ {0}
  /\ {ReplyTTL, MaxRetries, SafetyMargin, MinTTL, MaxTexts} \subseteq Nat
  /\ ServerTTLs \subseteq Nat

VARIABLES
  pc, part, tries, \* of each request: its state, the next part, upload attempts
  passive,         \* it still carries the msg_id
  count, age,      \* the limiter: a record's count (0: no record) and its age
  cached,          \* the upload cache: what is left of an entry, or Absent
  fileLife,        \* external: what is left of the cached entry's file
  granted,         \* history: the lifetime the service gave that file
  posted,          \* history: the parts of each request the service took
  texts,           \* history: the text replies confirmed in a record's window
  uncounted        \* history: the replies it took that are never recorded

request == <<pc, part, tries, passive>>
limiter == <<count, age>>
uploads == <<cached, fileLife, granted>>
history == <<posted, texts, uncounted>>
vars == <<request, limiter, uploads, history>>

Absent == -1
PassiveTo(m) == {r \in Requests : passive[r] /\ ReqOf[r].msg = m}
Running == {r \in Requests : pc[r] \notin {"new", "done", "failed"}}
Pending(m) == {r \in PassiveTo(m) : pc[r] = "recording"}
Entries(c) == {f \in Files : c[f] # Absent}

-----------------------------------------------------------------------------
(* ParseMediaTags: where the tags of a text are, once NormalizeMediaTags    *)
(* has brought the others into standard form.                               *)
ParseMediaTags(c) == {i \in DOMAIN c : c[i].path # NONE}

(* sendMixedContent: each tag is looked for in the text as it was written,  *)
(* behind the one before; what lies between becomes a text, also a tag that *)
(* was not found.  Walk(c)[i] is the loop after the tags up to the i-th     *)
(* token.                                                                   *)
Between(i, j) == IF i < j THEN <<"text">> ELSE <<>>
Find(c, w, k) ==
  LET hits == {i \in w.at .. Len(c) : c[i].path = c[k].path /\ c[i].exact} IN
  IF k \notin ParseMediaTags(c) \/ hits = {} THEN w
  ELSE [at |-> Min(hits) + 1,
        parts |-> w.parts \o Between(w.at, Min(hits)) \o <<"media">>]
Walk(c) ==
  LET walk[i \in 0 .. Len(c)] ==
        IF i = 0 THEN [at |-> 1, parts |-> <<>>] ELSE Find(c, walk[i - 1], i)
  IN walk
SendMixedContent(c) ==
  LET end == Walk(c)[Len(c)] IN end.parts \o Between(end.at, Len(c) + 1)

(* SendText, or SendImage and its like.                                     *)
SendText(c) == IF ParseMediaTags(c) = {} THEN <<"text">> ELSE SendMixedContent(c)
PartsOf == [r \in Requests |->
             IF ReqOf[r].text THEN SendText(ReqOf[r].content) ELSE <<"media">>]
TextsOf(r) == {i \in DOMAIN PartsOf[r] : PartsOf[r][i] = "text"}

(* What the bound on texts says.                                            *)
ASSUME TextsAssumption == \A r \in Requests : Cardinality(TextsOf(r)) <= MaxTexts

-----------------------------------------------------------------------------
TypeOK ==
  /\ pc \in [Requests -> {"new", "sending", "recording", "uploading", "uploaded",
                          "done", "failed"}]
  /\ part \in [Requests -> Nat \ {0}]
  /\ \A r \in Requests : part[r] <= Len(PartsOf[r]) + 1
  /\ tries \in [Requests -> 0 .. MaxRetries]
  /\ passive \in [Requests -> BOOLEAN]
  /\ count \in [MsgIDs -> Nat] /\ age \in [MsgIDs -> 0 .. ReplyTTL + 1]
  /\ cached \in [Files -> Nat \cup {Absent}]
  /\ fileLife \in [Files -> Nat] /\ granted \in [Files -> Nat]
  /\ posted \in [Requests -> Seq(Nat)]
  /\ texts \in [MsgIDs -> Nat] /\ uncounted \in [MsgIDs -> Nat]

Init ==
  /\ pc = [r \in Requests |-> "new"] /\ part = [r \in Requests |-> 1]
  /\ tries = [r \in Requests |-> 0] /\ passive = [r \in Requests |-> FALSE]
  /\ count = [m \in MsgIDs |-> 0] /\ age = [m \in MsgIDs |-> 0]
  /\ cached = [f \in Files |-> Absent]
  /\ fileLife = [f \in Files |-> 0] /\ granted = [f \in Files |-> 0]
  /\ posted = [r \in Requests |-> <<>>]
  /\ texts = [m \in MsgIDs |-> 0] /\ uncounted = [m \in MsgIDs |-> 0]

-----------------------------------------------------------------------------
Expired(m) == age[m] > ReplyTTL
\* Mutant: a reply is refused one too late.
AllowedOneMore(m) == count[m] = 0 \/ (~Expired(m) /\ count[m] < ReplyLimit + 1)

Allowed(m) == count[m] = 0 \/ (~Expired(m) /\ count[m] < ReplyLimit)

(* A handler of the API, in its own goroutine, calls the manager.           *)
HandlerStarts(r) ==
  /\ pc[r] = "new"
  /\ Cardinality(Running) < MaxInFlight
  /\ pc' = [pc EXCEPT ![r] = "sending"]

(* SendText asks the limiter once for all its parts; without its consent    *)
(* they are proactive messages.  SendImage and its like do not ask.         *)
CheckLimit(r) ==
  passive' = [passive EXCEPT ![r] =
    /\ ReqOf[r].msg # NONE
    /\ ReqOf[r].text => Allowed(ReqOf[r].msg)]

Start(r) ==
  /\ HandlerStarts(r) /\ CheckLimit(r)
  /\ UNCHANGED <<part, tries, limiter, uploads, history>>

AtText(r) ==
  pc[r] = "sending" /\ part[r] <= Len(PartsOf[r]) /\ PartsOf[r][part[r]] = "text"
AtMedia(r) ==
  pc[r] = "sending" /\ part[r] <= Len(PartsOf[r]) /\ PartsOf[r][part[r]] = "media"
Recorded(r) == passive[r] /\ ReqOf[r].scope # "channel"

(* The service takes a part of r, and what the history says of a reply.     *)
Taken(r) == posted' = [posted EXCEPT ![r] = Append(@, part[r])]
Counted(r, replies) ==
  replies' = IF Recorded(r) THEN [replies EXCEPT ![ReqOf[r].msg] = @ + 1] ELSE replies
Fail(r) == pc' = [pc EXCEPT ![r] = "failed"] /\ UNCHANGED part

NextPart(r, s) ==
  /\ pc' = [pc EXCEPT ![r] = s]
  /\ part' = [part EXCEPT ![r] = @ + 1]

\* Mutant: a text whose answer was lost is posted again.
PostTextAgain(r) ==
  /\ AtText(r)
  /\ \/ /\ Taken(r) /\ Counted(r, texts) /\ UNCHANGED uncounted
        /\ IF Recorded(r) THEN pc' = [pc EXCEPT ![r] = "recording"] /\ UNCHANGED part
                          ELSE NextPart(r, "sending")
     \/ Taken(r) /\ Counted(r, uncounted) /\ UNCHANGED <<pc, part>> /\ UNCHANGED texts
     \/ Fail(r) /\ UNCHANGED history
  /\ UNCHANGED <<tries, passive, limiter, uploads>>

(* sendPlainText up to the answer: posted, posted with its answer lost, or  *)
(* refused.  SendText stops at the first error; nothing is tried again.     *)
PostText(r) ==
  /\ AtText(r)
  /\ \/ /\ Taken(r) /\ Counted(r, texts) /\ UNCHANGED uncounted
        /\ IF Recorded(r) THEN pc' = [pc EXCEPT ![r] = "recording"] /\ UNCHANGED part
                          ELSE NextPart(r, "sending")
     \/ Taken(r) /\ Counted(r, uncounted) /\ Fail(r) /\ UNCHANGED texts
     \/ Fail(r) /\ UNCHANGED history
  /\ UNCHANGED <<tries, passive, limiter, uploads>>

(* limiter.Record: an expired record is started anew with this reply.  The  *)
(* replies posted and not yet recorded are counted in the new window.       *)
Record(r) ==
  LET m == ReqOf[r].msg
      fresh == count[m] = 0 \/ Expired(m)
  IN /\ pc[r] = "recording"
     /\ NextPart(r, "sending")
     /\ count' = [count EXCEPT ![m] = IF fresh THEN 1 ELSE @ + 1]
     /\ age' = [age EXCEPT ![m] = IF fresh THEN 0 ELSE @]
     /\ texts' = [texts EXCEPT ![m] = IF Expired(m) THEN Cardinality(Pending(m)) ELSE @]
     /\ uncounted' = [uncounted EXCEPT ![m] = IF Expired(m) THEN 0 ELSE @]
     /\ UNCHANGED <<tries, passive, uploads, posted>>

-----------------------------------------------------------------------------
(* UploadC2CMedia, UploadGroupMedia: the cache is asked for a file given as *)
(* data; an expired entry is dropped.  A channel gets no medium, and no     *)
(* error.                                                                   *)
Upload(r) ==
  LET f == ReqOf[r].file IN
  /\ AtMedia(r) /\ ReqOf[r].scope # "channel"
  /\ pc' = [pc EXCEPT ![r] =
       IF f # NONE /\ cached[f] > 0 THEN "uploaded" ELSE "uploading"]
  /\ cached' = IF f # NONE /\ cached[f] = 0 THEN [cached EXCEPT ![f] = Absent] ELSE cached
  /\ UNCHANGED <<part, tries, passive, limiter, fileLife, granted, history>>

SkipMedia(r) ==
  /\ AtMedia(r) /\ ReqOf[r].scope = "channel"
  /\ NextPart(r, "sending")
  /\ UNCHANGED <<tries, passive, limiter, uploads, history>>

\* Mutant: the safety margin is forgotten.
EffectiveTTLWhole(t) == IF t < MinTTL THEN MinTTL ELSE t

(* From a lifetime shorter than margin and minimum comes an entry that may  *)
(* outlive its file.                                                        *)
EffectiveTTL(t) == IF t - SafetyMargin < MinTTL THEN MinTTL ELSE t - SafetyMargin

(* UploadCache.Set: at capacity the expired entries go, then, if it still   *)
(* is at capacity, the half that expires first, though f may have an entry. *)
Full(c) == Cardinality(Entries(c)) >= MaxSize
Oldest(c, K) ==
  LET half == Cardinality(Entries(c)) \div 2 IN
  /\ K \subseteq Entries(c)
  /\ Cardinality(K) = IF half < 1 THEN 1 ELSE half
  /\ \A k \in K, f \in Entries(c) \ K : c[k] <= c[f]

Set(f, t) ==
  LET kept == [g \in Files |-> IF Full(cached) /\ cached[g] = 0 THEN Absent ELSE cached[g]]
  IN \E K \in SUBSET Files :
       /\ IF Full(kept) THEN Oldest(kept, K) ELSE K = {}
       /\ cached' = [g \in Files |-> IF g = f THEN EffectiveTTL(t)
                                     ELSE IF g \in K THEN Absent ELSE kept[g]]
       /\ fileLife' = [fileLife EXCEPT ![f] = t] /\ granted' = [granted EXCEPT ![f] = t]

(* apiRequestWithRetry: the answer, another attempt after the delay, or an  *)
(* error that is not retried or came once too often.                        *)
UploadAnswered(r, t) ==
  /\ pc[r] = "uploading"
  /\ pc' = [pc EXCEPT ![r] = "uploaded"]
  /\ tries' = [tries EXCEPT ![r] = 0]
  /\ IF ReqOf[r].file # NONE /\ t > 0 THEN Set(ReqOf[r].file, t) ELSE UNCHANGED uploads
  /\ UNCHANGED <<part, passive, limiter, history>>

\* Mutant: the attempts are counted from one too low.
UploadRetriedOnceMore(r) ==
  /\ pc[r] = "uploading" /\ tries[r] <= MaxRetries
  /\ tries' = [tries EXCEPT ![r] = @ + 1]
  /\ UNCHANGED <<pc, part, passive, limiter, uploads, history>>

UploadRetried(r) ==
  /\ pc[r] = "uploading" /\ tries[r] < MaxRetries
  /\ tries' = [tries EXCEPT ![r] = @ + 1]
  /\ UNCHANGED <<pc, part, passive, limiter, uploads, history>>

UploadFailed(r) ==
  /\ pc[r] = "uploading"
  /\ pc' = [pc EXCEPT ![r] = "failed"]
  /\ tries' = [tries EXCEPT ![r] = 0]
  /\ UNCHANGED <<part, passive, limiter, uploads, history>>

(* sendC2CMediaMessage, sendGroupMediaMessage: never recorded.              *)
PostMedia(r) ==
  /\ pc[r] = "uploaded"
  /\ \/ Taken(r) /\ Counted(r, uncounted) /\ (NextPart(r, "sending") \/ Fail(r))
     \/ Fail(r) /\ UNCHANGED <<posted, uncounted>>
  /\ UNCHANGED <<tries, passive, limiter, uploads, texts>>

(* Every part is done: the handler answers 200.                             *)
Return(r) ==
  /\ pc[r] = "sending" /\ part[r] > Len(PartsOf[r])
  /\ pc' = [pc EXCEPT ![r] = "done"]
  /\ UNCHANGED <<part, tries, passive, limiter, uploads, history>>

(* External: time passes.                                                   *)
Down(n) == IF n > 0 THEN n - 1 ELSE n
Tick ==
  /\ age' = [m \in MsgIDs |-> IF count[m] > 0 /\ age[m] <= ReplyTTL THEN age[m] + 1 ELSE age[m]]
  /\ cached' = [f \in Files |-> Down(cached[f])]
  /\ fileLife' = [f \in Files |-> Down(fileLife[f])]
  /\ UNCHANGED <<request, count, granted, history>>

Next ==
  \/ \E r \in Requests :
       \/ Start(r) \/ PostText(r) \/ Record(r) \/ Upload(r) \/ SkipMedia(r)
       \/ UploadRetried(r) \/ UploadFailed(r) \/ PostMedia(r) \/ Return(r)
       \/ \E t \in ServerTTLs : UploadAnswered(r, t)
  \/ Tick

Spec == Init /\ [][Next]_vars

-----------------------------------------------------------------------------
(* Check and Record are apart, so replies sent together pass the limit, but *)
(* no further than those under way can take it: the texts confirmed as      *)
(* replies to one message within its hour are at most one less than the     *)
(* limit and all that the concurrent requests hold.  Media, and texts whose *)
(* answer was lost, come on top: the limiter never hears of them.           *)
ReplyOvershoot ==
  \A m \in MsgIDs : texts[m] <= ReplyLimit - 1 + MaxInFlight * MaxTexts

(* The parts of a request reach the service in their order, each at most    *)
(* once and none before an earlier one, whatever answers are lost and       *)
(* uploads repeated; and a request that is reported as sent left out        *)
(* nothing but media to a channel.                                          *)
Sendable(r) ==
  {i \in DOMAIN PartsOf[r] : ~(PartsOf[r][i] = "media" /\ ReqOf[r].scope = "channel")}
PartsInOrder ==
  \A r \in Requests :
    /\ \A i, j \in DOMAIN posted[r] : i < j => posted[r][i] < posted[r][j]
    /\ Range(posted[r]) \subseteq Sendable(r)
    /\ \A k \in Range(posted[r]), l \in Sendable(r) : l < k => l \in Range(posted[r])
    /\ pc[r] = "done" => Range(posted[r]) = Sendable(r)

(* The upload cache stays within its size, and what it still hands out is   *)
(* valid at the service for the safety margin longer.  Only of a file whose *)
(* lifetime was too short for that the entry may be dead, and no longer     *)
(* than that lifetime falls short of the minimum.                           *)
Live(f) ==
  \/ cached[f] + SafetyMargin <= fileLife[f]
  \/ /\ granted[f] < SafetyMargin + MinTTL
     /\ cached[f] + granted[f] <= fileLife[f] + MinTTL
CachedFilesLive ==
  /\ Cardinality(Entries(cached)) <= MaxSize
  /\ \A f \in Files : cached[f] > 0 => Live(f)
=============================================================================

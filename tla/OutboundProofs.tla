----------------------------- MODULE OutboundProofs -----------------------------
(***************************************************************************)
(* Theorems about Outbound for any requests, contents, files and messages, *)
(* and any limits of the limiter, the cache and the retries.               *)
(***************************************************************************)
EXTENDS Outbound, FiniteSetTheorems, FunctionTheorems, TLAPS

(* A request waits for the limiter or for an upload at a part of that kind; *)
(* it is done behind its last part.                                         *)
FlowOf(r) ==
  /\ pc[r] = "new" => part[r] = 1
  /\ pc[r] = "recording" =>
       part[r] \in TextsOf(r) /\ passive[r] /\ ReqOf[r].scope # "channel"
  /\ pc[r] \in {"uploading", "uploaded"} =>
       part[r] \in Sendable(r) /\ PartsOf[r][part[r]] = "media"
  /\ pc[r] = "done" => part[r] = Len(PartsOf[r]) + 1
  /\ passive[r] => pc[r] # "new" /\ ReqOf[r].msg # NONE
FlowKept == \A r \in Requests : FlowOf(r)

(* What was posted is what lies behind a request's part, and that part once *)
(* it waits for the limiter or its answer was lost.                         *)
Behind(r) == {k \in Sendable(r) : k < part[r]}
Increasing(s) == \A i, j \in DOMAIN s : i < j => s[i] < s[j]
PostedOf(r) ==
  /\ Increasing(posted[r])
  /\ \/ pc[r] # "recording" /\ Range(posted[r]) = Behind(r)
     \/ /\ pc[r] \in {"recording", "failed"} /\ part[r] \in Sendable(r)
        /\ Range(posted[r]) = Behind(r) \cup {part[r]}
PostedKept == \A r \in Requests : PostedOf(r)

CacheKept == IsFiniteSet(Entries(cached)) /\ CachedFilesLive

RunningKept == IsFiniteSet(Running) /\ Cardinality(Running) <= MaxInFlight

(* The texts confirmed in the window are those recorded and those about to  *)
(* be.                                                                      *)
Balance == \A m \in MsgIDs : texts[m] = count[m] + Cardinality(Pending(m))

(* The texts that requests under way still hold for a message: not sent, or *)
(* not recorded.                                                            *)
Takers(m) == {r \in Running : passive[r] /\ ReqOf[r].msg = m /\ ReqOf[r].scope # "channel"}
HeldBy(r) == {<<r, i>> : i \in {j \in TextsOf(r) : j >= part[r]}}
Held(m) == UNION {HeldBy(r) : r \in Takers(m)}
Room ==
  \A m \in MsgIDs :
    /\ IsFiniteSet(Held(m))
    /\ count[m] + Cardinality(Held(m)) <= ReplyLimit - 1 + MaxInFlight * MaxTexts

(* The inductive invariant.  The overshoot is bounded only together with    *)
(* the texts that have passed the check and are still to come (Room).       *)
OInv ==
  /\ TypeOK /\ FlowKept /\ PostedKept /\ CacheKept
  /\ RunningKept /\ Balance /\ Room

-----------------------------------------------------------------------------
(* Induction over the natural numbers for a set: an element outside would   *)
(* make "one less" an injection of a finite set into a smaller one.         *)
LEMMA SetInduction ==
  ASSUME NEW T, 0 \in T, \A n \in Nat : n \in T => n + 1 \in T
  PROVE  Nat \subseteq T
  <1> SUFFICES ASSUME NEW x \in Nat, x \notin T PROVE FALSE
    OBVIOUS
  <1> DEFINE U == {y \in 0 .. x : y \notin T}
             f == [y \in U |-> y - 1]
  <1>1. \A y \in U : y - 1 \in U \ {x}
    <2> TAKE y \in U
    <2>1. y \in Nat /\ y <= x /\ y \notin T /\ y # 0
      OBVIOUS
    <2>2. y - 1 \in Nat /\ (y - 1) + 1 = y
      BY <2>1
    <2>3. y - 1 \notin T
      BY <2>1, <2>2
    <2> QED
      BY <2>1, <2>2, <2>3
  <1>2. \A a, b \in U : f[a] = f[b] => a = b
    OBVIOUS
  <1>3. f \in Injection(U, U \ {x})
    BY <1>1, <1>2 DEF Injection, IsInjective
  <1>4. IsFiniteSet(U) /\ x \in U
    <2>1. IsFiniteSet(0 .. x)
      BY FS_Interval
    <2> QED
      BY <2>1, FS_Subset
  <1> HIDE DEF U, f
  <1>5. IsFiniteSet(U \ {x}) /\ Cardinality(U \ {x}) = Cardinality(U) - 1
    BY <1>4, FS_RemoveElement
  <1>6. Cardinality(U) <= Cardinality(U \ {x})
    BY <1>3, <1>5, FS_Injection
  <1>7. Cardinality(U) \in Nat
    BY <1>4, FS_CardinalityType
  <1> QED
    BY <1>5, <1>6, <1>7

(* The loop of sendMixedContent is defined for every number of tokens.      *)
IsWalk(c, k, w) ==
  w = [i \in 0 .. k |-> IF i = 0 THEN [at |-> 1, parts |-> <<>>] ELSE Find(c, w[i - 1], i)]

LEMMA WalkExists == ASSUME NEW c, NEW n \in Nat PROVE \E w : IsWalk(c, n, w)
  <1> DEFINE T == {k \in Nat : \E w : IsWalk(c, k, w)}
  <1>1. 0 \in T
    <2> DEFINE w == [i \in 0 .. 0 |-> [at |-> 1, parts |-> <<>>]]
    <2>1. IsWalk(c, 0, w)
      BY DEF IsWalk
    <2> QED
      BY <2>1
  <1>2. ASSUME NEW k \in Nat, k \in T PROVE k + 1 \in T
    <2>1. PICK w : IsWalk(c, k, w)
      BY <1>2
    <2> DEFINE v == [i \in 0 .. k + 1 |-> IF i = k + 1 THEN Find(c, w[k], i) ELSE w[i]]
    <2>2. /\ DOMAIN w = 0 .. k /\ w[0] = [at |-> 1, parts |-> <<>>]
          /\ \A i \in 1 .. k : w[i] = Find(c, w[i - 1], i)
      BY <2>1 DEF IsWalk
    <2>3. v[0] = [at |-> 1, parts |-> <<>>]
      BY <2>2
    <2>4. ASSUME NEW i \in 1 .. k + 1 PROVE v[i] = Find(c, v[i - 1], i)
      <3>1. v[i - 1] = w[i - 1]
        OBVIOUS
      <3>2. CASE i = k + 1
        BY <3>1, <3>2
      <3>3. CASE i # k + 1
        BY <2>2, <3>1, <3>3
      <3> QED
        BY <3>2, <3>3
    <2>5. v = [i \in 0 .. k + 1 |-> v[i]]
      OBVIOUS
    <2> HIDE DEF v
    <2>6. \A i \in 0 .. k + 1 :
            v[i] = IF i = 0 THEN [at |-> 1, parts |-> <<>>] ELSE Find(c, v[i - 1], i)
      BY <2>3, <2>4
    <2>7. IsWalk(c, k + 1, v)
      BY <2>5, <2>6 DEF IsWalk
    <2> QED
      BY <2>7
  <1> HIDE DEF T
  <1>3. Nat \subseteq T
    BY <1>1, <1>2, SetInduction
  <1> QED
    BY <1>3 DEF T

LEMMA WalkUnfolds ==
  ASSUME NEW c, Len(c) \in Nat
  PROVE  /\ Walk(c)[0] = [at |-> 1, parts |-> <<>>]
         /\ \A i \in 1 .. Len(c) : Walk(c)[i] = Find(c, Walk(c)[i - 1], i)
  <1>1. IsWalk(c, Len(c), Walk(c))
    BY WalkExists DEF IsWalk, Walk
  <1> QED
    BY <1>1 DEF IsWalk

(* What a text is sent as is a sequence of texts and media.                 *)
Kinds == {"text", "media"}

LEMMA Singles == <<"text">> \in Seq(Kinds) /\ <<"media">> \in Seq(Kinds) /\ <<>> \in Seq(Kinds)
  <1>1. "text" \in Kinds /\ "media" \in Kinds
    BY DEF Kinds
  <1> QED
    BY ONLY <1>1

LEMMA BetweenIsParts == ASSUME NEW i, NEW j PROVE Between(i, j) \in Seq(Kinds)
  BY Singles DEF Between

LEMMA Concatenated ==
  ASSUME NEW S, NEW a \in Seq(S), NEW b \in Seq(S) PROVE a \o b \in Seq(S)
  OBVIOUS

LEMMA FindIsParts ==
  ASSUME NEW c, NEW w, NEW k, w.parts \in Seq(Kinds)
  PROVE  Find(c, w, k).parts \in Seq(Kinds)
  <1> DEFINE hits == {i \in w.at .. Len(c) : c[i].path = c[k].path /\ c[i].exact}
             found == w.parts \o Between(w.at, Min(hits)) \o <<"media">>
  <1>1. found \in Seq(Kinds)
    BY Singles, BetweenIsParts, Concatenated
  <1> HIDE DEF hits, found
  <1>2. Find(c, w, k) = w \/ Find(c, w, k) = [at |-> Min(hits) + 1, parts |-> found]
    BY DEF Find, hits, found
  <1> QED
    BY <1>1, <1>2

LEMMA MixedIsParts ==
  ASSUME NEW c \in Seq(Token) PROVE SendMixedContent(c) \in Seq(Kinds)
  <1> DEFINE T == {i \in Nat : i <= Len(c) => Walk(c)[i].parts \in Seq(Kinds)}
  <1>0. Len(c) \in Nat
    OBVIOUS
  <1>1. 0 \in T
    <2>1. Walk(c)[0].parts = <<>>
      BY <1>0, WalkUnfolds
    <2> QED
      BY <2>1, Singles
  <1>2. ASSUME NEW k \in Nat, k \in T PROVE k + 1 \in T
    <2>1. SUFFICES ASSUME k + 1 <= Len(c) PROVE Walk(c)[k + 1].parts \in Seq(Kinds)
      OBVIOUS
    <2>2. k + 1 \in 1 .. Len(c) /\ (k + 1) - 1 = k
      BY <1>0, <2>1
    <2>3. Walk(c)[k + 1] = Find(c, Walk(c)[k], k + 1)
      BY <1>0, <2>2, WalkUnfolds
    <2>4. Walk(c)[k].parts \in Seq(Kinds)
      BY <1>0, <1>2, <2>1
    <2> QED
      BY <2>3, <2>4, FindIsParts
  <1> HIDE DEF T
  <1>3. Nat \subseteq T
    BY <1>1, <1>2, SetInduction
  <1>4. Walk(c)[Len(c)].parts \in Seq(Kinds)
    BY <1>0, <1>3 DEF T
  <1> QED
    BY <1>4, BetweenIsParts, Concatenated DEF SendMixedContent

-----------------------------------------------------------------------------
(* Two texts of a request are never next to each other: a medium lies       *)
(* between, whatever its tags look like.                                    *)
NoTextAtEnd(s) == s = <<>> \/ s[Len(s)] = "media"
Apart(s) == \A i \in 1 .. Len(s) - 1 : s[i] = "text" => s[i + 1] = "media"

LEMMA MediumAfter ==
  ASSUME NEW s \in Seq(Kinds), Apart(s), NoTextAtEnd(s), NEW i, NEW j
  PROVE  LET t == s \o Between(i, j)
             u == t \o <<"media">>
         IN /\ t \in Seq(Kinds) /\ Apart(t)
            /\ u \in Seq(Kinds) /\ Apart(u) /\ NoTextAtEnd(u)
  <1> DEFINE t == s \o Between(i, j)
             u == t \o <<"media">>
  <1>1. t \in Seq(Kinds) /\ u \in Seq(Kinds)
    BY Singles, BetweenIsParts, Concatenated
  <1>2. Apart(t)
    <2>1. CASE Between(i, j) = <<>>
      BY <2>1 DEF Apart
    <2>2. CASE Between(i, j) = <<"text">>
      <3>1. /\ Len(t) = Len(s) + 1 /\ Len(s) \in Nat
            /\ \A n \in 1 .. Len(s) : t[n] = s[n]
        BY <2>2
      <3>2. ASSUME NEW n \in 1 .. Len(s), t[n] = "text" PROVE t[n + 1] = "media"
        <4>1. n # Len(s)
          BY <3>1, <3>2 DEF NoTextAtEnd
        <4>2. n \in 1 .. Len(s) - 1 /\ n + 1 \in 1 .. Len(s)
          BY <3>1, <4>1
        <4> QED
          BY <3>1, <3>2, <4>2 DEF Apart
      <3> QED
        BY <3>1, <3>2 DEF Apart
    <2> QED
      BY <2>1, <2>2 DEF Between
  <1> HIDE DEF t
  <1>3. /\ Len(u) = Len(t) + 1 /\ Len(t) \in Nat /\ u[Len(t) + 1] = "media"
        /\ \A n \in 1 .. Len(t) : u[n] = t[n]
    BY <1>1
  <1> HIDE DEF u
  <1>4. Apart(u)
    <2> SUFFICES ASSUME NEW n \in 1 .. Len(t), u[n] = "text" PROVE u[n + 1] = "media"
      BY <1>3 DEF Apart
    <2>1. CASE n = Len(t)
      BY <1>3, <2>1
    <2>2. CASE n # Len(t)
      <3>1. n \in 1 .. Len(t) - 1 /\ n + 1 \in 1 .. Len(t)
        BY <1>3, <2>2
      <3> QED
        BY <1>2, <1>3, <3>1 DEF Apart
    <2> QED
      BY <2>1, <2>2
  <1>5. NoTextAtEnd(u)
    BY <1>3 DEF NoTextAtEnd
  <1> QED
    BY <1>1, <1>2, <1>4, <1>5 DEF t, u

WalkApart(w) == w.parts \in Seq(Kinds) /\ Apart(w.parts) /\ NoTextAtEnd(w.parts)

LEMMA FindApart ==
  ASSUME NEW c, NEW w, NEW k, WalkApart(w) PROVE WalkApart(Find(c, w, k))
  <1> DEFINE hits == {i \in w.at .. Len(c) : c[i].path = c[k].path /\ c[i].exact}
             found == w.parts \o Between(w.at, Min(hits)) \o <<"media">>
  <1>1. found \in Seq(Kinds) /\ Apart(found) /\ NoTextAtEnd(found)
    BY MediumAfter DEF WalkApart
  <1> HIDE DEF hits, found
  <1>2. Find(c, w, k) = w \/ Find(c, w, k) = [at |-> Min(hits) + 1, parts |-> found]
    BY DEF Find, hits, found
  <1> QED
    BY <1>1, <1>2 DEF WalkApart

LEMMA WalksApart ==
  ASSUME NEW c \in Seq(Token), NEW n \in 0 .. Len(c) PROVE WalkApart(Walk(c)[n])
  <1> DEFINE T == {i \in Nat : i <= Len(c) => WalkApart(Walk(c)[i])}
  <1>0. Len(c) \in Nat
    OBVIOUS
  <1>1. 0 \in T
    <2>1. Walk(c)[0].parts = <<>>
      BY <1>0, WalkUnfolds
    <2>2. <<>> \in Seq(Kinds) /\ Apart(<<>>) /\ NoTextAtEnd(<<>>)
      BY Singles DEF Apart, NoTextAtEnd
    <2> QED
      BY <2>1, <2>2 DEF WalkApart
  <1>2. ASSUME NEW k \in Nat, k \in T PROVE k + 1 \in T
    <2>1. SUFFICES ASSUME k + 1 <= Len(c) PROVE WalkApart(Walk(c)[k + 1])
      OBVIOUS
    <2>2. k + 1 \in 1 .. Len(c) /\ (k + 1) - 1 = k
      BY <1>0, <2>1
    <2>3. Walk(c)[k + 1] = Find(c, Walk(c)[k], k + 1)
      BY <1>0, <2>2, WalkUnfolds
    <2>4. WalkApart(Walk(c)[k])
      BY <1>0, <1>2, <2>1
    <2> QED
      BY <2>3, <2>4, FindApart
  <1> HIDE DEF T
  <1>3. Nat \subseteq T
    BY <1>1, <1>2, SetInduction
  <1> QED
    BY <1>0, <1>3 DEF T

(* What lies between two media of a content is one message, also when it    *)
(* holds tags that were not found: SendText never posts two texts in a row  *)
(* (outbound.go:183-223).                                                   *)
THEOREM TextsApart == \A c \in Seq(Token) : Apart(SendText(c))
  <1> SUFFICES ASSUME NEW c \in Seq(Token) PROVE Apart(SendText(c))
    OBVIOUS
  <1>1. Apart(<<"text">>)
    BY DEF Apart
  <1>2. Apart(SendMixedContent(c))
    <2>1. WalkApart(Walk(c)[Len(c)])
      BY WalksApart
    <2> QED
      BY <2>1, MediumAfter DEF SendMixedContent, WalkApart
  <1> QED
    BY <1>1, <1>2 DEF SendText

(* What a content is when every tag is found: its runs of words and its     *)
(* tags, one after the other.                                               *)
Extend(s, t) ==
  CASE t.path # NONE                                  -> Append(s, "media")
    [] t.path = NONE /\ s # <<>> /\ s[Len(s)] = "text" -> s
    [] t.path = NONE /\ NoTextAtEnd(s)                 -> Append(s, "text")
RunsUpTo(c) ==
  LET runs[i \in 0 .. Len(c)] == IF i = 0 THEN <<>> ELSE Extend(runs[i - 1], c[i])
  IN runs
Runs(c) == RunsUpTo(c)[Len(c)]

IsRuns(c, k, w) == w = [i \in 0 .. k |-> IF i = 0 THEN <<>> ELSE Extend(w[i - 1], c[i])]

LEMMA RunsExist == ASSUME NEW c, NEW n \in Nat PROVE \E w : IsRuns(c, n, w)
  <1> DEFINE T == {k \in Nat : \E w : IsRuns(c, k, w)}
  <1>1. 0 \in T
    <2> DEFINE w == [i \in 0 .. 0 |-> <<>>]
    <2>1. IsRuns(c, 0, w)
      BY DEF IsRuns
    <2> QED
      BY <2>1
  <1>2. ASSUME NEW k \in Nat, k \in T PROVE k + 1 \in T
    <2>1. PICK w : IsRuns(c, k, w)
      BY <1>2
    <2> DEFINE v == [i \in 0 .. k + 1 |-> IF i = k + 1 THEN Extend(w[k], c[i]) ELSE w[i]]
    <2>2. /\ DOMAIN w = 0 .. k /\ w[0] = <<>>
          /\ \A i \in 1 .. k : w[i] = Extend(w[i - 1], c[i])
      BY <2>1 DEF IsRuns
    <2>3. v[0] = <<>>
      BY <2>2
    <2>4. ASSUME NEW i \in 1 .. k + 1 PROVE v[i] = Extend(v[i - 1], c[i])
      <3>1. v[i - 1] = w[i - 1]
        OBVIOUS
      <3>2. CASE i = k + 1
        BY <3>1, <3>2
      <3>3. CASE i # k + 1
        BY <2>2, <3>1, <3>3
      <3> QED
        BY <3>2, <3>3
    <2>5. v = [i \in 0 .. k + 1 |-> v[i]]
      OBVIOUS
    <2> HIDE DEF v
    <2>6. \A i \in 0 .. k + 1 : v[i] = IF i = 0 THEN <<>> ELSE Extend(v[i - 1], c[i])
      BY <2>3, <2>4
    <2>7. IsRuns(c, k + 1, v)
      BY <2>5, <2>6 DEF IsRuns
    <2> QED
      BY <2>7
  <1> HIDE DEF T
  <1>3. Nat \subseteq T
    BY <1>1, <1>2, SetInduction
  <1> QED
    BY <1>3 DEF T

LEMMA RunsUnfold ==
  ASSUME NEW c, Len(c) \in Nat
  PROVE  /\ RunsUpTo(c)[0] = <<>>
         /\ \A i \in 1 .. Len(c) : RunsUpTo(c)[i] = Extend(RunsUpTo(c)[i - 1], c[i])
  <1>1. IsRuns(c, Len(c), RunsUpTo(c))
    BY RunsExist DEF IsRuns, RunsUpTo
  <1> QED
    BY <1>1 DEF IsRuns

(* Behind the first n tokens the loop holds their runs, but for the words   *)
(* behind the last tag.                                                     *)
InStep(c, w, n) ==
  /\ w.at \in 1 .. n + 1
  /\ \A j \in w.at .. n : c[j].path = NONE
  /\ RunsUpTo(c)[n] = w.parts \o Between(w.at, n + 1)

LEMMA WordStep ==
  ASSUME NEW c \in Seq(Token), NEW n \in Nat, n + 1 <= Len(c), NEW w, WalkApart(w),
         InStep(c, w, n), c[n + 1].path = NONE
  PROVE  InStep(c, Find(c, w, n + 1), n + 1)
  <1>1. Find(c, w, n + 1) = w
    BY DEF Find, ParseMediaTags
  <1>2. Len(c) \in Nat /\ n + 1 \in 1 .. Len(c) /\ (n + 1) - 1 = n /\ w.at \in 1 .. n + 1
    BY DEF InStep
  <1>3. RunsUpTo(c)[n + 1] = Extend(RunsUpTo(c)[n], c[n + 1])
    BY <1>2, RunsUnfold
  <1>4. \A j \in w.at .. n + 1 : c[j].path = NONE
    <2> TAKE j \in w.at .. n + 1
    <2>1. j = n + 1 \/ j \in w.at .. n
      BY <1>2
    <2> QED
      BY <2>1 DEF InStep
  <1> DEFINE p == w.parts
  <1>5. p \in Seq(Kinds) /\ NoTextAtEnd(p) /\ RunsUpTo(c)[n] = p \o Between(w.at, n + 1)
    BY DEF InStep, WalkApart
  <1> HIDE DEF p
  <1>6. RunsUpTo(c)[n + 1] = p \o <<"text">>
    <2>1. CASE w.at = n + 1
      <3>1. Between(w.at, n + 1) = <<>>
        BY <1>2, <2>1 DEF Between
      <3>2. RunsUpTo(c)[n] = p
        BY <1>5, <3>1
      <3>3. ~(p # <<>> /\ p[Len(p)] = "text")
        BY <1>5 DEF NoTextAtEnd
      <3>4. Extend(p, c[n + 1]) = Append(p, "text")
        BY <1>5, <3>3 DEF Extend
      <3>5. Append(p, "text") = p \o <<"text">>
        BY <1>5
      <3> QED
        BY <1>3, <3>2, <3>4, <3>5
    <2>2. CASE w.at # n + 1
      <3> DEFINE s == p \o <<"text">>
      <3>1. Between(w.at, n + 1) = <<"text">>
        BY <1>2, <2>2 DEF Between
      <3>2. Len(s) = Len(p) + 1 /\ s[Len(s)] = "text" /\ s # <<>>
        BY <1>5
      <3>3. RunsUpTo(c)[n] = s
        BY <1>5, <3>1
      <3> HIDE DEF s
      <3>4. Extend(s, c[n + 1]) = s
        BY <3>2 DEF Extend, NoTextAtEnd
      <3> QED
        BY <1>3, <3>3, <3>4 DEF s
    <2> QED
      BY <2>1, <2>2
  <1>7. Between(w.at, (n + 1) + 1) = <<"text">> /\ w.at \in 1 .. (n + 1) + 1
    BY <1>2 DEF Between
  <1> QED
    BY <1>1, <1>4, <1>6, <1>7 DEF InStep, p

LEMMA TagStep ==
  ASSUME NEW c \in Seq(Token), NEW n \in Nat, n + 1 <= Len(c), NEW w, WalkApart(w),
         InStep(c, w, n), c[n + 1].path # NONE, c[n + 1].exact
  PROVE  InStep(c, Find(c, w, n + 1), n + 1)
  <1> DEFINE hits == {i \in w.at .. Len(c) : c[i].path = c[n + 1].path /\ c[i].exact}
  <1>0. Len(c) \in Nat /\ n + 1 \in 1 .. Len(c) /\ (n + 1) - 1 = n /\ w.at \in 1 .. n + 1
    BY DEF InStep
  <1>1. n + 1 \in hits /\ \A i \in hits : i \in Int /\ n + 1 <= i
    BY <1>0 DEF InStep
  <1> HIDE DEF hits
  <1>2. Min(hits) = n + 1
    BY <1>0, <1>1 DEF Min
  <1> DEFINE t == w.parts \o Between(w.at, n + 1)
  <1>3. Find(c, w, n + 1) = [at |-> n + 2, parts |-> t \o <<"media">>]
    <2>1. n + 1 \in ParseMediaTags(c) /\ hits # {}
      BY <1>0, <1>1 DEF ParseMediaTags
    <2>2. Find(c, w, n + 1) = [at |-> Min(hits) + 1,
             parts |-> w.parts \o Between(w.at, Min(hits)) \o <<"media">>]
      BY <2>1 DEF Find, hits
    <2> QED
      BY <1>0, <1>2, <2>2
  <1>4. t \in Seq(Kinds) /\ t \o <<"media">> \in Seq(Kinds)
    BY MediumAfter DEF WalkApart
  <1>5. RunsUpTo(c)[n + 1] = Append(t, "media")
    <2>1. RunsUpTo(c)[n] = t /\ RunsUpTo(c)[n + 1] = Extend(t, c[n + 1])
      BY <1>0, RunsUnfold DEF InStep
    <2> QED
      BY <2>1 DEF Extend
  <1> HIDE DEF t
  <1>6. Append(t, "media") = t \o <<"media">> \o <<>>
    BY <1>4
  <1>7. (n + 1) + 1 = n + 2 /\ Between(n + 2, n + 2) = <<>>
    BY DEF Between
  <1> DEFINE v == Find(c, w, n + 1)
  <1>8. v.at = n + 2 /\ v.parts = t \o <<"media">>
    BY <1>3
  <1> HIDE DEF v
  <1>9. RunsUpTo(c)[n + 1] = v.parts \o Between(v.at, (n + 1) + 1)
    BY <1>5, <1>6, <1>7, <1>8
  <1>10. v.at \in 1 .. (n + 1) + 1 /\ \A j \in v.at .. n + 1 : c[j].path = NONE
    BY <1>8
  <1>11. InStep(c, v, n + 1)
    BY <1>9, <1>10 DEF InStep
  <1> QED
    BY <1>11 DEF v

LEMMA WalksInStep ==
  ASSUME NEW c \in Seq(Token), \A i \in DOMAIN c : c[i].exact,
         NEW n \in 0 .. Len(c)
  PROVE  InStep(c, Walk(c)[n], n)
  <1> DEFINE T == {i \in Nat : i <= Len(c) => InStep(c, Walk(c)[i], i)}
  <1>0. Len(c) \in Nat
    OBVIOUS
  <1>1. 0 \in T
    <2>1. /\ Walk(c)[0].at = 1 /\ Walk(c)[0].parts = <<>>
          /\ RunsUpTo(c)[0] = <<>> /\ Between(1, 1) = <<>>
      BY <1>0, WalkUnfolds, RunsUnfold DEF Between
    <2> DEFINE w == Walk(c)[0]
    <2> HIDE DEF w
    <2>2. <<>> \o <<>> = <<>>
      OBVIOUS
    <2>3. w.at = 1 /\ w.parts = <<>>
      BY <2>1 DEF w
    <2>4. RunsUpTo(c)[0] = w.parts \o Between(w.at, 0 + 1)
      BY <2>1, <2>2, <2>3
    <2>5. InStep(c, w, 0)
      BY <2>3, <2>4 DEF InStep
    <2> QED
      BY <2>5 DEF w
  <1>2. ASSUME NEW k \in Nat, k \in T PROVE k + 1 \in T
    <2>1. SUFFICES ASSUME k + 1 <= Len(c) PROVE InStep(c, Walk(c)[k + 1], k + 1)
      OBVIOUS
    <2>2. k + 1 \in 1 .. Len(c) /\ (k + 1) - 1 = k /\ k \in 0 .. Len(c)
      BY <1>0, <2>1
    <2>3. Walk(c)[k + 1] = Find(c, Walk(c)[k], k + 1)
      BY <1>0, <2>2, WalkUnfolds
    <2>4. InStep(c, Walk(c)[k], k) /\ WalkApart(Walk(c)[k])
      BY <1>0, <1>2, <2>1, <2>2, WalksApart
    <2>5. c[k + 1].exact
      BY <2>2
    <2> QED
      BY <2>1, <2>3, <2>4, <2>5, WordStep, TagStep
  <1> HIDE DEF T
  <1>3. Nat \subseteq T
    BY <1>1, <1>2, SetInduction
  <1> QED
    BY <1>0, <1>3 DEF T

(* A content whose tags are all written in the standard form is sent as its *)
(* runs of words and its media, each once and in order: none is dropped,    *)
(* doubled or moved, however long the content (outbound.go:183-223).        *)
THEOREM SentInOrder ==
  \A c \in Seq(Token) \ {<<>>} :
    (\A i \in DOMAIN c : c[i].exact) => SendText(c) = Runs(c)
  <1> SUFFICES ASSUME NEW c \in Seq(Token), c # <<>>, \A i \in DOMAIN c : c[i].exact
               PROVE  SendText(c) = Runs(c)
    OBVIOUS
  <1> DEFINE w == Walk(c)[Len(c)]
  <1>1. Len(c) \in Nat /\ Len(c) # 0
    OBVIOUS
  <1>2. InStep(c, w, Len(c)) /\ WalkApart(w)
    BY <1>1, WalksInStep, WalksApart
  <1>3. SendMixedContent(c) = Runs(c)
    BY <1>2 DEF SendMixedContent, Runs, InStep
  <1>4. ParseMediaTags(c) = {} => SendMixedContent(c) = <<"text">>
    <2> SUFFICES ASSUME ParseMediaTags(c) = {} PROVE SendMixedContent(c) = <<"text">>
      OBVIOUS
    <2> DEFINE T == {i \in Nat : i <= Len(c) => Walk(c)[i] = [at |-> 1, parts |-> <<>>]}
    <2>1. 0 \in T
      BY <1>1, WalkUnfolds
    <2>2. ASSUME NEW k \in Nat, k \in T PROVE k + 1 \in T
      <3> SUFFICES ASSUME k + 1 <= Len(c) PROVE Walk(c)[k + 1] = [at |-> 1, parts |-> <<>>]
        OBVIOUS
      <3>1. k + 1 \in 1 .. Len(c) /\ (k + 1) - 1 = k /\ k <= Len(c)
        BY <1>1
      <3>2. Walk(c)[k + 1] = Find(c, Walk(c)[k], k + 1)
        BY <1>1, <3>1, WalkUnfolds
      <3>3. Walk(c)[k + 1] = Walk(c)[k]
        BY <3>2 DEF Find
      <3> QED
        BY <2>2, <3>1, <3>3
    <2> HIDE DEF T
    <2>3. Nat \subseteq T
      BY <2>1, <2>2, SetInduction
    <2>4. w = [at |-> 1, parts |-> <<>>]
      BY <1>1, <2>3 DEF T
    <2>5. Between(1, Len(c) + 1) = <<"text">> /\ <<>> \o <<"text">> = <<"text">>
      BY <1>1 DEF Between
    <2> QED
      BY <2>4, <2>5 DEF SendMixedContent
  <1> QED
    BY <1>3, <1>4 DEF SendText

LEMMA PartsAreParts ==
  ASSUME NEW r \in Requests
  PROVE  /\ PartsOf[r] \in Seq(Kinds) /\ Len(PartsOf[r]) \in Nat
         /\ DOMAIN PartsOf[r] = 1 .. Len(PartsOf[r])
  <1>1. ReqOf[r].content \in Seq(Token)
    BY OutboundAssumption
  <1>2. <<"text">> \in Seq(Kinds) /\ <<"media">> \in Seq(Kinds)
    BY DEF Kinds
  <1>3. PartsOf[r] \in Seq(Kinds)
    BY <1>1, <1>2, MixedIsParts DEF PartsOf, SendText
  <1> QED
    BY <1>3

LEMMA Limits ==
  /\ ReplyLimit \in Nat /\ ReplyLimit >= 1 /\ MaxSize \in Nat /\ MaxSize >= 1
  /\ MaxInFlight \in Nat /\ ReplyTTL \in Nat /\ MaxRetries \in Nat
  /\ SafetyMargin \in Nat /\ MinTTL \in Nat /\ MaxTexts \in Nat
  BY OutboundAssumption

LEMMA RequestFacts ==
  ASSUME NEW r \in Requests
  PROVE  /\ ReqOf[r].text \in BOOLEAN /\ ReqOf[r].scope \in {"c2c", "group", "channel"}
         /\ ReqOf[r].msg \in MsgIDs \cup {NONE} /\ ReqOf[r].file \in Files \cup {NONE}
  BY OutboundAssumption

LEMMA PositionFacts ==
  ASSUME NEW r \in Requests
  PROVE  /\ TextsOf(r) \subseteq 1 .. Len(PartsOf[r]) /\ Sendable(r) \subseteq 1 .. Len(PartsOf[r])
         /\ TextsOf(r) \subseteq Sendable(r)
         /\ IsFiniteSet(TextsOf(r)) /\ Cardinality(TextsOf(r)) <= MaxTexts
         /\ ~ReqOf[r].text => TextsOf(r) = {}
  <1>1. /\ TextsOf(r) \subseteq 1 .. Len(PartsOf[r]) /\ Sendable(r) \subseteq 1 .. Len(PartsOf[r])
        /\ TextsOf(r) \subseteq Sendable(r)
    BY PartsAreParts DEF TextsOf, Sendable
  <1>2. IsFiniteSet(TextsOf(r))
    <2>1. IsFiniteSet(1 .. Len(PartsOf[r]))
      BY PartsAreParts, FS_Interval
    <2> QED
      BY <1>1, <2>1, FS_Subset
  <1>3. ~ReqOf[r].text => TextsOf(r) = {}
    BY DEF TextsOf, PartsOf
  <1> QED
    BY <1>1, <1>2, <1>3, TextsAssumption

-----------------------------------------------------------------------------
(* A text of a request by its number among the texts.                       *)
UpTo(r, i) == {j \in TextsOf(r) : j <= i}

LEMMA TextNumbers ==
  ASSUME NEW r \in Requests, NEW i \in TextsOf(r)
  PROVE  /\ Cardinality(UpTo(r, i)) \in 1 .. MaxTexts
         /\ \A k \in TextsOf(r) : Cardinality(UpTo(r, k)) = Cardinality(UpTo(r, i)) => k = i
  <1>1. \A k \in TextsOf(r) : /\ IsFiniteSet(UpTo(r, k)) /\ k \in UpTo(r, k) /\ k \in Nat
                              /\ UpTo(r, k) \subseteq TextsOf(r)
    BY PositionFacts, PartsAreParts, FS_Subset DEF UpTo
  <1>2. Cardinality(UpTo(r, i)) \in Nat /\ Cardinality(UpTo(r, i)) # 0
    BY <1>1, FS_CardinalityType, FS_EmptySet
  <1>3. Cardinality(UpTo(r, i)) <= Cardinality(TextsOf(r)) /\ Cardinality(TextsOf(r)) \in Nat
    BY <1>1, PositionFacts, FS_Subset, FS_CardinalityType
  <1>4. Cardinality(UpTo(r, i)) <= MaxTexts
    BY <1>2, <1>3, PositionFacts, Limits
  <1>5. ASSUME NEW k \in TextsOf(r), NEW l \in TextsOf(r), k < l,
               Cardinality(UpTo(r, k)) = Cardinality(UpTo(r, l))
        PROVE  FALSE
    <2>1. UpTo(r, k) \subseteq UpTo(r, l) /\ l \notin UpTo(r, k) /\ l \in UpTo(r, l)
      <3>1. \A j \in TextsOf(r) : j \in Nat
        BY <1>1
      <3> QED
        BY <1>5, <3>1 DEF UpTo
    <2>2. UpTo(r, k) = UpTo(r, l)
      BY <1>1, <1>5, <2>1, FS_Subset
    <2> QED
      BY <2>1, <2>2
  <1>6. \A k \in TextsOf(r) : Cardinality(UpTo(r, k)) = Cardinality(UpTo(r, i)) => k = i
    BY <1>1, <1>5
  <1> QED
    BY <1>2, <1>4, <1>6, Limits

(* The texts of a finite number of requests.                                *)
LEMMA TextsBounded ==
  ASSUME NEW R, IsFiniteSet(R), R \subseteq Requests,
         NEW H, \A x \in H : \E r \in R : \E i \in TextsOf(r) : x = <<r, i>>
  PROVE  IsFiniteSet(H) /\ Cardinality(H) <= Cardinality(R) * MaxTexts
  <1> DEFINE f == [x \in H |-> <<x[1], Cardinality(UpTo(x[1], x[2]))>>]
             N == 1 .. MaxTexts
  <1>1. \A x \in H : x[1] \in R /\ x[2] \in TextsOf(x[1]) /\ x = <<x[1], x[2]>>
    OBVIOUS
  <1>2. \A x \in H : f[x] \in R \X N
    BY <1>1, TextNumbers
  <1>3. ASSUME NEW x \in H, NEW y \in H, f[x] = f[y] PROVE x = y
    <2>1. x[1] = y[1] /\ Cardinality(UpTo(x[1], x[2])) = Cardinality(UpTo(y[1], y[2]))
      BY <1>3
    <2>2. x[2] = y[2]
      BY <1>1, <2>1, TextNumbers
    <2> QED
      BY <1>1, <2>1, <2>2
  <1>4. f \in Injection(H, R \X N)
    BY <1>2, <1>3 DEF Injection, IsInjective
  <1> HIDE DEF f
  <1>5. IsFiniteSet(N) /\ Cardinality(N) = MaxTexts
    BY Limits, FS_Interval
  <1> HIDE DEF N
  <1>6. IsFiniteSet(R \X N) /\ Cardinality(R \X N) = Cardinality(R) * MaxTexts
    BY <1>5, FS_Product
  <1> QED
    BY <1>4, <1>6, FS_Injection

-----------------------------------------------------------------------------
(* TypeOK by the variables that change together.                            *)
States == {"new", "sending", "recording", "uploading", "uploaded", "done", "failed"}
FlowTypes ==
  /\ pc \in [Requests -> States] /\ part \in [Requests -> Nat \ {0}]
  /\ \A r \in Requests : part[r] <= Len(PartsOf[r]) + 1
  /\ passive \in [Requests -> BOOLEAN]
LimitTypes ==
  /\ count \in [MsgIDs -> Nat] /\ age \in [MsgIDs -> 0 .. ReplyTTL + 1]
  /\ texts \in [MsgIDs -> Nat]
TryTypes == tries \in [Requests -> 0 .. MaxRetries]
CacheTypes ==
  /\ cached \in [Files -> Nat \cup {Absent}]
  /\ fileLife \in [Files -> Nat] /\ granted \in [Files -> Nat]
PostTypes == posted \in [Requests -> Seq(Nat)] /\ uncounted \in [MsgIDs -> Nat]

LEMMA TypeParts ==
  TypeOK <=> FlowTypes /\ LimitTypes /\ TryTypes /\ CacheTypes /\ PostTypes
  BY DEF TypeOK, FlowTypes, LimitTypes, TryTypes, CacheTypes, PostTypes, States

LEMMA TypePartsNext ==
  ASSUME FlowTypes', LimitTypes', TryTypes', CacheTypes', PostTypes' PROVE TypeOK'
  BY DEF TypeOK, FlowTypes, LimitTypes, TryTypes, CacheTypes, PostTypes, States

LEMMA InitOInv == Init => OInv
  <1> SUFFICES ASSUME Init PROVE OInv
    OBVIOUS
  <1>0. \A r \in Requests : pc[r] = "new" /\ part[r] = 1 /\ ~passive[r] /\ posted[r] = <<>>
    BY DEF Init
  <1>1. FlowTypes
    <2>1. \A r \in Requests : part[r] <= Len(PartsOf[r]) + 1
      BY <1>0, PartsAreParts
    <2> QED
      BY <2>1 DEF Init, FlowTypes, States
  <1>2. LimitTypes /\ TryTypes /\ CacheTypes /\ PostTypes
    BY Limits DEF Init, LimitTypes, TryTypes, CacheTypes, PostTypes
  <1>3. FlowKept
    BY <1>0 DEF FlowKept, FlowOf
  <1>4. PostedKept
    <2> SUFFICES ASSUME NEW r \in Requests PROVE PostedOf(r)
      BY DEF PostedKept
    <2>1. Behind(r) = {}
      BY <1>0, PositionFacts, PartsAreParts DEF Behind
    <2>2. Range(posted[r]) = {} /\ Increasing(posted[r])
      BY <1>0 DEF Range, Increasing
    <2> QED
      BY <1>0, <2>1, <2>2 DEF PostedOf
  <1>5. CacheKept
    <2>1. Entries(cached) = {} /\ \A f \in Files : cached[f] = -1
      BY DEF Init, Entries, Absent
    <2> QED
      BY <2>1, Limits, FS_EmptySet DEF CacheKept, CachedFilesLive, Live
  <1>6. Running = {}
    BY <1>0 DEF Running
  <1>7. RunningKept
    BY <1>6, Limits, FS_EmptySet DEF RunningKept
  <1>8. Balance
    <2>1. \A m : Pending(m) = {}
      BY <1>0 DEF Pending, PassiveTo
    <2>2. \A m \in MsgIDs : texts[m] = 0 /\ count[m] = 0
      BY DEF Init
    <2> QED
      BY <2>1, <2>2, FS_EmptySet DEF Balance
  <1>9. Room
    <2>1. \A m : Held(m) = {}
      BY <1>6 DEF Held, Takers
    <2>2. \A m \in MsgIDs : count[m] = 0
      BY DEF Init
    <2>3. ReplyLimit - 1 + MaxInFlight * MaxTexts >= 0
      BY Limits
    <2> QED
      BY <2>1, <2>2, <2>3, FS_EmptySet DEF Room
  <1> QED
    BY <1>1, <1>2, <1>3, <1>4, <1>5, <1>7, <1>8, <1>9, TypeParts DEF OInv

-----------------------------------------------------------------------------
(* The steps of one request.                                                *)
Same(q) ==
  pc'[q] = pc[q] /\ part'[q] = part[q] /\ passive'[q] = passive[q] /\ posted'[q] = posted[q]

LEMMA OthersKept ==
  ASSUME FlowKept, PostedKept, NEW r \in Requests,
         \A q \in Requests \ {r} : Same(q), FlowOf(r)', PostedOf(r)'
  PROVE  FlowKept' /\ PostedKept'
  <1>1. ASSUME NEW q \in Requests \ {r} PROVE FlowOf(q)' /\ PostedOf(q)'
    <2>1. Same(q) /\ FlowOf(q) /\ PostedOf(q)
      BY DEF FlowKept, PostedKept
    <2>2. FlowOf(q)'
      BY <2>1 DEF FlowOf, Same
    <2>3. PostedOf(q)'
      BY <2>1 DEF PostedOf, Same, Behind
    <2> QED
      BY <2>2, <2>3
  <1> QED
    BY <1>1 DEF FlowKept, PostedKept

(* A request goes on to another state, and maybe to its next part.          *)
LEMMA Moves ==
  ASSUME FlowTypes, NEW r \in Requests, NEW s \in States,
         pc' = [pc EXCEPT ![r] = s], passive' = passive,
         \/ part' = part
         \/ part' = [part EXCEPT ![r] = @ + 1] /\ part[r] <= Len(PartsOf[r])
  PROVE  /\ FlowTypes' /\ pc'[r] = s
         /\ part'[r] = part[r] \/ part'[r] = part[r] + 1
         /\ part[r] \in Nat /\ part'[r] \in Nat
         /\ \A q \in Requests \ {r} :
              pc'[q] = pc[q] /\ part'[q] = part[q] /\ passive'[q] = passive[q]
  <1>1. /\ pc' \in [Requests -> States] /\ pc'[r] = s
        /\ \A q \in Requests \ {r} : pc'[q] = pc[q]
    BY DEF FlowTypes
  <1>2. /\ part' \in [Requests -> Nat \ {0}] /\ part[r] \in Nat /\ part'[r] \in Nat
        /\ \A q \in Requests \ {r} : part'[q] = part[q]
        /\ part'[r] = part[r] \/ (part'[r] = part[r] + 1 /\ part[r] <= Len(PartsOf[r]))
    BY DEF FlowTypes
  <1>3. \A q \in Requests : part'[q] <= Len(PartsOf[q]) + 1
    BY <1>2, PartsAreParts DEF FlowTypes
  <1> QED
    BY <1>1, <1>2, <1>3 DEF FlowTypes

(* Behind the part a request was at.                                        *)
LEMMA BehindNext ==
  ASSUME NEW r \in Requests, part[r] \in Nat, part'[r] = part[r] + 1
  PROVE  Behind(r)' = Behind(r) \cup ({part[r]} \cap Sendable(r))
  <1>1. Sendable(r) \subseteq Nat
    BY PositionFacts, PartsAreParts
  <1> QED
    BY <1>1 DEF Behind

(* The service takes the part a request is at.                              *)
LEMMA TakenFacts ==
  ASSUME NEW r \in Requests, posted[r] \in Seq(Nat), part[r] \in Nat,
         Increasing(posted[r]), Range(posted[r]) = Behind(r),
         posted'[r] = Append(posted[r], part[r])
  PROVE  Increasing(posted[r])' /\ Range(posted'[r]) = Behind(r) \cup {part[r]}
  <1> DEFINE s == posted[r]
             n == Len(posted[r])
             t == posted'[r]
  <1>1. /\ n \in Nat /\ DOMAIN s = 1 .. n /\ DOMAIN t = 1 .. n + 1
        /\ t[n + 1] = part[r] /\ \A i \in 1 .. n : t[i] = s[i]
    OBVIOUS
  <1>2. Sendable(r) \subseteq Nat
    BY PositionFacts, PartsAreParts
  <1>3. \A i \in 1 .. n : s[i] \in Nat /\ s[i] < part[r]
    <2>1. \A i \in 1 .. n : s[i] \in Behind(r)
      BY <1>1 DEF Range
    <2> QED
      BY <1>2, <2>1 DEF Behind
  <1>4. Range(t) = Range(s) \cup {part[r]}
    BY <1>1 DEF Range
  <1>5. \A i, j \in 1 .. n : i < j => s[i] < s[j]
    BY <1>1 DEF Increasing
  <1>6. \A i, j \in DOMAIN t : i < j => t[i] < t[j]
    <2> SUFFICES ASSUME NEW i \in 1 .. n + 1, NEW j \in 1 .. n + 1, i < j PROVE t[i] < t[j]
      BY <1>1
    <2>1. i \in 1 .. n /\ t[i] = s[i]
      BY <1>1
    <2>2. CASE j = n + 1
      BY <1>1, <1>3, <2>1, <2>2
    <2>3. CASE j # n + 1
      <3>1. j \in 1 .. n /\ t[j] = s[j]
        BY <1>1, <2>3
      <3> QED
        BY <1>5, <2>1, <3>1
    <2> QED
      BY <2>2, <2>3
  <1> QED
    BY <1>4, <1>6 DEF Increasing

(* A request under way that goes on takes no room.                          *)
LEMMA Fewer ==
  ASSUME RunningKept, Room, NEW r \in Running,
         part[r] \in Nat, part'[r] \in Nat, part'[r] >= part[r], passive' = passive,
         \A q \in Requests \ {r} : pc'[q] = pc[q] /\ part'[q] = part[q]
  PROVE  /\ RunningKept'
         /\ \A m \in MsgIDs : /\ IsFiniteSet(Held(m)) /\ IsFiniteSet(Held(m)')
                             /\ Held(m)' \subseteq Held(m)
                             /\ Cardinality(Held(m)') <= Cardinality(Held(m))
                             /\ Cardinality(Held(m)) \in Nat /\ Cardinality(Held(m)') \in Nat
  <1>1. Running' \subseteq Running
    BY DEF Running
  <1>2. RunningKept'
    <2>1. IsFiniteSet(Running) /\ Cardinality(Running) <= MaxInFlight
      BY DEF RunningKept
    <2>2. /\ IsFiniteSet(Running') /\ Cardinality(Running') <= Cardinality(Running)
          /\ Cardinality(Running') \in Nat /\ Cardinality(Running) \in Nat
      BY <1>1, <2>1, FS_Subset, FS_CardinalityType
    <2> QED
      BY <2>1, <2>2, Limits DEF RunningKept
  <1>3. ASSUME NEW q \in Running' PROVE HeldBy(q)' \subseteq HeldBy(q)
    <2>1. part[q] = part'[q] \/ q = r
      BY <1>1, <1>3 DEF Running
    <2>2. \A j \in TextsOf(r) : j \in Nat
      BY PositionFacts, PartsAreParts DEF Running
    <2>3. CASE q = r
      BY <2>2, <2>3 DEF HeldBy
    <2>4. CASE q # r
      BY <2>1, <2>4 DEF HeldBy
    <2> QED
      BY <2>3, <2>4
  <1>4. ASSUME NEW m \in MsgIDs PROVE Held(m)' \subseteq Held(m)
    <2>1. Takers(m)' \subseteq Takers(m) /\ Takers(m)' \subseteq Running'
      BY <1>1 DEF Takers
    <2> QED
      BY <1>3, <2>1 DEF Held
  <1>5. \A m \in MsgIDs : IsFiniteSet(Held(m))
    BY DEF Room
  <1> QED
    BY <1>2, <1>4, <1>5, FS_Subset, FS_CardinalityType

LEMMA RoomKept ==
  ASSUME Room, LimitTypes, count' = count,
         \A m \in MsgIDs : /\ IsFiniteSet(Held(m)')
                          /\ Cardinality(Held(m)') <= Cardinality(Held(m))
                          /\ Cardinality(Held(m)) \in Nat /\ Cardinality(Held(m)') \in Nat
  PROVE  Room'
  <1> SUFFICES ASSUME NEW m \in MsgIDs
               PROVE  count'[m] + Cardinality(Held(m)') <= ReplyLimit - 1 + MaxInFlight * MaxTexts
    BY DEF Room
  <1> DEFINE B == ReplyLimit - 1 + MaxInFlight * MaxTexts
  <1>1. B \in Int
    BY Limits
  <1>2. count[m] + Cardinality(Held(m)) <= B /\ count[m] \in Nat
    BY DEF Room, LimitTypes
  <1> HIDE DEF B
  <1>3. count'[m] + Cardinality(Held(m)') <= B
    BY <1>1, <1>2
  <1> QED
    BY <1>3 DEF B

LEMMA PendingFinite ==
  ASSUME RunningKept, NEW m
  PROVE  IsFiniteSet(Pending(m)) /\ Cardinality(Pending(m)) \in Nat
  <1>1. Pending(m) \subseteq Running
    BY DEF Pending, PassiveTo, Running
  <1> QED
    BY <1>1, FS_Subset, FS_CardinalityType DEF RunningKept

(* A step of a request under way that changes nothing of what the limiter   *)
(* and the counts of replies say.                                           *)
LEMMA QuietStep ==
  ASSUME OInv, NEW r \in Requests, NEW s \in States \ {"new", "recording"},
         pc[r] \notin {"new", "recording", "done", "failed"},
         pc' = [pc EXCEPT ![r] = s], passive' = passive,
         \/ part' = part
         \/ part' = [part EXCEPT ![r] = @ + 1] /\ part[r] <= Len(PartsOf[r]),
         UNCHANGED <<count, age, texts>>,
         TryTypes', CacheTypes', PostTypes', CacheKept',
         \A q \in Requests \ {r} : posted'[q] = posted[q],
         FlowOf(r)', PostedOf(r)'
  PROVE  OInv'
  <1>0. FlowTypes /\ LimitTypes /\ FlowKept /\ PostedKept /\ RunningKept /\ Room /\ Balance
    BY TypeParts DEF OInv
  <1>1. /\ FlowTypes' /\ pc'[r] = s
        /\ part'[r] = part[r] \/ part'[r] = part[r] + 1
        /\ part[r] \in Nat /\ part'[r] \in Nat
        /\ \A q \in Requests \ {r} :
             pc'[q] = pc[q] /\ part'[q] = part[q] /\ passive'[q] = passive[q]
    BY <1>0, Moves
  <1>2. TypeOK'
    <2>1. LimitTypes'
      BY <1>0 DEF LimitTypes
    <2> QED
      BY <1>1, <2>1, TypePartsNext
  <1>3. FlowKept' /\ PostedKept'
    <2>1. \A q \in Requests \ {r} : Same(q)
      BY <1>1 DEF Same
    <2> QED
      BY <1>0, <2>1, OthersKept
  <1>4. r \in Running /\ part'[r] >= part[r]
    BY <1>1 DEF Running
  <1>5. /\ RunningKept'
        /\ \A m \in MsgIDs : /\ IsFiniteSet(Held(m)')
                            /\ Cardinality(Held(m)') <= Cardinality(Held(m))
                            /\ Cardinality(Held(m)) \in Nat /\ Cardinality(Held(m)') \in Nat
    BY <1>0, <1>1, <1>4, Fewer
  <1>6. Room'
    BY <1>0, <1>5, RoomKept
  <1>7. Balance'
    <2>1. \A m : Pending(m)' = Pending(m)
      BY <1>1 DEF Pending, PassiveTo
    <2> QED
      BY <1>0, <2>1 DEF Balance
  <1> QED
    BY <1>2, <1>3, <1>5, <1>6, <1>7 DEF OInv

(* What OInv says of a request that is sending.                             *)
LEMMA SendingFacts ==
  ASSUME OInv, NEW r \in Requests
  PROVE  /\ pc \in [Requests -> States] /\ pc[r] \in States /\ part[r] \in Nat
         /\ posted \in [Requests -> Seq(Nat)] /\ posted[r] \in Seq(Nat)
         /\ FlowOf(r) /\ PostedOf(r)
         /\ FlowTypes /\ LimitTypes /\ TryTypes /\ CacheTypes /\ PostTypes /\ CacheKept
  BY TypeParts DEF OInv, FlowTypes, PostTypes, FlowKept, PostedKept

LEMMA PostsTyped ==
  ASSUME PostTypes, NEW r \in Requests, part[r] \in Nat, Taken(r),
         uncounted' = uncounted \/ Counted(r, uncounted)
  PROVE  /\ PostTypes' /\ posted'[r] = Append(posted[r], part[r])
         /\ \A q \in Requests \ {r} : posted'[q] = posted[q]
  <1>1. /\ posted' \in [Requests -> Seq(Nat)] /\ posted'[r] = Append(posted[r], part[r])
        /\ \A q \in Requests \ {r} : posted'[q] = posted[q]
    <2>1. Append(posted[r], part[r]) \in Seq(Nat)
      BY DEF PostTypes
    <2> QED
      BY <2>1 DEF Taken, PostTypes
  <1>2. uncounted' \in [MsgIDs -> Nat]
    <2>1. uncounted \in [MsgIDs -> Nat]
      BY DEF PostTypes
    <2>2. ASSUME NEW m, uncounted' = [uncounted EXCEPT ![m] = @ + 1]
          PROVE  uncounted' \in [MsgIDs -> Nat]
      <3>1. m \in MsgIDs => uncounted[m] + 1 \in Nat
        BY <2>1
      <3>2. uncounted' = [i \in MsgIDs |-> IF i = m THEN uncounted[m] + 1 ELSE uncounted[i]]
        BY <2>1, <2>2
      <3>3. \A i \in MsgIDs : uncounted'[i] \in Nat
        BY <2>1, <3>1, <3>2
      <3> QED
        BY <3>2, <3>3
    <2>3. uncounted' = uncounted \/ uncounted' = [uncounted EXCEPT ![ReqOf[r].msg] = @ + 1]
      BY DEF Counted
    <2> QED
      BY <2>1, <2>2, <2>3
  <1> QED
    BY <1>1, <1>2 DEF PostTypes

(* A request that fails before its part reached the service.                *)
LEMMA FailStep ==
  ASSUME OInv, NEW r \in Requests, pc[r] \in {"sending", "uploading", "uploaded"}, Fail(r),
         passive' = passive, UNCHANGED <<limiter, uploads, history>>, TryTypes'
  PROVE  OInv'
  <1>0. /\ FlowOf(r) /\ PostedOf(r) /\ FlowTypes /\ CacheTypes /\ PostTypes /\ CacheKept
    BY SendingFacts
  <1>1. /\ pc' = [pc EXCEPT ![r] = "failed"] /\ part' = part
        /\ UNCHANGED <<count, age, cached, fileLife, granted, posted, texts, uncounted>>
    BY DEF Fail, limiter, uploads, history
  <1>2. pc'[r] = "failed"
    BY <1>0, <1>1 DEF FlowTypes
  <1>3. FlowOf(r)'
    BY <1>0, <1>1, <1>2 DEF FlowOf
  <1>4. PostedOf(r)'
    BY <1>0, <1>1, <1>2 DEF PostedOf, Behind
  <1>5. CacheTypes' /\ PostTypes' /\ CacheKept'
    BY <1>0, <1>1 DEF CacheTypes, PostTypes, CacheKept, CachedFilesLive, Live
  <1>6. "failed" \in States \ {"new", "recording"}
    BY DEF States
  <1> QED
    BY <1>1, <1>3, <1>4, <1>5, <1>6, QuietStep

(* A request whose part was taken, with its answer lost: it fails; or,      *)
(* when no reply is recorded, it goes on to the next part.                  *)
LEMMA TakenStep ==
  ASSUME OInv, NEW r \in Requests, pc[r] \in {"sending", "uploaded"}, part[r] \in Sendable(r),
         Taken(r), uncounted' = uncounted \/ Counted(r, uncounted),
         Fail(r) \/ NextPart(r, "sending"),
         UNCHANGED <<tries, passive, limiter, uploads, texts>>
  PROVE  OInv'
  <1>0. /\ FlowOf(r) /\ PostedOf(r) /\ FlowTypes /\ TryTypes /\ CacheTypes /\ PostTypes
        /\ CacheKept /\ part[r] \in Nat /\ posted[r] \in Seq(Nat)
    BY SendingFacts
  <1>1. UNCHANGED <<count, age, cached, fileLife, granted, tries, passive, texts>>
    BY DEF limiter, uploads
  <1>2. /\ PostTypes' /\ posted'[r] = Append(posted[r], part[r])
        /\ \A q \in Requests \ {r} : posted'[q] = posted[q]
    BY <1>0, PostsTyped
  <1>3. Increasing(posted[r]) /\ Range(posted[r]) = Behind(r)
    BY <1>0 DEF PostedOf
  <1>4. Increasing(posted[r])' /\ Range(posted'[r]) = Behind(r) \cup {part[r]}
    BY <1>0, <1>2, <1>3, TakenFacts
  <1>5. CacheTypes' /\ TryTypes' /\ CacheKept'
    BY <1>0, <1>1 DEF CacheTypes, TryTypes, CacheKept, CachedFilesLive, Live
  <1>6. part[r] <= Len(PartsOf[r])
    BY PositionFacts, PartsAreParts
  <1>7. CASE Fail(r)
    <2>1. pc' = [pc EXCEPT ![r] = "failed"] /\ part' = part /\ pc'[r] = "failed"
      BY <1>0, <1>7 DEF Fail, FlowTypes
    <2>2. FlowOf(r)'
      BY <1>0, <1>1, <2>1 DEF FlowOf
    <2>3. PostedOf(r)'
      BY <1>4, <2>1 DEF PostedOf, Behind
    <2>4. "failed" \in States \ {"new", "recording"}
      BY DEF States
    <2> QED
      BY <1>1, <1>2, <1>5, <2>1, <2>2, <2>3, <2>4, QuietStep
  <1>8. CASE NextPart(r, "sending")
    <2>1. /\ pc' = [pc EXCEPT ![r] = "sending"] /\ pc'[r] = "sending"
          /\ part' = [part EXCEPT ![r] = @ + 1] /\ part'[r] = part[r] + 1
      BY <1>0, <1>8 DEF NextPart, FlowTypes
    <2>2. FlowOf(r)'
      BY <1>0, <1>1, <2>1 DEF FlowOf
    <2>3. Behind(r)' = Behind(r) \cup {part[r]}
      BY <1>0, <2>1, BehindNext
    <2>4. PostedOf(r)'
      BY <1>4, <2>1, <2>3 DEF PostedOf
    <2>5. "sending" \in States \ {"new", "recording"}
      BY DEF States
    <2> QED
      BY <1>1, <1>2, <1>5, <1>6, <2>1, <2>2, <2>4, <2>5, QuietStep
  <1> QED
    BY <1>7, <1>8

(* A text that was taken as a reply and confirmed waits to be recorded.     *)
LEMMA ConfirmedStep ==
  ASSUME OInv, NEW r \in Requests, pc[r] = "sending", part[r] \in TextsOf(r), Recorded(r),
         Taken(r), Counted(r, texts), uncounted' = uncounted,
         pc' = [pc EXCEPT ![r] = "recording"], part' = part,
         UNCHANGED <<tries, passive, limiter, uploads>>
  PROVE  OInv'
  <1> DEFINE m == ReqOf[r].msg
  <1>0. /\ FlowOf(r) /\ PostedOf(r) /\ FlowTypes /\ TryTypes /\ CacheTypes /\ PostTypes
        /\ LimitTypes /\ CacheKept /\ part[r] \in Nat /\ posted[r] \in Seq(Nat)
    BY SendingFacts
  <1>1. UNCHANGED <<count, age, cached, fileLife, granted, tries, passive>>
    BY DEF limiter, uploads
  <1>2. /\ FlowKept /\ PostedKept /\ RunningKept /\ Room /\ Balance
    BY DEF OInv
  <1>3. "recording" \in States /\ "recording" # "sending"
    BY DEF States
  <1>4. /\ FlowTypes' /\ pc'[r] = "recording"
        /\ \A q \in Requests \ {r} :
             pc'[q] = pc[q] /\ part'[q] = part[q] /\ passive'[q] = passive[q]
    BY <1>0, <1>1, <1>3, Moves
  <1>5. /\ PostTypes' /\ posted'[r] = Append(posted[r], part[r])
        /\ \A q \in Requests \ {r} : posted'[q] = posted[q]
    BY <1>0, PostsTyped
  <1>6. m \in MsgIDs /\ passive[r] /\ ReqOf[r].scope # "channel"
    BY <1>0, RequestFacts DEF Recorded, FlowOf
  <1>7. texts' = [texts EXCEPT ![m] = @ + 1]
    BY DEF Counted
  <1> HIDE DEF m
  <1>8. /\ texts' \in [MsgIDs -> Nat] /\ texts'[m] = texts[m] + 1
        /\ \A k \in MsgIDs \ {m} : texts'[k] = texts[k]
    BY <1>0, <1>6, <1>7 DEF LimitTypes
  <1>9. TypeOK'
    <2>1. LimitTypes' /\ TryTypes' /\ CacheTypes'
      BY <1>0, <1>1, <1>8 DEF LimitTypes, TryTypes, CacheTypes
    <2> QED
      BY <1>4, <1>5, <2>1, TypePartsNext
  <1>10. FlowKept' /\ PostedKept'
    <2>1. \A q \in Requests \ {r} : Same(q)
      BY <1>4, <1>5 DEF Same
    <2>2. FlowOf(r)'
      BY <1>0, <1>1, <1>4, <1>6 DEF FlowOf
    <2>3. Increasing(posted[r])' /\ Range(posted'[r]) = Behind(r) \cup {part[r]}
      BY <1>0, <1>5, TakenFacts DEF PostedOf
    <2>4. part[r] \in Sendable(r)
      BY PositionFacts
    <2>5. PostedOf(r)'
      BY <1>4, <2>3, <2>4 DEF PostedOf, Behind
    <2> QED
      BY <1>2, <2>1, <2>2, <2>5, OthersKept
  <1>11. r \in Running /\ part'[r] >= part[r] /\ part'[r] \in Nat
    BY <1>0 DEF Running
  <1>12. /\ RunningKept'
         /\ \A k \in MsgIDs : /\ IsFiniteSet(Held(k)')
                             /\ Cardinality(Held(k)') <= Cardinality(Held(k))
                             /\ Cardinality(Held(k)) \in Nat /\ Cardinality(Held(k)') \in Nat
    BY <1>0, <1>1, <1>2, <1>4, <1>11, Fewer
  <1>13. Room'
    BY <1>0, <1>1, <1>2, <1>12, RoomKept
  <1>14. Balance'
    <2>1. Pending(m)' = Pending(m) \cup {r} /\ r \notin Pending(m)
      BY <1>1, <1>3, <1>4, <1>6 DEF Pending, PassiveTo, m
    <2>2. \A k \in MsgIDs \ {m} : Pending(k)' = Pending(k)
      BY <1>1, <1>3, <1>4 DEF Pending, PassiveTo, m
    <2>3. Cardinality(Pending(m)') = Cardinality(Pending(m)) + 1 /\ Cardinality(Pending(m)) \in Nat
      BY <1>2, <2>1, PendingFinite, FS_AddElement
    <2>4. texts[m] = count[m] + Cardinality(Pending(m)) /\ count[m] \in Nat
      BY <1>0, <1>2, <1>6 DEF Balance, LimitTypes
    <2> QED
      BY <1>1, <1>2, <1>8, <2>2, <2>3, <2>4 DEF Balance
  <1>15. CacheKept'
    BY <1>0, <1>1 DEF CacheKept, CachedFilesLive, Live
  <1> QED
    BY <1>9, <1>10, <1>12, <1>13, <1>14, <1>15 DEF OInv

LEMMA PostTextStep == ASSUME OInv, NEW r \in Requests, PostText(r) PROVE OInv'
  <1>1. pc[r] = "sending" /\ part[r] <= Len(PartsOf[r]) /\ PartsOf[r][part[r]] = "text"
    BY DEF PostText, AtText
  <1>2. part[r] \in TextsOf(r) /\ part[r] \in Sendable(r)
    <2>1. part[r] \in Nat /\ part[r] # 0
      BY SendingFacts DEF FlowTypes
    <2>2. part[r] \in DOMAIN PartsOf[r]
      BY <1>1, <2>1, PartsAreParts
    <2> QED
      BY <1>1, <2>2, PositionFacts DEF TextsOf
  <1>3. UNCHANGED <<tries, passive, limiter, uploads>>
    BY DEF PostText
  <1>4. CASE /\ Taken(r) /\ Counted(r, texts) /\ UNCHANGED uncounted
             /\ IF Recorded(r) THEN pc' = [pc EXCEPT ![r] = "recording"] /\ UNCHANGED part
                               ELSE NextPart(r, "sending")
    <2>1. CASE Recorded(r)
      BY <1>1, <1>2, <1>3, <1>4, <2>1, ConfirmedStep
    <2>2. CASE ~Recorded(r)
      <3>1. texts' = texts
        BY <1>4, <2>2 DEF Counted
      <3> QED
        BY <1>1, <1>2, <1>3, <1>4, <2>2, <3>1, TakenStep
    <2> QED
      BY <2>1, <2>2
  <1>5. CASE Taken(r) /\ Counted(r, uncounted) /\ Fail(r) /\ UNCHANGED texts
    BY <1>1, <1>2, <1>3, <1>5, TakenStep
  <1>6. CASE Fail(r) /\ UNCHANGED history
    <2>1. TryTypes'
      BY <1>3, SendingFacts DEF TryTypes
    <2> QED
      BY <1>1, <1>3, <1>6, <2>1, FailStep
  <1> QED
    BY <1>4, <1>5, <1>6 DEF PostText

(* limiter.Record: the text held by the request becomes one of the record's.*)
LEMMA RecordStep == ASSUME OInv, NEW r \in Requests, Record(r) PROVE OInv'
  <1> DEFINE m == ReqOf[r].msg
             fresh == count[m] = 0 \/ Expired(m)
             t == <<r, part[r]>>
  <1>0. /\ FlowOf(r) /\ PostedOf(r) /\ FlowTypes /\ TryTypes /\ CacheTypes /\ PostTypes
        /\ LimitTypes /\ CacheKept /\ part[r] \in Nat
    BY SendingFacts
  <1>1. /\ pc[r] = "recording"
        /\ pc' = [pc EXCEPT ![r] = "sending"] /\ part' = [part EXCEPT ![r] = @ + 1]
        /\ count' = [count EXCEPT ![m] = IF fresh THEN 1 ELSE @ + 1]
        /\ age' = [age EXCEPT ![m] = IF fresh THEN 0 ELSE @]
        /\ texts' = [texts EXCEPT ![m] = IF Expired(m) THEN Cardinality(Pending(m)) ELSE @]
        /\ uncounted' = [uncounted EXCEPT ![m] = IF Expired(m) THEN 0 ELSE @]
        /\ UNCHANGED <<tries, passive, cached, fileLife, granted, posted>>
    BY DEF Record, NextPart, uploads
  <1>2. FlowKept /\ PostedKept /\ RunningKept /\ Room /\ Balance
    BY DEF OInv
  <1>3. /\ part[r] \in TextsOf(r) /\ passive[r] /\ ReqOf[r].scope # "channel" /\ m \in MsgIDs
        /\ part[r] \in Sendable(r) /\ part[r] <= Len(PartsOf[r])
    BY <1>0, <1>1, RequestFacts, PositionFacts, PartsAreParts DEF FlowOf
  <1>4. "sending" \in States /\ "sending" # "recording"
    BY DEF States
  <1>5. /\ FlowTypes' /\ pc'[r] = "sending"
        /\ \A q \in Requests \ {r} :
             pc'[q] = pc[q] /\ part'[q] = part[q] /\ passive'[q] = passive[q]
    BY <1>0, <1>1, <1>3, <1>4, Moves
  <1>6. part'[r] = part[r] + 1
    BY <1>0, <1>1 DEF FlowTypes
  <1>7. FlowKept' /\ PostedKept'
    <2>1. \A q \in Requests \ {r} : Same(q)
      BY <1>1, <1>5 DEF Same
    <2>2. FlowOf(r)'
      BY <1>0, <1>1, <1>4, <1>5 DEF FlowOf
    <2>3. Behind(r)' = Behind(r) \cup {part[r]}
      BY <1>0, <1>3, <1>6, BehindNext
    <2>4. PostedOf(r)'
      BY <1>0, <1>1, <1>4, <1>5, <2>3 DEF PostedOf
    <2> QED
      BY <1>2, <2>1, <2>2, <2>4, OthersKept
  <1>8. IsFiniteSet(Pending(m)) /\ Cardinality(Pending(m)) \in Nat
    BY <1>2, PendingFinite
  <1>9. /\ Pending(m)' = Pending(m) \ {r} /\ r \in Pending(m)
        /\ \A k \in MsgIDs \ {m} : Pending(k)' = Pending(k)
    BY <1>1, <1>3, <1>4, <1>5 DEF Pending, PassiveTo
  <1>10. Cardinality(Pending(m)') = Cardinality(Pending(m)) - 1
    BY <1>8, <1>9, FS_RemoveElement
  <1>11. r \in Running /\ part'[r] >= part[r] /\ part'[r] \in Nat
    BY <1>0, <1>1, <1>6 DEF Running
  <1>12. /\ RunningKept'
         /\ \A k \in MsgIDs : /\ IsFiniteSet(Held(k)) /\ IsFiniteSet(Held(k)')
                             /\ Held(k)' \subseteq Held(k)
                             /\ Cardinality(Held(k)') <= Cardinality(Held(k))
                             /\ Cardinality(Held(k)) \in Nat /\ Cardinality(Held(k)') \in Nat
    BY <1>0, <1>1, <1>2, <1>5, <1>11, Fewer
  <1>13. t \in Held(m) /\ t \notin Held(m)'
    <2>1. r \in Takers(m)
      BY <1>3, <1>11 DEF Takers
    <2>2. t \in HeldBy(r)
      BY <1>0, <1>3 DEF HeldBy
    <2>3. t \in Held(m)
      BY <2>1, <2>2 DEF Held
    <2>4. ASSUME NEW q, t \in HeldBy(q)' PROVE FALSE
      <3>1. q = r /\ part[r] >= part'[r]
        BY <2>4 DEF HeldBy
      <3> QED
        BY <1>0, <1>6, <3>1
    <2>5. t \notin Held(m)'
      BY <2>4 DEF Held
    <2> QED
      BY <2>3, <2>5
  <1> HIDE DEF t
  <1>14. Cardinality(Held(m)') <= Cardinality(Held(m)) - 1
    <2>1. Held(m)' \subseteq Held(m) \ {t}
      BY <1>3, <1>12, <1>13
    <2>2. /\ IsFiniteSet(Held(m) \ {t})
          /\ Cardinality(Held(m) \ {t}) = Cardinality(Held(m)) - 1
      BY <1>3, <1>12, <1>13, FS_RemoveElement
    <2> QED
      BY <2>1, <2>2, FS_Subset
  <1> HIDE DEF m, fresh
  <1>15. /\ count' \in [MsgIDs -> Nat] /\ count'[m] = (IF fresh THEN 1 ELSE count[m] + 1)
         /\ \A k \in MsgIDs \ {m} : count'[k] = count[k]
         /\ count[m] \in Nat
    <2>1. (IF fresh THEN 1 ELSE count[m] + 1) \in Nat
      BY <1>0, <1>3 DEF LimitTypes
    <2> QED
      BY <1>0, <1>1, <1>3, <2>1 DEF LimitTypes
  <1>16. /\ texts' \in [MsgIDs -> Nat]
         /\ texts'[m] = (IF Expired(m) THEN Cardinality(Pending(m)) ELSE texts[m])
         /\ \A k \in MsgIDs \ {m} : texts'[k] = texts[k]
    <2>1. (IF Expired(m) THEN Cardinality(Pending(m)) ELSE texts[m]) \in Nat
      BY <1>0, <1>3, <1>8 DEF LimitTypes
    <2> QED
      BY <1>0, <1>1, <1>3, <2>1 DEF LimitTypes
  <1>17. TypeOK'
    <2>1. age' \in [MsgIDs -> 0 .. ReplyTTL + 1]
      BY <1>0, <1>1, <1>3, Limits DEF LimitTypes
    <2>2. uncounted' \in [MsgIDs -> Nat]
      BY <1>0, <1>1, <1>3 DEF PostTypes
    <2>3. LimitTypes' /\ TryTypes' /\ CacheTypes' /\ PostTypes'
      BY <1>0, <1>1, <1>15, <1>16, <2>1, <2>2 DEF LimitTypes, TryTypes, CacheTypes, PostTypes
    <2> QED
      BY <1>5, <2>3, TypePartsNext
  <1>18. Room'
    <2>1. ASSUME NEW k \in MsgIDs, NEW B \in Int, count[k] + Cardinality(Held(k)) <= B
          PROVE  count'[k] + Cardinality(Held(k)') <= B
      <3>1. CASE k = m
        BY <1>12, <1>14, <1>15, <2>1, <3>1
      <3>2. CASE k # m
        BY <1>0, <1>12, <1>15, <2>1, <3>2 DEF LimitTypes
      <3> QED
        BY <3>1, <3>2
    <2>2. ReplyLimit - 1 + MaxInFlight * MaxTexts \in Int
      BY Limits
    <2> QED
      BY <1>2, <1>12, <2>1, <2>2 DEF Room
  <1>19. Balance'
    <2>1. texts[m] = count[m] + Cardinality(Pending(m)) /\ texts[m] \in Nat
      BY <1>0, <1>2, <1>3 DEF Balance, LimitTypes
    <2>2. texts'[m] = count'[m] + Cardinality(Pending(m)')
      BY <1>8, <1>10, <1>15, <1>16, <2>1 DEF fresh
    <2> QED
      BY <1>2, <1>9, <1>15, <1>16, <2>2 DEF Balance
  <1>20. CacheKept'
    BY <1>0, <1>1 DEF CacheKept, CachedFilesLive, Live
  <1> QED
    BY <1>7, <1>12, <1>17, <1>18, <1>19, <1>20 DEF OInv

-----------------------------------------------------------------------------
(* The upload cache.                                                        *)
LEMMA EntryFacts ==
  ASSUME CacheTypes, NEW f \in Files
  PROVE  /\ cached[f] \in Int /\ cached[f] >= -1 /\ fileLife[f] \in Nat
         /\ f \in Entries(cached) <=> cached[f] >= 0
  BY DEF CacheTypes, Entries, Absent

(* Entries dropped.                                                         *)
LEMMA DropKeeps ==
  ASSUME CacheTypes, CacheKept, fileLife' = fileLife, granted' = granted,
         cached' \in [Files -> Nat \cup {Absent}],
         \A f \in Files : cached'[f] = cached[f] \/ cached'[f] = Absent
  PROVE  CacheTypes' /\ CacheKept'
  <1>1. Entries(cached') \subseteq Entries(cached)
    BY DEF Entries
  <1>2. /\ IsFiniteSet(Entries(cached)) /\ Cardinality(Entries(cached)) <= MaxSize
        /\ \A f \in Files : cached[f] > 0 => Live(f)
    BY DEF CacheKept, CachedFilesLive
  <1>3. /\ IsFiniteSet(Entries(cached')) /\ Cardinality(Entries(cached')) <= Cardinality(Entries(cached))
        /\ Cardinality(Entries(cached')) \in Nat /\ Cardinality(Entries(cached)) \in Nat
    BY <1>1, <1>2, FS_Subset, FS_CardinalityType
  <1>4. Cardinality(Entries(cached')) <= MaxSize
    BY <1>2, <1>3, Limits
  <1>5. ASSUME NEW f \in Files, cached'[f] > 0 PROVE Live(f)'
    <2>1. cached'[f] = cached[f]
      BY <1>5 DEF Absent
    <2> QED
      BY <1>2, <1>5, <2>1 DEF Live
  <1> QED
    BY <1>3, <1>4, <1>5 DEF CacheTypes, CacheKept, CachedFilesLive

(* An upload that is set leaves the cache within its size.                  *)
LEMMA SetKeeps ==
  ASSUME CacheTypes, CacheKept, NEW f \in Files, NEW t \in ServerTTLs, t > 0, Set(f, t)
  PROVE  CacheTypes' /\ CacheKept'
  <1> DEFINE kept == [g \in Files |-> IF Full(cached) /\ cached[g] = 0 THEN Absent ELSE cached[g]]
  <1>1. PICK K \in SUBSET Files :
          /\ IF Full(kept) THEN Oldest(kept, K) ELSE K = {}
          /\ cached' = [g \in Files |-> IF g = f THEN EffectiveTTL(t)
                                        ELSE IF g \in K THEN Absent ELSE kept[g]]
          /\ fileLife' = [fileLife EXCEPT ![f] = t] /\ granted' = [granted EXCEPT ![f] = t]
    BY DEF Set
  <1>2. /\ t \in Nat /\ EffectiveTTL(t) \in Nat
        /\ \/ EffectiveTTL(t) + SafetyMargin <= t
           \/ t < SafetyMargin + MinTTL /\ EffectiveTTL(t) = MinTTL
    <2>1. t \in Nat
      BY OutboundAssumption
    <2> QED
      BY <2>1, Limits DEF EffectiveTTL
  <1>3. /\ kept \in [Files -> Nat \cup {Absent}]
        /\ \A g \in Files : kept[g] = cached[g] \/ kept[g] = Absent
    BY DEF CacheTypes
  <1> HIDE DEF kept
  <1>4. /\ IsFiniteSet(Entries(cached)) /\ Cardinality(Entries(cached)) <= MaxSize
        /\ \A g \in Files : cached[g] > 0 => Live(g)
    BY DEF CacheKept, CachedFilesLive
  <1>5. Entries(kept) \subseteq Entries(cached)
    BY <1>3 DEF Entries
  <1>6. /\ IsFiniteSet(Entries(kept)) /\ Cardinality(Entries(kept)) \in Nat
        /\ Cardinality(Entries(kept)) <= MaxSize
    <2>1. Cardinality(Entries(cached)) \in Nat
      BY <1>4, FS_CardinalityType
    <2>2. /\ IsFiniteSet(Entries(kept)) /\ Cardinality(Entries(kept)) \in Nat
          /\ Cardinality(Entries(kept)) <= Cardinality(Entries(cached))
      BY <1>4, <1>5, FS_Subset, FS_CardinalityType
    <2> QED
      BY <1>4, <2>1, <2>2, Limits
  <1> DEFINE rest == Entries(kept) \ K
  <1>7. IsFiniteSet(rest) /\ Cardinality(rest) \in Nat /\ Cardinality(rest) <= MaxSize - 1
    <2>0. IsFiniteSet(rest) /\ Cardinality(rest) \in Nat
      BY <1>6, FS_Subset, FS_CardinalityType
    <2>1. CASE Full(kept)
      <3>1. Oldest(kept, K)
        BY <1>1, <2>1
      <3>2. K \subseteq Entries(kept) /\ Cardinality(K) # 0
        BY <1>6, <3>1 DEF Oldest
      <3>3. IsFiniteSet(K) /\ K # {}
        BY <1>6, <3>2, FS_Subset, FS_EmptySet
      <3>4. PICK k \in K : TRUE
        BY <3>3
      <3>5. /\ IsFiniteSet(Entries(kept) \ {k})
            /\ Cardinality(Entries(kept) \ {k}) = Cardinality(Entries(kept)) - 1
        BY <1>6, <3>2, <3>4, FS_RemoveElement
      <3>6. rest \subseteq Entries(kept) \ {k}
        BY <3>4
      <3>7. Cardinality(rest) <= Cardinality(Entries(kept)) - 1
        BY <3>5, <3>6, FS_Subset
      <3> HIDE DEF rest
      <3> QED
        BY <1>6, <2>0, <3>7, Limits
    <2>2. CASE ~Full(kept)
      <3>1. rest = Entries(kept) /\ ~(Cardinality(Entries(kept)) >= MaxSize)
        BY <1>1, <2>2 DEF Full
      <3> HIDE DEF rest
      <3> QED
        BY <1>6, <2>0, <3>1, Limits
    <2> QED
      BY <2>1, <2>2
  <1>8. Entries(cached') \subseteq rest \cup {f}
    BY <1>1, <1>3 DEF Entries
  <1>9. IsFiniteSet(Entries(cached')) /\ Cardinality(Entries(cached')) <= MaxSize
    <2>1. /\ IsFiniteSet(rest \cup {f}) /\ Cardinality(rest \cup {f}) \in Nat
          /\ Cardinality(rest \cup {f}) <= Cardinality(rest) + 1
      <3> HIDE DEF rest
      <3>1. /\ IsFiniteSet(rest \cup {f})
            /\ Cardinality(rest \cup {f}) = IF f \in rest THEN Cardinality(rest) ELSE Cardinality(rest) + 1
        BY <1>7, FS_AddElement
      <3> QED
        BY <1>7, <3>1
    <2>2. /\ IsFiniteSet(Entries(cached')) /\ Cardinality(Entries(cached')) \in Nat
          /\ Cardinality(Entries(cached')) <= Cardinality(rest \cup {f})
      <3> HIDE DEF rest
      <3> QED
        BY <1>8, <2>1, FS_Subset, FS_CardinalityType
    <2> HIDE DEF rest
    <2> QED
      BY <1>7, <2>1, <2>2, Limits
  <1>10. cached' \in [Files -> Nat \cup {Absent}]
    BY <1>1, <1>2, <1>3
  <1>11. /\ fileLife' \in [Files -> Nat] /\ fileLife'[f] = t
         /\ granted' \in [Files -> Nat] /\ granted'[f] = t
         /\ \A g \in Files \ {f} : fileLife'[g] = fileLife[g] /\ granted'[g] = granted[g]
    BY <1>1, <1>2 DEF CacheTypes
  <1>12. ASSUME NEW g \in Files, cached'[g] > 0 PROVE Live(g)'
    <2>1. CASE g = f
      <3>1. cached'[g] = EffectiveTTL(t)
        BY <1>1, <2>1
      <3> QED
        BY <1>2, <1>11, <2>1, <3>1, Limits DEF Live
    <2>2. CASE g # f
      <3>1. cached'[g] = kept[g] \/ cached'[g] = Absent
        BY <1>1, <2>2
      <3>2. cached'[g] = cached[g]
        BY <1>3, <1>12, <3>1 DEF Absent
      <3> QED
        BY <1>4, <1>11, <1>12, <2>2, <3>2 DEF Live
    <2> QED
      BY <2>1, <2>2
  <1> QED
    BY <1>9, <1>10, <1>11, <1>12 DEF CacheTypes, CacheKept, CachedFilesLive

LEMMA UploadStep == ASSUME OInv, NEW r \in Requests, Upload(r) PROVE OInv'
  <1> DEFINE f == ReqOf[r].file
             s == IF f # NONE /\ cached[f] > 0 THEN "uploaded" ELSE "uploading"
  <1>0. /\ FlowOf(r) /\ PostedOf(r) /\ FlowTypes /\ TryTypes /\ CacheTypes /\ PostTypes
        /\ CacheKept /\ part[r] \in Nat
    BY SendingFacts
  <1>1. /\ pc[r] = "sending" /\ part[r] <= Len(PartsOf[r]) /\ PartsOf[r][part[r]] = "media"
        /\ ReqOf[r].scope # "channel"
        /\ pc' = [pc EXCEPT ![r] = s]
        /\ cached' = IF f # NONE /\ cached[f] = 0 THEN [cached EXCEPT ![f] = Absent] ELSE cached
        /\ UNCHANGED <<part, tries, passive, count, age, fileLife, granted, posted, texts, uncounted>>
    BY DEF Upload, AtMedia, limiter, history
  <1>2. s \in States \ {"new", "recording"} /\ s \in {"uploading", "uploaded"}
    BY DEF States
  <1>3. CacheTypes' /\ CacheKept'
    <2>1. cached' \in [Files -> Nat \cup {Absent}]
      BY <1>0, <1>1 DEF CacheTypes
    <2>2. \A g \in Files : cached'[g] = cached[g] \/ cached'[g] = Absent
      BY <1>0, <1>1 DEF CacheTypes
    <2> QED
      BY <1>0, <1>1, <2>1, <2>2, DropKeeps
  <1> HIDE DEF s
  <1>4. pc'[r] = s
    BY <1>0, <1>1 DEF FlowTypes
  <1>5. FlowOf(r)'
    <2>1. part[r] \in Nat /\ part[r] # 0
      BY <1>0 DEF FlowTypes
    <2>2. part[r] \in Sendable(r)
      BY <1>1, <2>1, PartsAreParts DEF Sendable
    <2> QED
      BY <1>0, <1>1, <1>2, <1>4, <2>2 DEF FlowOf
  <1>6. PostedOf(r)'
    BY <1>0, <1>1, <1>2, <1>4 DEF PostedOf, Behind
  <1>7. TryTypes' /\ PostTypes'
    BY <1>0, <1>1 DEF TryTypes, PostTypes
  <1> QED
    BY <1>1, <1>2, <1>3, <1>5, <1>6, <1>7, QuietStep

LEMMA SkipMediaStep == ASSUME OInv, NEW r \in Requests, SkipMedia(r) PROVE OInv'
  <1>0. /\ FlowOf(r) /\ PostedOf(r) /\ FlowTypes /\ TryTypes /\ CacheTypes /\ PostTypes
        /\ CacheKept /\ part[r] \in Nat
    BY SendingFacts
  <1>1. /\ pc[r] = "sending" /\ part[r] <= Len(PartsOf[r]) /\ PartsOf[r][part[r]] = "media"
        /\ ReqOf[r].scope = "channel"
        /\ pc' = [pc EXCEPT ![r] = "sending"] /\ part' = [part EXCEPT ![r] = @ + 1]
        /\ UNCHANGED <<tries, passive, count, age, cached, fileLife, granted, posted, texts, uncounted>>
    BY DEF SkipMedia, AtMedia, NextPart, limiter, uploads, history
  <1>2. "sending" \in States \ {"new", "recording"}
    BY DEF States
  <1>3. pc'[r] = "sending" /\ part'[r] = part[r] + 1
    BY <1>0, <1>1 DEF FlowTypes
  <1>4. FlowOf(r)'
    BY <1>0, <1>1, <1>3 DEF FlowOf
  <1>5. PostedOf(r)'
    <2>1. part[r] \notin Sendable(r)
      BY <1>1 DEF Sendable
    <2>2. Behind(r)' = Behind(r)
      BY <1>0, <1>3, <2>1, BehindNext
    <2> QED
      BY <1>0, <1>1, <1>3, <2>2 DEF PostedOf
  <1>6. TryTypes' /\ PostTypes' /\ CacheTypes' /\ CacheKept'
    BY <1>0, <1>1 DEF TryTypes, PostTypes, CacheTypes, CacheKept, CachedFilesLive, Live
  <1> QED
    BY <1>1, <1>2, <1>4, <1>5, <1>6, QuietStep

LEMMA UploadAnsweredStep ==
  ASSUME OInv, NEW r \in Requests, NEW t \in ServerTTLs, UploadAnswered(r, t) PROVE OInv'
  <1>0. /\ FlowOf(r) /\ PostedOf(r) /\ FlowTypes /\ TryTypes /\ CacheTypes /\ PostTypes
        /\ CacheKept /\ part[r] \in Nat
    BY SendingFacts
  <1>1. /\ pc[r] = "uploading" /\ pc' = [pc EXCEPT ![r] = "uploaded"]
        /\ tries' = [tries EXCEPT ![r] = 0]
        /\ UNCHANGED <<part, passive, count, age, posted, texts, uncounted>>
    BY DEF UploadAnswered, limiter, history
  <1>2. CacheTypes' /\ CacheKept'
    <2>1. CASE ReqOf[r].file # NONE /\ t > 0
      <3>1. ReqOf[r].file \in Files /\ Set(ReqOf[r].file, t)
        BY <2>1, RequestFacts DEF UploadAnswered
      <3> QED
        BY <1>0, <2>1, <3>1, SetKeeps
    <2>2. CASE ~(ReqOf[r].file # NONE /\ t > 0)
      <3>1. UNCHANGED <<cached, fileLife, granted>>
        BY <2>2 DEF UploadAnswered, uploads
      <3> QED
        BY <1>0, <3>1 DEF CacheTypes, CacheKept, CachedFilesLive, Live
    <2> QED
      BY <2>1, <2>2
  <1>3. "uploaded" \in States \ {"new", "recording"}
    BY DEF States
  <1>4. pc'[r] = "uploaded"
    BY <1>0, <1>1 DEF FlowTypes
  <1>5. FlowOf(r)'
    BY <1>0, <1>1, <1>4 DEF FlowOf
  <1>6. PostedOf(r)'
    BY <1>0, <1>1, <1>4 DEF PostedOf, Behind
  <1>7. TryTypes' /\ PostTypes'
    BY <1>0, <1>1, Limits DEF TryTypes, PostTypes
  <1> QED
    BY <1>1, <1>2, <1>3, <1>5, <1>6, <1>7, QuietStep

LEMMA UploadRetriedStep == ASSUME OInv, NEW r \in Requests, UploadRetried(r) PROVE OInv'
  <1>0. /\ FlowOf(r) /\ PostedOf(r) /\ FlowTypes /\ TryTypes /\ CacheTypes /\ PostTypes
        /\ CacheKept /\ part[r] \in Nat
    BY SendingFacts
  <1>1. /\ pc[r] = "uploading" /\ tries[r] < MaxRetries /\ tries' = [tries EXCEPT ![r] = @ + 1]
        /\ UNCHANGED <<pc, part, passive, count, age, cached, fileLife, granted, posted, texts, uncounted>>
    BY DEF UploadRetried, limiter, uploads, history
  <1>2. TryTypes'
    <2>1. tries[r] + 1 \in 0 .. MaxRetries
      BY <1>0, <1>1, Limits DEF TryTypes
    <2> QED
      BY <1>0, <1>1, <2>1 DEF TryTypes
  <1>3. pc' = [pc EXCEPT ![r] = "uploading"] /\ "uploading" \in States \ {"new", "recording"}
    BY <1>0, <1>1 DEF FlowTypes, States
  <1>4. FlowOf(r)' /\ PostedOf(r)'
    BY <1>0, <1>1 DEF FlowOf, PostedOf, Behind
  <1>5. PostTypes' /\ CacheTypes' /\ CacheKept'
    BY <1>0, <1>1 DEF PostTypes, CacheTypes, CacheKept, CachedFilesLive, Live
  <1> QED
    BY <1>1, <1>2, <1>3, <1>4, <1>5, QuietStep

LEMMA UploadFailedStep == ASSUME OInv, NEW r \in Requests, UploadFailed(r) PROVE OInv'
  <1>1. /\ pc[r] = "uploading" /\ Fail(r) /\ tries' = [tries EXCEPT ![r] = 0] /\ passive' = passive
        /\ UNCHANGED <<limiter, uploads, history>>
    BY DEF UploadFailed, Fail
  <1>2. TryTypes'
    BY <1>1, SendingFacts, Limits DEF TryTypes
  <1> QED
    BY <1>1, <1>2, FailStep

LEMMA PostMediaStep == ASSUME OInv, NEW r \in Requests, PostMedia(r) PROVE OInv'
  <1>1. pc[r] = "uploaded" /\ UNCHANGED <<tries, passive, limiter, uploads, texts>>
    BY DEF PostMedia
  <1>2. part[r] \in Sendable(r)
    BY <1>1, SendingFacts DEF FlowOf
  <1>3. CASE Taken(r) /\ Counted(r, uncounted) /\ (NextPart(r, "sending") \/ Fail(r))
    BY <1>1, <1>2, <1>3, TakenStep
  <1>4. CASE Fail(r) /\ UNCHANGED <<posted, uncounted>>
    <2>1. TryTypes' /\ UNCHANGED history
      BY <1>1, <1>4, SendingFacts DEF TryTypes, history
    <2> QED
      BY <1>1, <1>4, <2>1, FailStep
  <1> QED
    BY <1>3, <1>4 DEF PostMedia

LEMMA ReturnStep == ASSUME OInv, NEW r \in Requests, Return(r) PROVE OInv'
  <1>0. /\ FlowOf(r) /\ PostedOf(r) /\ FlowTypes /\ TryTypes /\ CacheTypes /\ PostTypes
        /\ CacheKept /\ part[r] \in Nat
    BY SendingFacts
  <1>1. /\ pc[r] = "sending" /\ part[r] > Len(PartsOf[r]) /\ pc' = [pc EXCEPT ![r] = "done"]
        /\ UNCHANGED <<part, tries, passive, count, age, cached, fileLife, granted, posted, texts, uncounted>>
    BY DEF Return, limiter, uploads, history
  <1>2. "done" \in States \ {"new", "recording"} /\ pc'[r] = "done"
    BY <1>0, <1>1 DEF FlowTypes, States
  <1>3. part[r] = Len(PartsOf[r]) + 1
    BY <1>0, <1>1, PartsAreParts DEF FlowTypes
  <1>4. FlowOf(r)' /\ PostedOf(r)'
    BY <1>0, <1>1, <1>2, <1>3 DEF FlowOf, PostedOf, Behind
  <1>5. TryTypes' /\ PostTypes' /\ CacheTypes' /\ CacheKept'
    BY <1>0, <1>1 DEF TryTypes, PostTypes, CacheTypes, CacheKept, CachedFilesLive, Live
  <1> QED
    BY <1>1, <1>2, <1>4, <1>5, QuietStep

-----------------------------------------------------------------------------
(* A handler starts: one slot is left, and with the limiter's consent its   *)
(* texts come on top of fewer than the limit.                               *)
LEMMA StartStep == ASSUME OInv, NEW r \in Requests, Start(r) PROVE OInv'
  <1> DEFINE ok == /\ ReqOf[r].msg # NONE
                   /\ ReqOf[r].text => Allowed(ReqOf[r].msg)
  <1>0. /\ FlowOf(r) /\ PostedOf(r) /\ FlowTypes /\ LimitTypes /\ TryTypes /\ CacheTypes
        /\ PostTypes /\ CacheKept /\ part[r] \in Nat
    BY SendingFacts
  <1>1. /\ pc[r] = "new" /\ Cardinality(Running) < MaxInFlight
        /\ pc' = [pc EXCEPT ![r] = "sending"]
        /\ passive' = [passive EXCEPT ![r] = ok]
        /\ UNCHANGED <<part, tries, count, age, cached, fileLife, granted, posted, texts, uncounted>>
    BY DEF Start, HandlerStarts, CheckLimit, limiter, uploads, history
  <1>2. /\ FlowKept /\ PostedKept /\ RunningKept /\ Room /\ Balance
    BY DEF OInv
  <1>3. ok \in BOOLEAN
    OBVIOUS
  <1> HIDE DEF ok
  <1>4. /\ pc' \in [Requests -> States] /\ pc'[r] = "sending"
        /\ passive' \in [Requests -> BOOLEAN] /\ passive'[r] = ok
        /\ \A q \in Requests \ {r} : pc'[q] = pc[q] /\ passive'[q] = passive[q]
    <2>1. "sending" \in States
      BY DEF States
    <2>2. pc \in [Requests -> States] /\ passive \in [Requests -> BOOLEAN]
      BY <1>0 DEF FlowTypes
    <2> QED
      BY <1>1, <1>3, <2>1, <2>2
  <1>5. TypeOK'
    <2>1. FlowTypes' /\ LimitTypes' /\ TryTypes' /\ CacheTypes' /\ PostTypes'
      BY <1>0, <1>1, <1>4 DEF FlowTypes, LimitTypes, TryTypes, CacheTypes, PostTypes
    <2> QED
      BY <2>1, TypePartsNext
  <1>6. FlowKept' /\ PostedKept'
    <2>1. \A q \in Requests \ {r} : Same(q)
      BY <1>1, <1>4 DEF Same
    <2>2. FlowOf(r)'
      BY <1>4 DEF FlowOf, ok
    <2>3. PostedOf(r)'
      BY <1>0, <1>1, <1>4 DEF PostedOf, Behind
    <2> QED
      BY <1>2, <2>1, <2>2, <2>3, OthersKept
  <1>7. /\ Running' = Running \cup {r} /\ r \notin Running
    BY <1>1, <1>4 DEF Running
  <1>8. IsFiniteSet(Running) /\ Cardinality(Running) \in Nat
    BY <1>2, FS_CardinalityType DEF RunningKept
  <1>9. /\ IsFiniteSet(Running') /\ Cardinality(Running') = Cardinality(Running) + 1
    BY <1>7, <1>8, FS_AddElement
  <1>10. RunningKept'
    BY <1>1, <1>8, <1>9, Limits DEF RunningKept
  <1>11. Balance'
    <2>1. \A m : Pending(m)' = Pending(m)
      BY <1>1, <1>4 DEF Pending, PassiveTo
    <2> QED
      BY <1>1, <1>2, <2>1 DEF Balance
  <1>12. \A q \in Requests : HeldBy(q)' = HeldBy(q)
    BY <1>1 DEF HeldBy
  <1>13. ASSUME NEW m \in MsgIDs
         PROVE  /\ IsFiniteSet(Held(m)')
                /\ count'[m] + Cardinality(Held(m)') <= ReplyLimit - 1 + MaxInFlight * MaxTexts
    <2>1. Takers(m)' \subseteq Takers(m) \cup {r} /\ Takers(m) \subseteq Takers(m)'
          /\ Takers(m)' \subseteq Requests
      BY <1>4, <1>7 DEF Takers, Running
    <2>2. CASE r \notin Takers(m)' \/ ~ReqOf[r].text
      <3>1. Takers(m)' = Takers(m) \/ HeldBy(r) = {}
        BY <2>1, <2>2, PositionFacts DEF HeldBy
      <3>2. Held(m)' = Held(m)
        BY <1>12, <2>1, <3>1 DEF Held
      <3> QED
        BY <1>1, <1>2, <3>2 DEF Room
    <2>3. CASE r \in Takers(m)' /\ ReqOf[r].text
      <3>1. ok /\ ReqOf[r].msg = m
        BY <1>4, <2>3 DEF Takers
      <3>2. Allowed(m)
        BY <2>3, <3>1 DEF ok
      <3>3. count[m] \in Nat /\ count[m] <= ReplyLimit - 1
        BY <1>0, <3>2, Limits DEF Allowed, LimitTypes
      <3>4. \A x \in Held(m)' : \E q \in Running' : \E i \in TextsOf(q) : x = <<q, i>>
        BY DEF Held, HeldBy, Takers
      <3>5. Running' \subseteq Requests
        BY DEF Running
      <3>6. /\ IsFiniteSet(Held(m)')
            /\ Cardinality(Held(m)') <= Cardinality(Running') * MaxTexts
        BY <1>9, <3>4, <3>5, TextsBounded
      <3>7. /\ Cardinality(Held(m)') \in Nat /\ Cardinality(Running') \in Nat
            /\ Cardinality(Running') <= MaxInFlight
        BY <1>1, <1>8, <1>9, <3>6, FS_CardinalityType, Limits
      <3>8. \A a, b, c \in Nat : a <= b => a * c <= b * c
        OBVIOUS
      <3>9. /\ Cardinality(Running') * MaxTexts <= MaxInFlight * MaxTexts
            /\ Cardinality(Running') * MaxTexts \in Nat /\ MaxInFlight * MaxTexts \in Nat
        BY <3>7, <3>8, Limits
      <3> QED
        BY <1>1, <3>3, <3>6, <3>7, <3>9, Limits
    <2> QED
      BY <2>2, <2>3
  <1>14. Room'
    BY <1>13 DEF Room
  <1>15. CacheKept'
    BY <1>0, <1>1 DEF CacheKept, CachedFilesLive, Live
  <1> QED
    BY <1>5, <1>6, <1>10, <1>11, <1>14, <1>15 DEF OInv

(* Time passes.                                                             *)
LEMMA TickStep == ASSUME OInv, Tick PROVE OInv'
  <1>0. /\ FlowTypes /\ LimitTypes /\ TryTypes /\ CacheTypes /\ PostTypes
        /\ FlowKept /\ PostedKept /\ CacheKept /\ RunningKept /\ Balance /\ Room
    BY TypeParts DEF OInv
  <1>1. /\ age' = [m \in MsgIDs |-> IF count[m] > 0 /\ age[m] <= ReplyTTL THEN age[m] + 1 ELSE age[m]]
        /\ cached' = [f \in Files |-> Down(cached[f])]
        /\ fileLife' = [f \in Files |-> Down(fileLife[f])]
        /\ UNCHANGED <<pc, part, tries, passive, count, granted, posted, texts, uncounted>>
    BY DEF Tick, request, history
  <1>2. ASSUME NEW f \in Files
        PROVE  /\ cached'[f] \in Nat \cup {Absent} /\ fileLife'[f] \in Nat
               /\ cached[f] = Absent <=> cached'[f] = Absent
               /\ cached'[f] > 0 => /\ cached[f] > 0 /\ cached'[f] = cached[f] - 1
                                    /\ fileLife'[f] >= fileLife[f] - 1
               /\ cached[f] \in Int /\ fileLife[f] \in Nat /\ granted'[f] = granted[f]
               /\ granted[f] \in Nat
    BY <1>0, <1>1 DEF CacheTypes, Absent, Down
  <1>3. TypeOK'
    <2>1. age' \in [MsgIDs -> 0 .. ReplyTTL + 1]
      <3>1. ASSUME NEW m \in MsgIDs PROVE age'[m] \in 0 .. ReplyTTL + 1
        <4>1. age[m] \in 0 .. ReplyTTL + 1
          BY <1>0 DEF LimitTypes
        <4>2. age'[m] = IF count[m] > 0 /\ age[m] <= ReplyTTL THEN age[m] + 1 ELSE age[m]
          BY <1>1
        <4> QED
          BY <4>1, <4>2, Limits
      <3> QED
        BY <1>1, <3>1
    <2>2. cached' \in [Files -> Nat \cup {Absent}] /\ fileLife' \in [Files -> Nat]
      BY <1>1, <1>2
    <2>3. FlowTypes' /\ LimitTypes' /\ TryTypes' /\ CacheTypes' /\ PostTypes'
      BY <1>0, <1>1, <2>1, <2>2 DEF FlowTypes, LimitTypes, TryTypes, CacheTypes, PostTypes
    <2> QED
      BY <2>3, TypePartsNext
  <1>4. FlowKept'
    BY <1>0, <1>1 DEF FlowKept, FlowOf
  <1>5. PostedKept'
    BY <1>0, <1>1 DEF PostedKept, PostedOf, Behind
  <1>6. CacheKept'
    <2>1. /\ IsFiniteSet(Entries(cached)) /\ Cardinality(Entries(cached)) <= MaxSize
          /\ \A f \in Files : cached[f] > 0 => Live(f)
      BY <1>0 DEF CacheKept, CachedFilesLive
    <2>2. Entries(cached') = Entries(cached)
      BY <1>2 DEF Entries
    <2>3. ASSUME NEW f \in Files, cached'[f] > 0 PROVE Live(f)'
      BY <1>2, <2>1, <2>3, Limits DEF Live
    <2> QED
      BY <2>1, <2>2, <2>3 DEF CacheKept, CachedFilesLive
  <1>7. Running' = Running /\ \A m : Pending(m)' = Pending(m) /\ Held(m)' = Held(m)
    BY <1>1 DEF Running, Pending, PassiveTo, Held, HeldBy, Takers
  <1>8. RunningKept' /\ Balance' /\ Room'
    BY <1>0, <1>1, <1>7 DEF RunningKept, Balance, Room
  <1> QED
    BY <1>3, <1>4, <1>5, <1>6, <1>8 DEF OInv

LEMMA Stutter == ASSUME OInv, UNCHANGED vars PROVE OInv'
  <1>1. UNCHANGED <<pc, part, tries, passive, count, age, cached, fileLife, granted, posted, texts, uncounted>>
    BY DEF vars, request, limiter, uploads, history
  <1>2. Running' = Running /\ \A m : Pending(m)' = Pending(m) /\ Held(m)' = Held(m)
    BY <1>1 DEF Running, Pending, PassiveTo, Held, HeldBy, Takers
  <1>3. TypeOK' /\ RunningKept' /\ Balance' /\ Room'
    BY <1>1, <1>2 DEF OInv, TypeOK, RunningKept, Balance, Room
  <1>4. FlowKept' /\ PostedKept' /\ CacheKept'
    BY <1>1 DEF OInv, FlowKept, FlowOf, PostedKept, PostedOf, Behind, CacheKept, CachedFilesLive, Live
  <1> QED
    BY <1>3, <1>4 DEF OInv

LEMMA Inductive == Spec => []OInv
  <1>1. OInv /\ [Next]_vars => OInv'
    <2> SUFFICES ASSUME OInv, [Next]_vars PROVE OInv'
      OBVIOUS
    <2>1. ASSUME NEW r \in Requests,
                 \/ Start(r) \/ PostText(r) \/ Record(r) \/ Upload(r) \/ SkipMedia(r)
                 \/ UploadRetried(r) \/ UploadFailed(r) \/ PostMedia(r) \/ Return(r)
                 \/ \E t \in ServerTTLs : UploadAnswered(r, t)
          PROVE  OInv'
      BY <2>1, StartStep, PostTextStep, RecordStep, UploadStep, SkipMediaStep, UploadRetriedStep,
         UploadFailedStep, PostMediaStep, ReturnStep, UploadAnsweredStep
    <2>2. CASE Tick
      BY <2>2, TickStep
    <2>3. CASE UNCHANGED vars
      BY <2>3, Stutter
    <2> QED
      BY <2>1, <2>2, <2>3 DEF Next
  <1> QED
    BY <1>1, InitOInv, PTL DEF Spec

-----------------------------------------------------------------------------
(* The types of requests, limiter, cache and retries hold, and no request   *)
(* runs past its parts (outbound.go:182-220, client.go:178-203).            *)
THEOREM TypeCorrect == Spec => []TypeOK
  <1>1. OInv => TypeOK
    BY DEF OInv
  <1> QED
    BY <1>1, Inductive, PTL

(* The parts of every request reach the service in their order and at most  *)
(* once, and all that can be sent of one reported as sent                   *)
(* (outbound.go:63-75, 183-220).                                            *)
THEOREM PartsSentInOrder == Spec => []PartsInOrder
  <1>1. OInv => PartsInOrder
    <2> SUFFICES ASSUME OInv, NEW r \in Requests
                 PROVE  /\ \A i, j \in DOMAIN posted[r] : i < j => posted[r][i] < posted[r][j]
                        /\ Range(posted[r]) \subseteq Sendable(r)
                        /\ \A k \in Range(posted[r]), l \in Sendable(r) : l < k => l \in Range(posted[r])
                        /\ pc[r] = "done" => Range(posted[r]) = Sendable(r)
      BY DEF PartsInOrder
    <2>1. FlowOf(r) /\ PostedOf(r) /\ part[r] \in Nat
      BY SendingFacts
    <2>2. /\ Sendable(r) \subseteq Nat /\ \A k \in Sendable(r) : k < Len(PartsOf[r]) + 1
          /\ Len(PartsOf[r]) \in Nat
      BY PositionFacts, PartsAreParts
    <2>3. \A i, j \in DOMAIN posted[r] : i < j => posted[r][i] < posted[r][j]
      BY <2>1 DEF PostedOf, Increasing
    <2>4. \/ Range(posted[r]) = Behind(r)
          \/ Range(posted[r]) = Behind(r) \cup {part[r]} /\ part[r] \in Sendable(r)
      BY <2>1 DEF PostedOf
    <2>5. \A k \in Range(posted[r]), l \in Sendable(r) : l < k => l \in Range(posted[r])
      BY <2>1, <2>2, <2>4 DEF Behind
    <2>6. pc[r] = "done" => Range(posted[r]) = Sendable(r)
      BY <2>1, <2>2 DEF Behind, FlowOf, PostedOf
    <2> QED
      BY <2>3, <2>4, <2>5, <2>6 DEF Behind
  <1> QED
    BY <1>1, Inductive, PTL

(* The cache never grows over its size, and whatever lifetimes the service  *)
(* grants it hands out live files, or, of one granted too little, a file    *)
(* dead for no longer than the minimum exceeds it (upload_cache.go:46-105). *)
THEOREM CacheIsLive == Spec => []CachedFilesLive
  <1>1. OInv => CachedFilesLive
    BY DEF OInv, CacheKept
  <1> QED
    BY <1>1, Inductive, PTL

(* However many requests reply together, the texts confirmed in a window    *)
(* exceed the limit by what those in flight hold at most                    *)
(* (outbound.go:55-64, 152-180, ratelimit.go:44-114).                       *)
THEOREM OvershootBounded == Spec => []ReplyOvershoot
  <1>1. OInv => ReplyOvershoot
    <2> SUFFICES ASSUME OInv, NEW m \in MsgIDs
                 PROVE  texts[m] <= ReplyLimit - 1 + MaxInFlight * MaxTexts
      BY DEF ReplyOvershoot
    <2>1. /\ FlowTypes /\ FlowKept /\ LimitTypes /\ RunningKept
          /\ IsFiniteSet(Held(m)) /\ texts[m] = count[m] + Cardinality(Pending(m))
          /\ count[m] + Cardinality(Held(m)) <= ReplyLimit - 1 + MaxInFlight * MaxTexts
      BY TypeParts DEF OInv, Balance, Room
    <2> DEFINE f == [q \in Pending(m) |-> <<q, part[q]>>]
    <2>2. ASSUME NEW q \in Pending(m) PROVE f[q] \in Held(m)
      <3>1. q \in Requests /\ passive[q] /\ ReqOf[q].msg = m /\ pc[q] = "recording"
        BY DEF Pending, PassiveTo
      <3>2. part[q] \in TextsOf(q) /\ ReqOf[q].scope # "channel" /\ part[q] \in Nat
        BY <2>1, <3>1 DEF FlowKept, FlowOf, FlowTypes
      <3>3. q \in Takers(m) /\ <<q, part[q]>> \in HeldBy(q)
        BY <3>1, <3>2 DEF Takers, Running, HeldBy
      <3> QED
        BY <3>3 DEF Held
    <2>3. \A p, q \in Pending(m) : f[p] = f[q] => p = q
      OBVIOUS
    <2>4. f \in Injection(Pending(m), Held(m))
      BY <2>2, <2>3 DEF Injection, IsInjective
    <2> HIDE DEF f
    <2>5. Cardinality(Pending(m)) <= Cardinality(Held(m))
      BY <2>1, <2>4, FS_Injection
    <2>6. Cardinality(Pending(m)) \in Nat /\ Cardinality(Held(m)) \in Nat /\ count[m] \in Nat
      BY <2>1, PendingFinite, FS_CardinalityType DEF LimitTypes
    <2>7. ReplyLimit - 1 + MaxInFlight * MaxTexts \in Int
      BY Limits
    <2> QED
      BY <2>1, <2>5, <2>6, <2>7
  <1> QED
    BY <1>1, Inductive, PTL
=============================================================================

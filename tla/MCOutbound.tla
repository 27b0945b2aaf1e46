----------------------------- MODULE MCOutbound -----------------------------
(* Three replies to one message, one of them with a picture after its text, *)
(* and an image to a group and one to a channel beside them.                *)
EXTENDS Outbound, TLC

CONSTANTS r1, r2, r3, r4, r5, m1, f1, f2, a, b

Req(text, scope, msg, file, content) ==
  [text |-> text, scope |-> scope, msg |-> msg, file |-> file, content |-> content]
Word == [path |-> NONE, exact |-> TRUE]
Tag(p) == [path |-> p, exact |-> TRUE]
Odd(p) == [path |-> p, exact |-> FALSE]

MCReqOf ==
  (r1 :> Req(TRUE, "c2c", m1, NONE, <<Word>>)) @@
  (r2 :> Req(TRUE, "c2c", m1, f1, <<Word, Tag(a)>>)) @@
  (r3 :> Req(TRUE, "c2c", m1, NONE, <<Word>>)) @@
  (r4 :> Req(FALSE, "group", NONE, f2, <<>>)) @@
  (r5 :> Req(TRUE, "channel", NONE, NONE, <<Tag(a)>>))

(* Contents of up to four tokens.  A text whose tags are all in standard    *)
(* form is sent as its runs of words and its media, in order.               *)
Contents(S) == UNION {[1 .. n -> S] : n \in 0 .. 4}
Runs(c) ==
  FoldLeft(LAMBDA s, t : IF t.path # NONE THEN Append(s, "media")
                         ELSE IF s # <<>> /\ Last(s) = "text" THEN s ELSE Append(s, "text"),
           <<>>, c)
ASSUME StandardTagsInOrder ==
  \A c \in Contents({Word, Tag(a), Tag(b)}) \ {<<>>} : SendText(c) = Runs(c)

(* Odd tags lose nothing: whatever the tags look like, no two texts are     *)
(* next to each other, no more media are sent than there are standard tags, *)
(* and a text without any media is one text.                                *)
ASSUME OddTagsAreText ==
  \A c \in Contents({Word, Tag(a), Odd(a), Tag(b), Odd(b)}) :
    LET s == SendText(c)
        media == Len(SelectSeq(s, LAMBDA k : k = "media"))
    IN /\ \A i \in 1 .. Len(s) - 1 : s[i] = "text" => s[i + 1] = "media"
       /\ media <= Len(SelectSeq(c, LAMBDA t : t.exact /\ t.path # NONE))
       /\ media = 0 => s = <<"text">>
=============================================================================

---------------------------- MODULE PostedHeader ----------------------------
(***************************************************************************)
(* ParseAndProcessHeader of posting/postingpull.go, which a backend calls  *)
(* with the head that ConsumePostedArticle has returned: it copies the     *)
(* head to RAW, one header behind, puts the stamp of the server into Path, *)
(* adds what is missing, and picks out the fields of HeadInfo.             *)
(*                                                                         *)
(* In the head, an "other" stands for any bytes but CR, LF and dots: what  *)
(* kind of header the lines are is chosen here.  Subject stands for the    *)
(* five fields that are only picked out.                                   *)
(***************************************************************************)
EXTENDS PostedArticle, FiniteSets

VARIABLES
  stage,          \* "none", "lines", then "hi", "nil" or "panic"
  stamper,        \* the id given, what the Stamper returns: each empty or not
  lines, at,      \* spla, and the line that is looked at
  last,           \* the header not yet written: its lines, by their numbers
  found,          \* has_path and has_id
  raw,            \* what is written
  hi              \* the fields: the lines they are from

article    == <<post, copied, dw, hbw, headw, bodyw, pc, head, body>>
header     == <<stage, stamper, lines, at, last, found, raw, hi>>
headerVars == <<post, copied, dw, hbw, headw, bodyw, pc, head, body,
                stage, stamper, lines, at, last, found, raw, hi>>

\* A line that begins with a blank is a fold.  The colon of a line may be its last
\* byte, or in a place where it does not end a name.  Where the message-id of the
\* line is the id that was given, "own" is TRUE.
Standard == {"message-id", "path", "subject"}
Line ==
  [name : Standard, colon : {"last", "inside"}, own : {FALSE}]
  \cup [name : {"message-id"}, colon : {"inside"}, own : {TRUE}]
  \cup [name : {"other"}, colon : {"none", "last", "inside", "far"}, own : {FALSE}]
  \cup [name : {"fold"}, colon : {"none", "last"}, own : {FALSE}]

NoField == <<>>
GivenId == <<0>>       \* from no line: the id given, or made by the Stamper
MadeId  == <<0, 0>>
Written == [is : {"line", "blank", "path", "id"}, n : Nat, seg : BOOLEAN]

HeaderTypeOK ==
  /\ stage \in {"none", "lines", "hi", "nil", "panic"}
  /\ stamper \in [given : BOOLEAN, id : BOOLEAN, seg : BOOLEAN]
  /\ lines \in Seq(Line)
  /\ at \in 0 .. Len(lines) + 2
  /\ last \in Seq(DOMAIN lines)
  /\ found \subseteq {"path", "message-id"}
  /\ raw \in Seq(Written)
  /\ hi.subject \in Seq(DOMAIN lines) /\ hi.id \in Seq(DOMAIN lines) \cup {GivenId, MadeId}

HeaderInit ==
  /\ Init
  /\ stage = "none"
  /\ stamper = [given |-> FALSE, id |-> FALSE, seg |-> FALSE]
  /\ lines = <<>> /\ at = 0 /\ last = <<>>
  /\ found = {}
  /\ raw = <<>>
  /\ hi = [subject |-> NoField, id |-> NoField]

-----------------------------------------------------------------------------
\* The lines of the head that are not empty, by the places where they begin.
HeadLines ==
  {p \in DOMAIN head :
     /\ p = 1 \/ head[p-1] = "lf"
     /\ \E q \in p .. Len(head) : head[q] \notin {"cr", "lf"} /\ OnlyCR(head, p-1, q-1)}
NumberOf(p) == Cardinality({q \in HeadLines : q <= p})

\* What the line from p on may be: only one that begins with other bytes has a
\* name that is known.
Kinds(p) ==
  IF head[p] = "other" THEN Line
  ELSE {k \in Line :
          /\ k.name = "other"
          /\ k.colon = "none" \/ \E q \in p+1 .. Len(head) : head[q] = "other" /\ \A j \in p .. q : head[j] # "lf"}

\* The backend has taken head and body, and calls with or without an id.
ParseAndProcessHeader ==
  /\ pc = "done"
  /\ lines' \in [1 .. Cardinality(HeadLines) -> Line]
  /\ \A p \in HeadLines : lines'[NumberOf(p)] \in Kinds(p)
  /\ stamper' \in [given : BOOLEAN, id : BOOLEAN, seg : BOOLEAN]
  /\ at' = 1
  /\ stage' = "lines"
  /\ pc' = "taken" /\ post' = <<>> /\ copied' = 0
  /\ headw' = <<>> /\ bodyw' = <<>> /\ head' = <<>> /\ body' = <<>>
  /\ dw' = [state |-> nlDotNl_start, end |-> FALSE]
  /\ hbw' = [state |-> 0, end |-> FALSE]
  /\ UNCHANGED <<last, found, raw, hi>>

IsFold == at <= Len(lines) /\ lines[at].name = "fold"

Fold ==
  /\ stage = "lines" /\ IsFold
  /\ last' = Append(last, at)
  /\ at' = at + 1
  /\ UNCHANGED <<article, stage, stamper, lines, found, raw, hi>>

\* The place in last of the first colon, or 0.
Colon ==
  LET c == {k \in DOMAIN last : lines[last[k]].colon # "none"}
  IN  IF c = {} THEN 0 ELSE CHOOSE k \in c : \A j \in c : k <= j

HasName    == Colon > 0 /\ lines[last[Colon]].colon # "far"
PastTheEnd == HasName /\ Colon = Len(last) /\ lines[last[Colon]].colon = "last"
Name       == IF HasName /\ Colon = 1 THEN lines[last[1]].name ELSE "other"

Header == stage = "lines" /\ ~ IsFold /\ at <= Len(lines) + 1 /\ last # <<>>

Stop(s) ==
  /\ stage' = s
  /\ UNCHANGED <<article, stamper, lines, at, last, found, raw, hi>>

\* The value begins two bytes behind the colon.
Panics == Header /\ PastTheEnd /\ Stop("panic")

\* A fault for the mutants: the folds do not count.
Owned_NoFolds == Name = "message-id" /\ stamper.given /\ lines[last[1]].own

\* The article has the id that was given.
Owned     == Name = "message-id" /\ stamper.given /\ lines[last[1]].own /\ Len(last) = 1
ReturnNil == Header /\ ~ PastTheEnd /\ Owned /\ Stop("nil")

Piece(is, n, seg) == <<[is |-> is, n |-> n, seg |-> seg]>>

\* A fold that is the first line of all has an empty line before it.
Blank == IF lines[last[1]].name = "fold" THEN Piece("blank", 0, FALSE) ELSE <<>>
Lines(seg) == [k \in DOMAIN last |-> [is |-> "line", n |-> last[k], seg |-> seg /\ k = 1]]

\* A fault for the mutants: a Path with its stamp is written also without.
WriteHeader_PathTwice ==
  raw' = raw \o Blank \o (IF Name = "path" /\ stamper.seg THEN Lines(TRUE) ELSE <<>>) \o Lines(FALSE)

WriteHeader == raw' = raw \o Blank \o Lines(Name = "path" /\ stamper.seg)

\* A fault for the mutants: a field keeps its first line only.
SetField_NoFolds ==
  hi' = CASE Name = "message-id" -> [hi EXCEPT !.id = last]
          [] Name = "subject"    -> [hi EXCEPT !.subject = <<last[1]>>]
          [] OTHER               -> hi

SetField ==
  hi' = CASE Name = "message-id" -> [hi EXCEPT !.id = last]
          [] Name = "subject"    -> [hi EXCEPT !.subject = last]
          [] OTHER               -> hi

\* The line behind the last is empty.
Begun == IF at <= Len(lines) THEN <<at>> ELSE <<>>

\* A line begins, or there is none: the header before it is complete.
NextLine ==
  /\ stage = "lines" /\ ~ IsFold /\ at <= Len(lines) + 1
  /\ IF last = <<>>
     THEN UNCHANGED <<raw, hi, found>>
     ELSE /\ ~ PastTheEnd /\ ~ Owned
          /\ WriteHeader /\ SetField
          /\ found' = found \cup ({Name} \cap {"path", "message-id"})
  /\ last' = Begun
  /\ at' = at + 1
  /\ UNCHANGED <<article, stage, stamper, lines>>

MessageId == IF stamper.given THEN GivenId ELSE IF stamper.id THEN MadeId ELSE NoField

AddMissing ==
  /\ stage = "lines" /\ at = Len(lines) + 2
  /\ hi' = [hi EXCEPT !.id = IF "message-id" \in found THEN @ ELSE MessageId]
  /\ raw' = raw \o (IF "path" \notin found /\ stamper.seg THEN Piece("path", 0, TRUE) ELSE <<>>)
                \o (IF "message-id" \notin found /\ MessageId # NoField THEN Piece("id", 0, FALSE) ELSE <<>>)
  /\ stage' = "hi"
  /\ UNCHANGED <<article, stamper, lines, at, last, found>>

HeaderNext ==
  \/ Next /\ UNCHANGED header
  \/ ParseAndProcessHeader \/ Fold \/ Panics \/ ReturnNil \/ NextLine \/ AddMissing

HeaderSpec == HeaderInit /\ [][HeaderNext]_headerVars

-----------------------------------------------------------------------------
(***************************************************************************)
(* What becomes of a header, said of its lines as they came in.            *)
(***************************************************************************)
\* The lines from n on up to the next one that is not a fold, n being a header.
FoldsOf(n) == {k \in n+1 .. Len(lines) : \A j \in n+1 .. k : lines[j].name = "fold"}
Entry(n)   == [k \in 1 .. 1 + Cardinality(FoldsOf(n)) |-> n + k - 1]
Named(name) == {n \in DOMAIN lines : lines[n].name = name}
LastNamed(name) == CHOOSE n \in Named(name) : \A k \in Named(name) : k <= n

\* The message-id of the article is the one that was given.
OwnId(n) == n \in Named("message-id") /\ lines[n].own /\ FoldsOf(n) = {}

\* No header is lost, repeated or moved: RAW is the lines of the head, and behind
\* them what was missing.  Only a head that begins with a fold gets an empty line,
\* with which RAW ends before its first line.  The server's stamp is in every Path,
\* or in one that is added, and nowhere else (ParseAndProcessHeaderWithBuffer,
\* posting/postingpull.go:153-240).
RawKept ==
  stage = "hi" =>
    LET own == {k \in DOMAIN raw : raw[k].is = "line"}
        off == IF lines # <<>> /\ lines[1].name = "fold" THEN 1 ELSE 0
    IN  /\ own = off+1 .. off + Len(lines)
        /\ \A k \in own : raw[k].n = k - off
        /\ \A k \in DOMAIN raw : raw[k].is = "blank" <=> k <= off
        /\ LET stamps == {k \in DOMAIN raw : raw[k].seg}
           IN  IF ~ stamper.seg THEN stamps = {}
               ELSE IF Named("path") = {} THEN \E k \in DOMAIN raw : stamps = {k} /\ raw[k].is = "path"
               ELSE {raw[k].n : k \in stamps} = Named("path") /\ stamps \subseteq own

\* HeadInfo has of each field the last header, with its folds.  An article without
\* a message-id gets the one that was given, or else one that is made; nothing
\* compares an id in the article with a different one that was given.
FieldsPicked ==
  stage = "hi" =>
    /\ hi.subject = IF Named("subject") = {} THEN NoField ELSE Entry(LastNamed("subject"))
    /\ IF Named("message-id") # {}
       THEN hi.id = Entry(LastNamed("message-id")) /\ \A k \in DOMAIN raw : raw[k].is # "id"
       ELSE /\ hi.id = IF stamper.given THEN GivenId ELSE IF stamper.id THEN MadeId ELSE NoField
            /\ hi.id # NoField => Cardinality({k \in DOMAIN raw : raw[k].is = "id"}) = 1

\* The function gives nothing back only for an article with the very id that was
\* given, and panics only where the first colon of a header is its last byte.
EndsEarly ==
  /\ stage = "nil" => stamper.given /\ \E n \in DOMAIN lines : OwnId(n)
  /\ stage = "panic" => \E n \in DOMAIN lines : FoldsOf(n) = {} /\ lines[n].colon = "last"
  /\ stage = "hi" => /\ ~ (stamper.given /\ \E n \in DOMAIN lines : OwnId(n))
                     /\ \A n \in DOMAIN lines : FoldsOf(n) = {} /\ lines[n].name # "fold" => lines[n].colon # "last"
=============================================================================

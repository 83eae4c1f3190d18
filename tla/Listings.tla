------------------------------- MODULE Listings -------------------------------
(***************************************************************************)
(* The commands whose response is a list: OVER and HDR (handleHeaders),    *)
(* LISTGROUP, LIST ACTIVE and LIST NEWSGROUPS (handleListGenericGroups).   *)
(* What they ask the backend, with pooled ArticleRange, Overview and       *)
(* ListActive objects, and the lines of the entries that it writes.        *)
(*                                                                         *)
(* A line is the sequence of its fields.  How lines become the bytes of a  *)
(* block is in DotWriting; here it matters only that a line which is a     *)
(* lone dot ends the block.  What these commands refuse is in Dialogue.    *)
(***************************************************************************)
EXTENDS Numbers, WildMat

CONSTANTS
  Ranges,         \* the ranges clients ask for
  Ids,            \* the message-ids
  IdOf,           \* the message-id of an article of the group, by number
  Overviews,      \* what a backend may write for an article
  Wildmats,       \* the wildmats of LIST
  MaxEntries      \* bound: entries of one list

Headers == {"subject", "from", "date", "message-id", "references", "bytes", "lines"}
Lengths == {"bytes", "lines"}
NoId    == "nil"
NoArg   == "none"

(***************************************************************************)
(* A range as the client means it, "5", "5-" or "5-7", and as it writes it.*)
(***************************************************************************)
TextOf(range) ==
  CASE range.kind = "one"  -> Decimal[range.from]
    [] range.kind = "open" -> Append(Decimal[range.from], dash)
    [] range.kind = "both" -> Decimal[range.from] \o <<dash>> \o Decimal[range.to]

Int64 == -Top .. MaxInt

ASSUME ListingsAssumption ==
  /\ Ranges \subseteq [kind : {"one", "open", "both"}, from : Nat, to : Nat]
  /\ NoId \notin Ids
  /\ IdOf \in Seq(Ids) /\ Len(IdOf) <= MaxInt
  /\ \A e \in Overviews : /\ DOMAIN e = Headers \cup {"num"}
                          /\ e.num \in 0 .. MaxInt
                          /\ e.bytes \in Int64 /\ e.lines \in Int64
  /\ Wildmats \subseteq Seq(Elements)
  /\ MaxEntries \in Nat

VARIABLES
  stage,          \* "command", "asked", "entries", "numbers" or "groups"
  cur,            \* the session: whether a group is selected, groupCursor, groupCurId
  asked,          \* the last command: its verb, the form of its argument, the argument, and field or mode
  ar,             \* the pooled ArticleRange
  span,           \* the numbers that LISTGROUP asks for
  ov,             \* the mode of the pooled Overview
  ila,            \* the pooled ListActive: its mode and wildmat
  entries,        \* history: what the backend has written for this command
  block           \* the lines of the response, up to the one that ends it

listVars == <<stage, cur, asked, ar, span, ov, ila, entries, block>>

Modes  == {"LAM_Full", "LAM_Active", "LAM_Newsgroups"}
NoWild == <<>>    \* nil: a WildMat has at least one rule set
Ask(verb, form, arg, what) == [verb |-> verb, form |-> form, arg |-> arg, what |-> what]
NoCommand == Ask("none", "none", NoArg, NoArg)

ListTypeOK ==
  /\ stage \in {"command", "asked", "entries", "numbers", "groups"}
  /\ cur \in [group : BOOLEAN, num : -1 .. Len(IdOf), id : Ids \cup {NoId}]
  /\ asked.verb \in {"none", "over", "hdr", "listgroup", "list"}
  /\ ar \in [hasId : BOOLEAN, hasNum : BOOLEAN, group : BOOLEAN, id : Ids \cup {NoId}, num : Int64, last : Int64]
  /\ span \in Int64 \X Int64
  /\ ov \in 0 .. 7
  /\ ila.mode \in Modes /\ (ila.wm = NoWild \/ ila.wm \in Seq(RuleSet))
  /\ Len(entries) <= MaxEntries /\ Len(block) <= Len(entries)
  /\ stage = "command" => ar.id = NoId /\ ~ ar.group /\ ila.wm = NoWild /\ asked = NoCommand

\* The pooled objects are new, or another session has used them.
ListInit ==
  /\ stage = "command"
  /\ cur = [group |-> FALSE, num |-> 0, id |-> NoId]
  /\ asked = NoCommand
  /\ \E b \in BOOLEAN, n \in {0, MaxInt} :
       ar = [hasId |-> b, hasNum |-> b, group |-> FALSE, id |-> NoId, num |-> n, last |-> n]
  /\ span = <<0, 0>>
  /\ ov = 0
  /\ ila \in [mode : Modes, wm : {NoWild}]
  /\ entries = <<>> /\ block = <<>>

\* GROUP, ARTICLE, NEXT and the other commands that choose an article (see Session).
Move ==
  /\ stage = "command"
  /\ cur' \in [group : {TRUE}, num : {-1}, id : {NoId}]
              \cup {[group |-> TRUE, num |-> n, id |-> IdOf[n]] : n \in DOMAIN IdOf}
  /\ UNCHANGED <<stage, asked, ar, span, ov, ila, entries, block>>

\* The command is over, and with it its locals and its history.
ListEnd == stage' = "command" /\ asked' = NoCommand /\ entries' = <<>> /\ block' = <<>>

-----------------------------------------------------------------------------
(***************************************************************************)
(* OVER and HDR: the ArticleRange is filled and goes to WriteOverview.     *)
(***************************************************************************)
AskCurrent ==
  /\ cur.group /\ cur.id # NoId
  /\ ar' = [hasId |-> TRUE, hasNum |-> TRUE, group |-> TRUE,
            id |-> cur.id, num |-> cur.num, last |-> cur.num]

\* The last number of the range that is asked for.
LastOf(ran) == IF ran[2] < ran[1] \/ ran[2] = MaxInt THEN ran[1] ELSE ran[2]

\* A fault for the mutants: the message-id of the current article is given
\* with any range that begins with it.
AskRange_FirstIsAll(range) ==
  /\ cur.group
  /\ LET ran == ParseRange(TextOf(range))
     IN  ar' = [hasId |-> ran[1] = cur.num, hasNum |-> TRUE,
                group |-> TRUE, id |-> cur.id, num |-> ran[1], last |-> LastOf(ran)]

AskRange(range) ==
  /\ cur.group
  /\ LET ran == ParseRange(TextOf(range))
     IN  ar' = [hasId |-> ran[1] = cur.num /\ ran[1] = LastOf(ran), hasNum |-> TRUE,
                group |-> TRUE, id |-> cur.id, num |-> ran[1], last |-> LastOf(ran)]

\* LastNumber and Group stay as they are.
AskId(id) == ar' = [ar EXCEPT !.hasNum = FALSE, !.hasId = TRUE, !.num = 0, !.id = id]

handleHeaders(verb, what) ==
  /\ stage = "command"
  /\ \/ AskCurrent /\ asked' = Ask(verb, "none", NoArg, what)
     \/ \E range \in Ranges : AskRange(range) /\ asked' = Ask(verb, "range", range, what)
     \/ \E id \in Ids : AskId(id) /\ asked' = Ask(verb, "id", id, what)
  /\ stage' = "asked"
  /\ UNCHANGED <<cur, span, ov, ila, entries, block>>

handleXOver == handleHeaders("over", NoArg)
handleXHdr  == \E field \in Headers : handleHeaders("hdr", field)

pool_ArticleRange_put == ar' = [ar EXCEPT !.id = NoId, !.group = FALSE]

\* The backend has nothing: 420, 423 or 430.
NotFound ==
  /\ stage = "asked"
  /\ pool_ArticleRange_put
  /\ ListEnd
  /\ UNCHANGED <<cur, span, ov, ila>>

handleXHdr_hdrs ==
  [field \in Headers |->
     CASE field = "subject" -> 1 [] field = "from" -> 2 [] field = "date" -> 3 [] field = "message-id" -> 4
       [] field = "references" -> 5 [] field = "bytes" -> 6 [] field = "lines" -> 7]

Found ==
  /\ stage = "asked"
  /\ ov' = IF asked.verb = "over" THEN 0 ELSE handleXHdr_hdrs[asked.what]
  /\ stage' = "entries"
  /\ UNCHANGED <<cur, asked, ar, span, ila, entries, block>>

OverLine(e) == <<AppendUint(e.num), e.subject, e.from, e.date, e["message-id"], e.references,
                 AppendUint(e.bytes), AppendUint(e.lines)>>

LineOf(e) ==
  CASE ov = 0 -> OverLine(e) [] ov = 1 -> <<e.subject>> [] ov = 2 -> <<e.from>> [] ov = 3 -> <<e.date>>
    [] ov = 4 -> <<e["message-id"]>> [] ov = 5 -> <<e.references>>
    [] ov = 6 -> <<AppendUint(e.bytes)>> [] ov = 7 -> <<AppendUint(e.lines)>>

\* The DotWriter passes nothing on behind a line that is a lone dot.
loneDot   == <<<<46>>>>
Ended     == \E n \in DOMAIN block : block[n] = loneDot
Show(line) == block' = IF Ended THEN block ELSE Append(block, line)

\* The backend writes the entries of what was asked, in the order of their numbers.
WriteEntry(e) ==
  /\ stage = "entries" /\ Len(entries) < MaxEntries
  /\ ar.hasNum => e.num \in ar.num .. ar.last
  /\ entries # <<>> => ar.hasNum /\ e.num > entries[Len(entries)].num
  /\ entries' = Append(entries, e)
  /\ Show(LineOf(e))
  /\ UNCHANGED <<stage, cur, asked, ar, span, ov, ila>>

HeadersDone ==
  /\ stage = "entries"
  /\ ov' = 0
  /\ pool_ArticleRange_put
  /\ ListEnd
  /\ UNCHANGED <<cur, span, ila>>

-----------------------------------------------------------------------------
(***************************************************************************)
(* LISTGROUP.  The backend writes the numbers itself.                      *)
(***************************************************************************)
handleListgroup ==
  /\ stage = "command"
  /\ \/ span' = ParseRange(<<>>) /\ asked' = Ask("listgroup", "none", NoArg, NoArg)
     \/ \E range \in Ranges :
          span' = ParseRange(TextOf(range)) /\ asked' = Ask("listgroup", "range", range, NoArg)
  /\ stage' = "numbers"
  /\ UNCHANGED <<cur, ar, ov, ila, entries, block>>

NumbersDone ==
  /\ stage = "numbers"
  /\ span' = <<0, 0>>
  /\ ListEnd
  /\ UNCHANGED <<cur, ar, ov, ila>>

-----------------------------------------------------------------------------
(***************************************************************************)
(* LIST ACTIVE and LIST NEWSGROUPS.  A wildmat that does not compile is    *)
(* left out; the backend is given the wildmat and the ListActive.          *)
(***************************************************************************)
reset(mode, wm) == ila' = [mode |-> mode, wm |-> wm]

handleListGenericGroups(mode) ==
  /\ stage = "command"
  /\ \/ reset(mode, NoWild) /\ asked' = Ask("list", "none", NoArg, mode)
     \/ \E w \in Wildmats : /\ reset(mode, IF Compiles(w) THEN ParseWildMat(w) ELSE NoWild)
                            /\ asked' = Ask("list", "wildmat", w, mode)
  /\ stage' = "groups"
  /\ UNCHANGED <<cur, ar, span, ov, entries, block>>

match(name) == ila.wm = NoWild \/ Match(ila.wm, name)

\* WriteFullInfo, or the one of WriteActive and WriteNewsgroups that is for the mode.
WriteGroup(name) ==
  /\ stage = "groups" /\ ila.mode # "LAM_Full"
  /\ \A n \in DOMAIN entries : entries[n] # name
  /\ Len(entries) < MaxEntries
  /\ entries' = Append(entries, name)
  /\ IF match(name) THEN Show(<<name, ila.mode>>) ELSE UNCHANGED block
  /\ UNCHANGED <<stage, cur, asked, ar, span, ov, ila>>

GroupsDone ==
  /\ stage = "groups"
  /\ reset("LAM_Active", NoWild)
  /\ ListEnd
  /\ UNCHANGED <<cur, ar, span, ov>>

-----------------------------------------------------------------------------
ListNext ==
  \/ Move
  \/ handleXOver \/ handleXHdr \/ NotFound \/ Found \/ HeadersDone
  \/ \E e \in Overviews : WriteEntry(e)
  \/ handleListgroup \/ NumbersDone
  \/ handleListGenericGroups("LAM_Active") \/ handleListGenericGroups("LAM_Newsgroups") \/ GroupsDone
  \/ \E name \in Names : WriteGroup(name)

ListSpec == ListInit /\ [][ListNext]_listVars

-----------------------------------------------------------------------------
(* Safety *)

Fits(range) == range.from <= MaxInt /\ range.to < MaxInt

\* LISTGROUP asks for all numbers when the client names none, and for the numbers
\* from the first to the second when it names both.  One number stands for all from
\* it on, and the dash behind it makes the end zero (handleListgroup,
\* nntpdecoder.go:284; ParseRange, bconv.go:54-65).
SpanAsked ==
  asked.verb = "listgroup" =>
    /\ asked.form = "none" => \A n \in 0 .. MaxInt : span[1] <= n /\ n <= span[2]
    /\ asked.form = "range" /\ Fits(asked.arg) =>
         /\ span[1] = asked.arg.from
         /\ asked.arg.kind = "both" => span[2] = asked.arg.to
         /\ asked.arg.kind = "one"  => span[2] = MaxInt
         /\ asked.arg.kind = "open" => span[2] = 0

\* A backend that heeds HasNum and HasId sees nothing of an earlier use of its
\* ArticleRange: the numbers are those the client asked for, unless they are too
\* large, and the message-id is the one it named, or that of the only article
\* asked for (handleHeaders, nntpdecoder.go:944-978).  A range without an end is
\* taken for its first number, but not by LISTGROUP.
AskedOfBackend ==
  /\ SpanAsked
  /\ stage \in {"asked", "entries"} =>
      /\ ar.hasNum \/ ar.hasId
      /\ asked.form = "id" => ~ ar.hasNum /\ ar.hasId /\ ar.id = asked.arg /\ ~ ar.group
      /\ asked.form = "none" => ar.hasNum /\ ar.num = cur.num /\ ar.last = cur.num
      /\ asked.form = "range" /\ Fits(asked.arg) =>
           /\ ar.hasNum /\ ar.num = asked.arg.from
           /\ ar.last = IF asked.arg.kind = "both" /\ asked.arg.to > ar.num THEN asked.arg.to ELSE ar.num
      /\ ar.hasNum => ar.group /\ ar.num <= ar.last
      /\ ar.hasNum /\ ar.hasId /\ ar.num >= 0 => ar.num = ar.last /\ ar.id = IdOf[ar.num]

\* What the client reads in the lines of OVER and HDR is what the backend has
\* written: the fields asked for, of each article, and the numbers as they were.
\* In HDR a value that is a lone dot, as AppendUint writes -2, ends the list.
EntriesShown ==
  /\ asked.verb = "over" =>
       /\ Len(block) = Len(entries)
       /\ \A n \in DOMAIN block : LET l == block[n] e == entries[n] IN
            /\ ParseUint(l[1]) = e.num
            /\ l[2] = e.subject /\ l[3] = e.from /\ l[4] = e.date
            /\ l[5] = e["message-id"] /\ l[6] = e.references
            /\ e.bytes >= 0 => ParseUint(l[7]) = e.bytes
            /\ e.lines >= 0 => ParseUint(l[8]) = e.lines
  /\ asked.verb = "hdr" =>
       /\ Len(block) = Len(entries) \/ Ended
       /\ \A n \in DOMAIN block : LET v == entries[n][asked.what] IN
            /\ asked.what \notin Lengths => block[n] = <<v>>
            /\ asked.what \in Lengths /\ v >= 0 => ParseUint(block[n][1]) = v

\* A name is let in by a pattern, and no negation between this pattern and the
\* next pattern behind a negation throws it out.
NextRun(w, k) == {j \in k+1 .. Len(w) : ~ w[j].neg /\ \E m \in k+1 .. j-1 : w[m].neg}
LetIn(w, name) ==
  \E k \in DOMAIN w :
    /\ ~ w[k].neg /\ name \in w[k].names
    /\ \A j \in k+1 .. Len(w) :
         w[j].neg /\ name \in w[j].names => \E m \in NextRun(w, k) : m < j

\* RFC 3977 (4.2): the last element that matches a name decides.
Rightmost(w, name) ==
  \E k \in DOMAIN w : /\ ~ w[k].neg /\ name \in w[k].names
                      /\ \A j \in k+1 .. Len(w) : name \notin w[j].names

\* LIST shows, in the form of its mode, exactly the groups that its wildmat lets
\* in, of those the backend has gone over: all of those that RFC 3977 lets in, and
\* just those if no pattern stands behind a negation (WildMat.Match,
\* wildmat.go:42-47; handleListGenericGroups, nntpdecoder.go:1107-1134).
Listed(name) == \E n \in DOMAIN block : block[n] = <<name, asked.what>>
GroupsListed ==
  asked.verb = "list" =>
    LET w == asked.arg
        all == asked.form = "none" \/ ~ Compiles(w)
    IN  /\ Len(block) <= Len(entries)
        /\ \A n \in DOMAIN block : \E k \in DOMAIN entries : block[n] = <<entries[k], asked.what>>
        /\ \A k \in DOMAIN entries : Listed(entries[k]) <=> all \/ LetIn(w, entries[k])
        /\ \A k \in DOMAIN entries : ~ all =>
             /\ Rightmost(w, entries[k]) => Listed(entries[k])
             /\ (\A m \in DOMAIN w : NextRun(w, m) = {}) => (Listed(entries[k]) => Rightmost(w, entries[k]))
===============================================================================

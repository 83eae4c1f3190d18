------------------------------ MODULE Session ------------------------------
(***************************************************************************)
(* The reader commands of one NNTP session (nntpdecoder.go) over a news    *)
(* store that changes while the session runs: the selected group, the      *)
(* current article and the reused buffers its name and message-id live in. *)
(*                                                                         *)
(* A slice of a reused buffer is modelled by the buffer it points into, so *)
(* that a later write to the buffer changes what the slice reads.  The     *)
(* store is outside the library (GroupCaps and ArticleCaps): articles      *)
(* arrive under increasing numbers and expire at any time.  A handler is   *)
(* one action for each call of the store it makes.                         *)
(***************************************************************************)
EXTENDS Integers

CONSTANTS
  Groups,         \* the groups the store has
  Names,          \* the names clients ask for
  MaxNum,         \* bound: the highest article number
  Ids,            \* the message-ids
  IdAt,           \* the message-id of an article, by group and number
  NoId,           \* what a buffer holds that has no message-id
  NoName,         \* no group was chosen
  Scribblers      \* the lookups that may write to the id slice and yet fail

Nums    == 1 .. MaxNum
Lookups == {"StatArticle", "GetArticle", "CursorMoveGroup"}

ASSUME SessionAssumption ==
  /\ Groups \subseteq Names
  /\ NoName \notin Names
  /\ MaxNum \in Nat \ {0}
  /\ NoId \notin Ids
  /\ IdAt \in [Groups -> [Nums -> Ids]]
  /\ Scribblers \subseteq Lookups

VARIABLES
  pc,             \* "idle" between commands, "first" and "firstMove" in GROUP, "closed"
  group,          \* nntpHandler.group: the marks read by GetGroup
  groupBuf,       \* groupBuffer, which group.Group points to
  cursor,         \* groupCursor
  curId,          \* groupCurId, a slice
  buf,            \* the contents of idBuffer and tmpIdBuffer
  reply,          \* the response to the last command
  chosen,         \* history: the group the client last selected successfully
  live,           \* the store: the articles each group has now
  high            \* the store: the highest number each group ever gave

store   == <<live, high>>
current == <<group, groupBuf, cursor, curId>>
vars    == <<pc, group, groupBuf, cursor, curId, buf, reply, chosen, live, high>>

NoGroup == [low |-> 0, high |-> 0]
NilId   == [at |-> "nil", id |-> NoId]
Slices  == [at : {"nil", "idBuf", "tmpBuf", "own"}, id : Ids \cup {NoId}]
Replies == [cmd : {"none", "GROUP", "LISTGROUP", "LAST", "NEXT", "STAT", "ARTICLE", "OVER"},
            code : 0 .. 599, num : 0 .. MaxNum, id : Ids \cup {NoId}]

Answer(c, k, n, id) == [cmd |-> c, code |-> k, num |-> n, id |-> id]
Short(c, k)         == Answer(c, k, 0, NoId)

TypeOK ==
  /\ pc \in {"idle", "first", "firstMove", "closed"}
  /\ group \in [low : 0 .. MaxNum+1, high : 0 .. MaxNum]
  /\ groupBuf \in Groups \cup {NoName}
  /\ cursor \in -1 .. MaxNum
  /\ curId \in Slices
  /\ buf \in [{"idBuf", "tmpBuf"} -> Ids \cup {NoId}]
  /\ reply \in Replies
  /\ chosen \in Groups \cup {NoName}
  /\ live \in [Groups -> SUBSET Nums]
  /\ high \in [Groups -> 0 .. MaxNum]

Init ==
  /\ pc = "idle"
  /\ group = NoGroup /\ groupBuf = NoName
  /\ cursor = 0 /\ curId = NilId
  /\ buf = [b \in {"idBuf", "tmpBuf"} |-> NoId]
  /\ reply = Short("none", 200)
  /\ chosen = NoName
  /\ live = [g \in Groups |-> {}] /\ high = [g \in Groups |-> 0]

-----------------------------------------------------------------------------
(***************************************************************************)
(* The store.                                                              *)
(***************************************************************************)
Arrive(g) ==
  /\ high[g] < MaxNum
  /\ high' = [high EXCEPT ![g] = @ + 1]
  /\ live' = [live EXCEPT ![g] = @ \cup {high[g] + 1}]
  /\ UNCHANGED <<pc, current, buf, reply, chosen>>

Expire(g, n) ==
  /\ n \in live[g]
  /\ live' = [live EXCEPT ![g] = @ \ {n}]
  /\ UNCHANGED <<pc, current, buf, reply, chosen, high>>

\* The low water mark GetGroup reports: no article lies below it.
IsLowMark(g, n) == n \in 1 .. high[g] + 1 /\ \A m \in live[g] : n <= m

\* The article after, or before, number k: what CursorMoveGroup looks for.
IsAfter(g, k, n)  == n \in live[g] /\ n > k /\ \A m \in live[g] : m > k => n <= m
IsBefore(g, k, n) == n \in live[g] /\ n < k /\ \A m \in live[g] : m < k => m <= n

Known(id) == \E g \in Groups : \E n \in live[g] : IdAt[g][n] = id

(***************************************************************************)
(* Message-ids in memory.  A lookup that succeeds sets the message-id: it  *)
(* is appended to the slice the handler passes, which is in the buffer b   *)
(* or, when it does not fit, in memory of its own.                         *)
(***************************************************************************)
Deref(mem, s) == IF s.at \in {"idBuf", "tmpBuf"} THEN mem[s.at] ELSE s.id

Stored(b, id) ==
  {[id |-> [at |-> b, id |-> NoId], mem |-> [buf EXCEPT ![b] = id]],
   [id |-> [at |-> "own", id |-> id], mem |-> buf]}

\* A lookup that fails.
Missed(lookup, b) ==
  \/ UNCHANGED buf
  \/ lookup \in Scribblers /\ buf' = [buf EXCEPT ![b] = NoId]

-----------------------------------------------------------------------------
(***************************************************************************)
(* GROUP (handleGroup, selectFirstArticle).                                *)
(***************************************************************************)
Idle     == pc = "idle"
Selected == Idle /\ group # NoGroup
Invalid  == cursor < 0

\* The command changes nothing of the position; buf is left to the caller.
JustAnswer(c, k) ==
  /\ reply' = Short(c, k)
  /\ UNCHANGED <<pc, current, chosen, store>>

GroupMissing ==
  /\ Idle
  /\ Names \ Groups # {}
  /\ JustAnswer("GROUP", 411)
  /\ UNCHANGED buf

\* A fault for the mutants: the old current article stays in force.
GroupFound_KeepsPosition(g) ==
  /\ Idle
  /\ \E n \in 1 .. MaxNum+1 : IsLowMark(g, n) /\ group' = [low |-> n, high |-> high[g]]
  /\ groupBuf' = g
  /\ pc' = "first"
  /\ reply' = Short("none", 0)
  /\ chosen' = g
  /\ UNCHANGED <<cursor, curId, buf, store>>

GroupFound(g) ==
  /\ Idle
  /\ \E n \in 1 .. MaxNum+1 : IsLowMark(g, n) /\ group' = [low |-> n, high |-> high[g]]
  /\ groupBuf' = g
  /\ cursor' = -1 /\ curId' = NilId
  /\ pc' = "first"
  /\ reply' = Short("none", 0)
  /\ chosen' = g
  /\ UNCHANGED <<buf, store>>

\* A fault for the mutants: the message-id is not replaced with the number.
MoveTo_KeepsId(n, b) ==
  /\ cursor' = n
  /\ UNCHANGED <<group, groupBuf, curId, buf>>

\* The current article becomes number n of the selected group, and its
\* message-id is set in buffer b.
MoveTo(n, b) ==
  /\ cursor' = n
  /\ \E s \in Stored(b, IdAt[groupBuf][n]) : curId' = s.id /\ buf' = s.mem
  /\ UNCHANGED <<group, groupBuf>>

\* The article at the low water mark is still there.
FirstHit ==
  /\ pc = "first"
  /\ group.low \in live[groupBuf]
  /\ MoveTo(group.low, "idBuf")
  /\ pc' = "idle"
  /\ reply' = Short("GROUP", 211)
  /\ UNCHANGED <<chosen, store>>

\* A fault for the mutants: without a first article at the mark, none is looked
\* for.
FirstMiss_GivesUp ==
  /\ pc = "first"
  /\ group.low \notin live[groupBuf]
  /\ Missed("StatArticle", "idBuf")
  /\ pc' = "idle"
  /\ reply' = Short("GROUP", 211)
  /\ UNCHANGED <<current, chosen, store>>

FirstMiss ==
  /\ pc = "first"
  /\ group.low \notin live[groupBuf]
  /\ Missed("StatArticle", "idBuf")
  /\ pc' = "firstMove"
  /\ UNCHANGED <<current, reply, chosen, store>>

\* The store looks for the first article after -1.
FirstMoves ==
  /\ pc = "firstMove"
  /\ \E n \in Nums : IsAfter(groupBuf, -1, n) /\ MoveTo(n, "idBuf")
  /\ pc' = "idle"
  /\ reply' = Short("GROUP", 211)
  /\ UNCHANGED <<chosen, store>>

FirstFails ==
  /\ pc = "firstMove"
  /\ ~ \E n \in Nums : IsAfter(groupBuf, -1, n)
  /\ Missed("CursorMoveGroup", "idBuf")
  /\ pc' = "idle"
  /\ reply' = Short("GROUP", 211)
  /\ UNCHANGED <<current, chosen, store>>

(***************************************************************************)
(* LISTGROUP (handleListgroup): the group named, or the selected one; it   *)
(* selects nothing.                                                        *)
(***************************************************************************)
HandleListgroup ==
  /\ Idle
  /\ \/ group = NoGroup           /\ JustAnswer("LISTGROUP", 412)
     \/ Names \ Groups # {}       /\ JustAnswer("LISTGROUP", 411)
     \/ group # NoGroup           /\ JustAnswer("LISTGROUP", 211)
     \/ Groups # {}               /\ JustAnswer("LISTGROUP", 211)
  /\ UNCHANGED buf

-----------------------------------------------------------------------------
(***************************************************************************)
(* LAST and NEXT.  Without a current article they start just outside the   *)
(* marks GROUP has read.                                                   *)
(***************************************************************************)
LastFrom == IF Invalid THEN group.high + 1 ELSE cursor

\* A fault for the mutants: the low water mark itself is passed over.
NextFrom_AtLow == IF Invalid THEN group.low ELSE cursor

NextFrom == IF Invalid THEN group.low - 1  ELSE cursor

\* The answer names the article by the slice the session keeps.
Answered(c, k, n) == reply' = Answer(c, k, n, Deref(buf', curId'))

HandleLast ==
  /\ Selected
  /\ \/ /\ \E n \in Nums : IsBefore(groupBuf, LastFrom, n) /\ MoveTo(n, "idBuf") /\ Answered("LAST", 223, n)
        /\ UNCHANGED <<pc, chosen, store>>
     \/ /\ ~ \E n \in Nums : IsBefore(groupBuf, LastFrom, n)
        /\ Missed("CursorMoveGroup", "idBuf")
        /\ JustAnswer("LAST", 422)

HandleNext ==
  /\ Selected
  /\ \/ /\ \E n \in Nums : IsAfter(groupBuf, NextFrom, n) /\ MoveTo(n, "idBuf") /\ Answered("NEXT", 223, n)
        /\ UNCHANGED <<pc, chosen, store>>
     \/ /\ ~ \E n \in Nums : IsAfter(groupBuf, NextFrom, n)
        /\ Missed("CursorMoveGroup", "idBuf")
        /\ JustAnswer("NEXT", 421)

-----------------------------------------------------------------------------
(***************************************************************************)
(* STAT, ARTICLE, HEAD and BODY.  A number is parsed without a check for   *)
(* overflow (ParseUint): it may come out as -1, the value of the cursor    *)
(* without a current article.                                              *)
(***************************************************************************)
Parsed == -1 .. MaxNum+1

\* The selected group has the article: what the store answers to a number.
Found(n) == n \in live[groupBuf]

\* The session's own article is asked for: its message-id is passed along
\* instead of a buffer to fill.
IsCurrent(n) == n = cursor

Unmoved(c, k) ==
  /\ UNCHANGED <<pc, current, buf, chosen, store>>
  /\ Answered(c, k, cursor)

\* A fault for the mutants: the cursor is set before the store is asked.
NumberMissing_CursorFirst(c, n, lookup, b) ==
  /\ ~ Found(n)
  /\ cursor' = n
  /\ reply' = Short(c, 423)
  /\ UNCHANGED <<pc, group, groupBuf, curId, buf, chosen, store>>

\* No such number: the lookup had a buffer to fill, except for the current one.
NumberMissing(c, n, lookup, b) ==
  /\ ~ Found(n)
  /\ IF IsCurrent(n) THEN UNCHANGED buf ELSE Missed(lookup, b)
  /\ JustAnswer(c, 423)

\* By message-id, in any state of the session.
ById(c, k) ==
  /\ Idle
  /\ \E id \in Ids :
       IF Known(id)
       THEN reply' = Answer(c, k, 0, id) /\ UNCHANGED <<pc, current, chosen, store>>
       ELSE JustAnswer(c, 430)
  /\ UNCHANGED buf

\* STAT without an argument asks nobody.
HandleStatCurrent ==
  /\ Selected
  /\ \/ curId = NilId /\ JustAnswer("STAT", 420) /\ UNCHANGED buf
     \/ curId # NilId /\ Unmoved("STAT", 223)

HandleStatNumber ==
  /\ Selected
  /\ \E n \in Parsed :
       \/ Found(n) /\ IsCurrent(n) /\ Unmoved("STAT", 223)
       \/ /\ Found(n) /\ ~ IsCurrent(n)
          /\ MoveTo(n, "idBuf")
          /\ Answered("STAT", 223, n)
          /\ UNCHANGED <<pc, chosen, store>>
       \/ NumberMissing("STAT", n, "StatArticle", "idBuf")

HandleStatId == ById("STAT", 223)

HandleArticleCurrent ==
  /\ Selected
  /\ \/ (curId = NilId \/ ~ Found(cursor)) /\ JustAnswer("ARTICLE", 420) /\ UNCHANGED buf
     \/ curId # NilId /\ Found(cursor) /\ Unmoved("ARTICLE", 220)

\* A fault for the mutants: the message-id stays in the secondary buffer.
FetchNumber_NoCopy(n) ==
  /\ MoveTo(n, "tmpBuf")
  /\ Answered("ARTICLE", 220, n)

\* GetArticle sets the message-id in tmpIdBuffer, the answer reads it there,
\* and the session keeps a copy in idBuffer.
FetchNumber(n) ==
  /\ cursor' = n
  /\ \E s \in Stored("tmpBuf", IdAt[groupBuf][n]) :
       /\ reply' = Answer("ARTICLE", 220, n, Deref(s.mem, s.id))
       /\ \/ /\ curId' = [at |-> "idBuf", id |-> NoId]
             /\ buf' = [s.mem EXCEPT !["idBuf"] = Deref(s.mem, s.id)]
          \/ /\ curId' = [at |-> "own", id |-> Deref(s.mem, s.id)]
             /\ buf' = s.mem
  /\ UNCHANGED <<group, groupBuf>>

HandleArticleNumber ==
  /\ Selected
  /\ \E n \in Parsed :
       \/ Found(n) /\ IsCurrent(n) /\ Unmoved("ARTICLE", 220)
       \/ Found(n) /\ ~ IsCurrent(n) /\ FetchNumber(n) /\ UNCHANGED <<pc, chosen, store>>
       \/ NumberMissing("ARTICLE", n, "GetArticle", "tmpBuf")

HandleArticleId == ById("ARTICLE", 220)

(***************************************************************************)
(* OVER, XOVER, HDR and XHDR (handleHeaders): no form moves the position.  *)
(***************************************************************************)
RangeAnswer(n, l) ==
  LET last == IF l < n THEN n ELSE l
  IN  IF \E m \in Nums : m \in n .. last /\ Found(m) THEN 224 ELSE 423

HandleHeaders ==
  /\ Idle
  /\ \/ /\ group # NoGroup
        /\ JustAnswer("OVER", IF curId # NilId /\ Found(cursor) THEN 224 ELSE 420)
     \/ /\ group # NoGroup
        /\ \E k \in {RangeAnswer(n, l) : n, l \in Parsed} : JustAnswer("OVER", k)
     \/ \E k \in {IF Known(id) THEN 224 ELSE 430 : id \in Ids} : JustAnswer("OVER", k)
  /\ UNCHANGED buf

\* Without a group, every command that needs one is refused.
HandleUnselected ==
  /\ Idle
  /\ group = NoGroup
  /\ \E c \in {"LAST", "NEXT", "STAT", "ARTICLE", "OVER"} : JustAnswer(c, 412)
  /\ UNCHANGED buf

-----------------------------------------------------------------------------
(***************************************************************************)
(* The end of the session, by QUIT, a lost connection or a failed write,   *)
(* and the next session, served with the same pooled nntpHandler.  The     *)
(* buffers keep their contents.                                            *)
(***************************************************************************)
\* A fault for the mutants: release forgets the group.
release_KeepsGroup ==
  /\ cursor' = 0 /\ curId' = NilId
  /\ UNCHANGED <<group, groupBuf, buf>>

release ==
  /\ group' = NoGroup
  /\ cursor' = 0 /\ curId' = NilId
  /\ UNCHANGED <<groupBuf, buf>>

Ends ==
  /\ Idle
  /\ pc' = "closed"
  /\ release
  /\ reply' = Short("none", 205)
  /\ UNCHANGED <<chosen, store>>

ServeConn ==
  /\ pc = "closed"
  /\ pc' = "idle"
  /\ reply' = Short("none", 200)
  /\ chosen' = NoName
  /\ UNCHANGED <<current, buf, store>>

-----------------------------------------------------------------------------
Store == \E g \in Groups : Arrive(g) \/ \E n \in Nums : Expire(g, n)

Select ==
  \/ GroupMissing \/ \E g \in Groups : GroupFound(g)
  \/ FirstHit \/ FirstMiss \/ FirstMoves \/ FirstFails

Retrieve ==
  \/ HandleListgroup \/ HandleLast \/ HandleNext
  \/ HandleStatCurrent \/ HandleStatNumber \/ HandleStatId
  \/ HandleArticleCurrent \/ HandleArticleNumber \/ HandleArticleId
  \/ HandleHeaders \/ HandleUnselected

Next == Store \/ Select \/ Retrieve \/ Ends \/ ServeConn

Spec == Init /\ [][Next]_vars

-----------------------------------------------------------------------------
(* Safety *)

\* The current article is one thing: the number and the message-id the
\* session keeps name the same article of the selected group, whatever was
\* written since to the buffers that hold the group's name and the
\* message-id (handleStat, handleArticleInternal, handleNext, handleLast).
Coherent ==
  \/ cursor = -1 /\ curId = NilId
  \/ /\ cursor \in Nums
     /\ curId # NilId
     /\ Deref(buf, curId) = IdAt[groupBuf][cursor]

PositionCoherent == group # NoGroup => Coherent

\* An answer that names an article by its number gives that article's
\* message-id, and the article belongs to the selected group.
ReplyCoherent == pc = "idle" /\ reply.num > 0 => reply.id = IdAt[groupBuf][reply.num]

\* The selected group is the one this client selected last, not one a GROUP
\* command was refused for and not one of an earlier session that used the
\* same pooled nntpHandler (handleGroup, release).
GroupIsChosen == group # NoGroup => groupBuf = chosen

\* The comment of selectFirstArticle (nntpdecoder.go:352-355): a refused
\* command changes neither the selected group nor the current article.
Position == <<group, groupBuf, cursor, Deref(buf, curId)>>
RefusedKeepsPosition == [][reply'.code >= 400 => Position' = Position]_vars

\* GROUP ends with the first article the group has at that moment, or with
\* none if it is empty, although articles expire while it looks.
SelectsFirst ==
  pc \in {"first", "firstMove"} /\ pc' = "idle" =>
    \/ live[groupBuf] = {} /\ cursor' = -1
    \/ IsAfter(groupBuf, -1, cursor')
GroupSelectsFirst == [][SelectsFirst]_vars

\* NEXT and LAST pass over no article, also when they start from the marks
\* GROUP read long ago, and they fail only at the end of the group.
Answers(c, k) == store' = store /\ reply'.cmd = c /\ reply'.code = k
SkipsNothing ==
  \A m \in IF group = NoGroup THEN {} ELSE live[groupBuf] :
    /\ Answers("NEXT", 223) => m <= cursor \/ m >= cursor'
    /\ Answers("NEXT", 421) => m <= cursor
    /\ Answers("LAST", 223) => m >= cursor \/ m <= cursor'
    /\ Answers("LAST", 422) => m >= cursor
MoveSkipsNothing == [][SkipsNothing]_vars

\* While there is no current article, every article of the group is above the
\* high water mark GROUP has read: NEXT finds the first one from the old low
\* water mark, and LAST, which starts above the old high water mark, finds
\* none (handleNext, handleLast).
NothingBeforeInvalid ==
  Selected /\ Invalid => \A m \in live[groupBuf] : m > group.high

(***************************************************************************)
(* The session implements the abstract current article.                    *)
(***************************************************************************)
Article == INSTANCE CurrentArticle WITH
             selected <- IF group = NoGroup THEN NoName ELSE groupBuf,
             number   <- cursor,
             id       <- Deref(buf, curId)

ImplementsCurrentArticle == Article!Spec

-----------------------------------------------------------------------------
(* What the comments say and the code does not do *)

\* "223 n message-id  Article exists" (nntpdecoder.go:485): STAT without an
\* argument answers 223 for an article the group has.
StatTellsTruth ==
  [][reply'.cmd = "STAT" /\ reply'.code = 223 /\ reply'.num > 0 /\ store' = store
       => reply'.num \in live[groupBuf]]_vars

\* "420  Current article number is invalid" (nntpdecoder.go:386 and 430) is
\* the answer of LAST and NEXT to a session without a current article.
InvalidMeans420 ==
  [][Selected /\ Invalid /\ reply'.cmd \in {"LAST", "NEXT"} /\ store' = store
       => reply'.code = 420]_vars
=============================================================================

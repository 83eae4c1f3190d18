--------------------------- MODULE SessionProofs ---------------------------
(***************************************************************************)
(* Proofs about Session, for every set of groups, names and message-ids,   *)
(* every numbering and every number of articles.                           *)
(***************************************************************************)
EXTENDS Session, WellFoundedInduction, TLAPS

Buffers == {"idBuf", "tmpBuf"}

\* The type invariant, made inductive: a selected group has a name the store
\* knows, GROUP selects before it looks for the first article, and whoever has
\* a message-id has a number.
TypeInv ==
  /\ TypeOK
  /\ group # NoGroup => groupBuf \in Groups
  /\ pc \in {"first", "firstMove"} => group # NoGroup
  /\ curId # NilId => cursor \in Nums

-----------------------------------------------------------------------------
\* A message-id that a lookup stores reads back, from the buffer it was given
\* or from memory of its own, and the other buffer is not touched.
LEMMA StoredReads ==
  ASSUME NEW b \in Buffers, NEW id \in Ids, buf \in [Buffers -> Ids \cup {NoId}],
         NEW s \in Stored(b, id)
  PROVE  /\ s.id \in Slices
         /\ s.id.at \in {b, "own"}
         /\ s.id # NilId
         /\ s.mem \in [Buffers -> Ids \cup {NoId}]
         /\ Deref(s.mem, s.id) = id
         /\ \A o \in Buffers : o # b => s.mem[o] = buf[o]
<1>1. CASE s = [id |-> [at |-> b, id |-> NoId], mem |-> [buf EXCEPT ![b] = id]]
  BY <1>1 DEF Slices, NilId, Deref, Buffers
<1>2. CASE s = [id |-> [at |-> "own", id |-> id], mem |-> buf]
  BY <1>2 DEF Slices, NilId, Deref, Buffers
<1> QED BY <1>1, <1>2 DEF Stored

\* A move sets number and message-id of the current article together.
LEMMA MoveToMoves ==
  ASSUME TypeInv, groupBuf \in Groups, NEW n \in Nums, NEW b \in Buffers, MoveTo(n, b)
  PROVE  /\ cursor' = n
         /\ curId' \in Slices
         /\ curId'.at \in {b, "own"}
         /\ curId' # NilId
         /\ buf' \in [Buffers -> Ids \cup {NoId}]
         /\ Deref(buf', curId') = IdAt[groupBuf][n]
         /\ UNCHANGED <<group, groupBuf>>
<1>1. IdAt[groupBuf][n] \in Ids
  BY SessionAssumption
<1>2. PICK s \in Stored(b, IdAt[groupBuf][n]) : curId' = s.id /\ buf' = s.mem
  BY DEF MoveTo
<1>3. buf \in [Buffers -> Ids \cup {NoId}]
  BY DEF TypeInv, TypeOK, Buffers
<1> QED BY <1>1, <1>2, <1>3, StoredReads DEF MoveTo

\* So does ARTICLE by number, which keeps the message-id out of tmpIdBuffer.
LEMMA FetchMoves ==
  ASSUME TypeInv, groupBuf \in Groups, NEW n \in Nums, FetchNumber(n)
  PROVE  /\ cursor' = n
         /\ curId' \in Slices
         /\ curId'.at \in {"idBuf", "own"}
         /\ curId' # NilId
         /\ buf' \in [Buffers -> Ids \cup {NoId}]
         /\ Deref(buf', curId') = IdAt[groupBuf][n]
         /\ reply' = Answer("ARTICLE", 220, n, IdAt[groupBuf][n])
         /\ UNCHANGED <<group, groupBuf>>
<1> DEFINE x == IdAt[groupBuf][n]
<1>1. x \in Ids
  BY SessionAssumption
<1>2. PICK s \in Stored("tmpBuf", x) :
        /\ reply' = Answer("ARTICLE", 220, n, Deref(s.mem, s.id))
        /\ \/ /\ curId' = [at |-> "idBuf", id |-> NoId]
              /\ buf' = [s.mem EXCEPT !["idBuf"] = Deref(s.mem, s.id)]
           \/ /\ curId' = [at |-> "own", id |-> Deref(s.mem, s.id)]
              /\ buf' = s.mem
  BY DEF FetchNumber
<1>3. s.mem \in [Buffers -> Ids \cup {NoId}] /\ Deref(s.mem, s.id) = x
  BY <1>1, <1>2, StoredReads DEF TypeInv, TypeOK, Buffers
<1>4. cursor' = n /\ UNCHANGED <<group, groupBuf>>
  BY DEF FetchNumber
<1> QED BY <1>1, <1>2, <1>3, <1>4 DEF Slices, NilId, Deref, Buffers


-----------------------------------------------------------------------------
(***************************************************************************)
(* The shapes of a step.  Whatever the command, the session either stays   *)
(* where it is and answers, or moves to an article of the selected group.  *)
(***************************************************************************)
Touches ==
  \/ UNCHANGED buf
  \/ /\ {"StatArticle", "CursorMoveGroup"} \cap Scribblers # {}
     /\ buf' = [buf EXCEPT !["idBuf"] = NoId]
  \/ buf' = [buf EXCEPT !["tmpBuf"] = NoId]

Stays ==
  /\ Idle
  /\ UNCHANGED <<pc, current, chosen, store>>
  /\ Touches
  /\ reply' \in Replies
  /\ reply'.num > 0 => /\ group # NoGroup
                       /\ reply'.num = cursor /\ reply'.id = Deref(buf', curId')

Arrives(n) ==
  /\ n \in live[groupBuf]
  /\ group # NoGroup
  /\ pc' = "idle"
  /\ cursor' = n
  /\ curId' \in Slices
  /\ curId'.at \in {"idBuf", "own"}
  /\ curId' # NilId
  /\ buf' \in [Buffers -> Ids \cup {NoId}]
  /\ Deref(buf', curId') = IdAt[groupBuf][n]
  /\ reply' \in Replies
  /\ reply'.code < 400
  /\ reply'.num > 0 => reply'.num = n /\ reply'.id = IdAt[groupBuf][n]
  /\ UNCHANGED <<group, groupBuf, chosen, store>>

Moves == \E n \in Nums : Arrives(n)

-----------------------------------------------------------------------------
\* A command that is only answered stays.
LEMMA JustAnswerStays ==
  ASSUME Idle,
         NEW c \in {"none", "GROUP", "LISTGROUP", "LAST", "NEXT", "STAT", "ARTICLE", "OVER"},
         NEW k \in 0 .. 599, JustAnswer(c, k), Touches
  PROVE  Stays
<1>1. reply' = Short(c, k)
  BY DEF JustAnswer
<1>2. reply' \in Replies /\ reply'.num = 0
  BY <1>1, SessionAssumption DEF Short, Answer, Replies
<1> QED BY <1>2 DEF JustAnswer, Stays

\* A failing lookup touches the buffer it was given, and only that.
LEMMA MissedTouches ==
  ASSUME \/ Missed("StatArticle", "idBuf")
         \/ Missed("CursorMoveGroup", "idBuf")
         \/ Missed("GetArticle", "tmpBuf")
  PROVE  Touches
BY DEF Missed, Touches

\* A command about the current article, answered with it, stays.
LEMMA UnmovedStays ==
  ASSUME TypeInv, Selected, cursor \in Nums,
         NEW c \in {"STAT", "ARTICLE"}, NEW k \in 0 .. 599, Unmoved(c, k)
  PROVE  Stays
<1>1. cursor \in 0 .. MaxNum
  BY SessionAssumption DEF Nums
<1>2. Deref(buf', curId') \in Ids \cup {NoId}
  BY DEF TypeInv, TypeOK, Deref, Slices, Unmoved, current
<1>3. reply' = Answer(c, k, cursor, Deref(buf', curId'))
  BY DEF Unmoved, Answered
<1>4. /\ reply' \in Replies
      /\ reply'.num = cursor
      /\ reply'.id = Deref(buf', curId')
  BY <1>1, <1>2, <1>3, SessionAssumption DEF Answer, Replies
<1>5. Idle /\ group # NoGroup /\ UNCHANGED <<pc, current, buf, chosen, store>>
  BY DEF Unmoved, Selected
<1> QED BY <1>4, <1>5 DEF Stays, Touches

\* A command about another article the group has, answered with it, moves.
LEMMA AnsweredMoves ==
  ASSUME TypeInv, group # NoGroup, NEW n \in Nums, n \in live[groupBuf],
         MoveTo(n, "idBuf"), pc' = "idle", UNCHANGED <<chosen, store>>,
         \/ reply' = Short("GROUP", 211)
         \/ \E c \in {"LAST", "NEXT", "STAT"} : Answered(c, 223, n)
  PROVE  Moves
<1>1. groupBuf \in Groups /\ "idBuf" \in Buffers
  BY DEF TypeInv, Buffers
<1>2. IdAt[groupBuf][n] \in Ids
  BY <1>1, SessionAssumption
<1>3. /\ reply' \in Replies
      /\ reply'.code < 400
      /\ reply'.num > 0 => reply'.num = n /\ reply'.id = IdAt[groupBuf][n]
  <2>1. CASE reply' = Short("GROUP", 211)
    BY <2>1, SessionAssumption DEF Short, Answer, Replies
  <2>2. ASSUME NEW c \in {"LAST", "NEXT", "STAT"}, Answered(c, 223, n)
        PROVE  <1>3!1 /\ <1>3!2 /\ <1>3!3
    <3>1. reply' = Answer(c, 223, n, IdAt[groupBuf][n])
      BY <1>1, <2>2, MoveToMoves DEF Answered
    <3>2. n \in 0 .. MaxNum
      BY SessionAssumption DEF Nums
    <3> QED BY <1>2, <3>1, <3>2, SessionAssumption DEF Answer, Replies
  <2> QED BY <2>1, <2>2
<1>4. Arrives(n)
  BY <1>1, <1>3, MoveToMoves DEF Arrives
<1> QED BY <1>4 DEF Moves

\* Every step is a step of the store, one of the steps of GROUP that do not
\* move, the start or the end of a session, or one of the two shapes.
LEMMA NextShapes ==
  ASSUME TypeInv, Next
  PROVE  \/ Store \/ FirstMiss \/ FirstFails \/ Ends \/ ServeConn
         \/ \E g \in Groups : GroupFound(g)
         \/ Stays \/ Moves
<1> USE SessionAssumption
<1>1. CASE GroupMissing
  BY <1>1, JustAnswerStays DEF GroupMissing, Touches
<1>2. CASE FirstHit
  <2>1. group.low \in Nums /\ group # NoGroup
    BY <1>2 DEF FirstHit, TypeInv, TypeOK
  <2> QED BY <1>2, <2>1, AnsweredMoves DEF FirstHit
<1>3. CASE FirstMoves
  <2>1. PICK n \in Nums : IsAfter(groupBuf, -1, n) /\ MoveTo(n, "idBuf")
    BY <1>3 DEF FirstMoves
  <2>2. group # NoGroup /\ n \in live[groupBuf]
    BY <1>3, <2>1 DEF FirstMoves, TypeInv, IsAfter
  <2> QED BY <1>3, <2>1, <2>2, AnsweredMoves DEF FirstMoves
<1>4. CASE HandleListgroup
  BY <1>4, JustAnswerStays DEF HandleListgroup, Touches
<1>5. CASE HandleLast
  <2>1. ASSUME NEW n \in Nums, IsBefore(groupBuf, LastFrom, n), MoveTo(n, "idBuf"),
               Answered("LAST", 223, n), UNCHANGED <<pc, chosen, store>>
        PROVE  Moves
    BY <1>5, <2>1, AnsweredMoves DEF HandleLast, Selected, Idle, IsBefore
  <2>2. CASE Missed("CursorMoveGroup", "idBuf") /\ JustAnswer("LAST", 422)
    BY <1>5, <2>2, MissedTouches, JustAnswerStays DEF HandleLast, Selected
  <2> QED BY <1>5, <2>1, <2>2 DEF HandleLast
<1>6. CASE HandleNext
  <2>1. ASSUME NEW n \in Nums, IsAfter(groupBuf, NextFrom, n), MoveTo(n, "idBuf"),
               Answered("NEXT", 223, n), UNCHANGED <<pc, chosen, store>>
        PROVE  Moves
    BY <1>6, <2>1, AnsweredMoves DEF HandleNext, Selected, Idle, IsAfter
  <2>2. CASE Missed("CursorMoveGroup", "idBuf") /\ JustAnswer("NEXT", 421)
    BY <1>6, <2>2, MissedTouches, JustAnswerStays DEF HandleNext, Selected
  <2> QED BY <1>6, <2>1, <2>2 DEF HandleNext
<1>7. CASE HandleStatCurrent
  <2>1. curId # NilId => cursor \in Nums
    BY DEF TypeInv
  <2> QED BY <1>7, <2>1, JustAnswerStays, UnmovedStays DEF HandleStatCurrent, Selected, Touches
<1>8. ASSUME Selected, NEW n \in Parsed, NEW c \in {"STAT", "ARTICLE"},
             \/ NumberMissing(c, n, "StatArticle", "idBuf")
             \/ NumberMissing(c, n, "GetArticle", "tmpBuf")
      PROVE  Stays
  BY <1>8, MissedTouches, JustAnswerStays DEF NumberMissing, Selected, Touches
<1>9. ASSUME Selected, NEW n, Found(n)
      PROVE  n \in Nums
  BY <1>9 DEF Selected, Found, TypeInv, TypeOK
<1>10. ASSUME NEW c \in {"STAT", "ARTICLE"}, NEW k \in {220, 223}, ById(c, k)
       PROVE  Stays
  <2>1. PICK id \in Ids :
          \/ reply' = Answer(c, k, 0, id) /\ UNCHANGED <<pc, current, chosen, store>>
          \/ JustAnswer(c, 430)
    BY <1>10 DEF ById
  <2>2. Idle /\ UNCHANGED buf
    BY <1>10 DEF ById
  <2>3. CASE reply' = Answer(c, k, 0, id) /\ UNCHANGED <<pc, current, chosen, store>>
    <3>1. reply' \in Replies /\ reply'.num = 0
      BY <2>3 DEF Answer, Replies
    <3> QED BY <2>2, <2>3, <3>1 DEF Stays, Touches
  <2> QED BY <2>1, <2>2, <2>3, JustAnswerStays DEF Touches
<1>11. CASE HandleStatNumber
  <2>1. PICK n \in Parsed :
          \/ Found(n) /\ IsCurrent(n) /\ Unmoved("STAT", 223)
          \/ /\ Found(n)
             /\ MoveTo(n, "idBuf")
             /\ Answered("STAT", 223, n)
             /\ UNCHANGED <<pc, chosen, store>>
          \/ NumberMissing("STAT", n, "StatArticle", "idBuf")
    BY <1>11 DEF HandleStatNumber
  <2>2. Selected /\ pc = "idle" /\ group # NoGroup
    BY <1>11 DEF HandleStatNumber, Selected, Idle
  <2>3. CASE Found(n) /\ IsCurrent(n) /\ Unmoved("STAT", 223)
    BY <1>9, <2>2, <2>3, UnmovedStays DEF IsCurrent
  <2>4. CASE /\ Found(n)
             /\ MoveTo(n, "idBuf")
             /\ Answered("STAT", 223, n)
             /\ UNCHANGED <<pc, chosen, store>>
    BY <1>9, <2>2, <2>4, AnsweredMoves DEF Found
  <2> QED BY <1>8, <2>1, <2>2, <2>3, <2>4
<1>12. CASE HandleArticleNumber
  <2>1. PICK n \in Parsed :
          \/ Found(n) /\ IsCurrent(n) /\ Unmoved("ARTICLE", 220)
          \/ Found(n) /\ FetchNumber(n) /\ UNCHANGED <<pc, chosen, store>>
          \/ NumberMissing("ARTICLE", n, "GetArticle", "tmpBuf")
    BY <1>12 DEF HandleArticleNumber
  <2>2. Selected /\ pc = "idle" /\ group # NoGroup
    BY <1>12 DEF HandleArticleNumber, Selected, Idle
  <2>3. CASE Found(n) /\ IsCurrent(n) /\ Unmoved("ARTICLE", 220)
    BY <1>9, <2>2, <2>3, UnmovedStays DEF IsCurrent
  <2>4. CASE Found(n) /\ FetchNumber(n) /\ UNCHANGED <<pc, chosen, store>>
    <3>1. n \in Nums /\ n \in live[groupBuf] /\ groupBuf \in Groups
      BY <1>9, <2>2, <2>4 DEF Found, TypeInv
    <3>2. IdAt[groupBuf][n] \in Ids
      BY <3>1
    <3>3. reply' = Answer("ARTICLE", 220, n, IdAt[groupBuf][n])
      BY <2>4, <3>1, FetchMoves
    <3>4. /\ reply' \in Replies
          /\ reply'.code < 400
          /\ reply'.num > 0 => reply'.num = n /\ reply'.id = IdAt[groupBuf][n]
      BY <3>1, <3>2, <3>3 DEF Answer, Replies, Nums
    <3>5. Arrives(n)
      BY <2>2, <2>4, <3>1, <3>4, FetchMoves DEF Arrives
    <3> QED BY <3>1, <3>5 DEF Moves
  <2> QED BY <1>8, <2>1, <2>2, <2>3, <2>4
<1>13. CASE HandleArticleCurrent
  <2>1. Selected
    BY <1>13 DEF HandleArticleCurrent
  <2>2. Found(cursor) => cursor \in Nums
    BY <1>9, <2>1
  <2> QED BY <1>13, <2>1, <2>2, JustAnswerStays, UnmovedStays
        DEF HandleArticleCurrent, Selected, Touches
<1>14. CASE HandleHeaders
  <2>1. PICK k \in {224, 420, 423, 430} : JustAnswer("OVER", k)
    BY <1>14 DEF HandleHeaders, RangeAnswer
  <2> QED BY <1>14, <2>1, JustAnswerStays DEF HandleHeaders, Touches
<1>15. CASE HandleUnselected
  BY <1>15, JustAnswerStays DEF HandleUnselected, Touches
<1>16. CASE HandleStatId \/ HandleArticleId
  BY <1>10, <1>16 DEF HandleStatId, HandleArticleId
<1> QED
  BY <1>1, <1>2, <1>3, <1>4, <1>5, <1>6, <1>7, <1>11, <1>12, <1>13, <1>14, <1>15, <1>16
  DEF Next, Select, Retrieve

-----------------------------------------------------------------------------
(***************************************************************************)
(* Type correctness.                                                       *)
(***************************************************************************)
LEMMA TypeInvInit == Init => TypeInv
BY SessionAssumption DEF Init, TypeInv, TypeOK, NoGroup, NilId, Short, Answer, Replies, Slices

LEMMA TypeInvStep == TypeInv /\ [Next]_vars => TypeInv'
<1> SUFFICES ASSUME TypeInv, [Next]_vars PROVE TypeInv'
  OBVIOUS
<1> USE SessionAssumption
<1>1. CASE UNCHANGED vars
  BY <1>1 DEF vars, TypeInv, TypeOK, Nums
<1>2. CASE Store
  <2>1. ASSUME NEW g \in Groups, Arrive(g) PROVE TypeInv'
    BY <2>1 DEF Arrive, TypeInv, TypeOK, Nums, current
  <2>2. ASSUME NEW g \in Groups, NEW n \in Nums, Expire(g, n) PROVE TypeInv'
    BY <2>2 DEF Expire, TypeInv, TypeOK, Nums, current
  <2> QED BY <1>2, <2>1, <2>2 DEF Store
<1>3. CASE \E g \in Groups : GroupFound(g)
  <2>1. PICK g \in Groups : GroupFound(g)
    BY <1>3
  <2>2. PICK n \in 1 .. MaxNum+1 : group' = [low |-> n, high |-> high[g]]
    BY <2>1 DEF GroupFound
  <2>3. group' \in [low : 0 .. MaxNum+1, high : 0 .. MaxNum] /\ group' # NoGroup
    BY <2>1, <2>2 DEF NoGroup, TypeInv, TypeOK
  <2>4. reply' \in Replies
    BY <2>1 DEF GroupFound, Short, Answer, Replies
  <2> QED BY <2>1, <2>3, <2>4 DEF GroupFound, NilId, Slices, TypeInv, TypeOK, Nums, store
<1>4. CASE FirstMiss
  BY <1>4 DEF FirstMiss, Missed, TypeInv, TypeOK, current, store, Nums
<1>5. CASE FirstFails
  <2>1. reply' \in Replies
    BY <1>5 DEF FirstFails, Short, Answer, Replies
  <2> QED BY <1>5, <2>1 DEF FirstFails, Missed, TypeInv, TypeOK, current, store, Nums
<1>6. CASE Ends
  <2>1. reply' \in Replies
    BY <1>6 DEF Ends, Short, Answer, Replies
  <2> QED BY <1>6, <2>1 DEF Ends, release, NoGroup, NilId, Slices, TypeInv, TypeOK, store, Nums
<1>7. CASE ServeConn
  <2>1. reply' \in Replies
    BY <1>7 DEF ServeConn, Short, Answer, Replies
  <2> QED BY <1>7, <2>1 DEF ServeConn, TypeInv, TypeOK, current, store, Nums
<1>8. CASE Stays
  BY <1>8 DEF Stays, Touches, TypeInv, TypeOK, current, store, Nums
<1>9. CASE Moves
  <2>1. PICK n \in Nums : Arrives(n)
    BY <1>9 DEF Moves
  <2> QED BY <2>1 DEF Arrives, TypeInv, TypeOK, store, Nums, Buffers
<1> QED BY <1>1, <1>2, <1>3, <1>4, <1>5, <1>6, <1>7, <1>8, <1>9, NextShapes

\* Every variable keeps its type, whatever the store and the client do.
THEOREM TypeCorrect == Spec => []TypeOK
<1>1. TypeInv => TypeOK
  BY DEF TypeInv
<1> QED BY <1>1, TypeInvInit, TypeInvStep, PTL DEF Spec

-----------------------------------------------------------------------------
(***************************************************************************)
(* The position.  Coherence is not inductive by itself: what a slice reads *)
(* depends on who may write to the buffer below it.  The message-id of the *)
(* current article is never in tmpIdBuffer, the one buffer a lookup may    *)
(* have written when it fails.                                             *)
(***************************************************************************)
PositionInv ==
  /\ group = NoGroup => curId = NilId
  /\ group # NoGroup => Coherent /\ groupBuf = chosen
  /\ pc \in {"first", "firstMove"} => cursor = -1
  /\ pc = "closed" => group = NoGroup
  /\ curId.at # "tmpBuf"
  /\ ReplyCoherent

LEMMA PositionInvInit == Init => PositionInv
BY DEF Init, PositionInv, ReplyCoherent, NoGroup, NilId, Short, Answer

\* A step that touches no more than a failing GetArticle may leaves the
\* message-id of the current article as it was.
LEMMA TouchesReads ==
  ASSUME TypeInv, PositionInv, Scribblers \subseteq {"GetArticle"}, Touches, UNCHANGED curId
  PROVE  Deref(buf', curId') = Deref(buf, curId)
BY DEF TypeInv, TypeOK, PositionInv, Touches, Deref, Slices

LEMMA PositionInvStep ==
  ASSUME Scribblers \subseteq {"GetArticle"}
  PROVE  TypeInv /\ PositionInv /\ [Next]_vars => PositionInv'
<1> SUFFICES ASSUME TypeInv, PositionInv, [Next]_vars PROVE PositionInv'
  OBVIOUS
<1>1. CASE UNCHANGED vars
  BY <1>1 DEF vars, PositionInv, Coherent, ReplyCoherent, Deref
<1>2. CASE Store
  <2>1. UNCHANGED <<pc, current, buf, reply, chosen>>
    BY <1>2 DEF Store, Arrive, Expire
  <2> QED BY <2>1 DEF current, PositionInv, Coherent, ReplyCoherent, Deref
<1>3. CASE \E g \in Groups : GroupFound(g)
  BY <1>3 DEF GroupFound, PositionInv, Coherent, ReplyCoherent, NilId
<1>4. CASE FirstMiss
  <2>1. pc = "first" /\ pc' = "firstMove" /\ UNCHANGED <<current, reply, chosen>>
    BY <1>4 DEF FirstMiss
  <2>2. cursor = -1 /\ curId = NilId /\ group # NoGroup
    BY <2>1, SessionAssumption DEF PositionInv, Coherent, TypeInv, Nums
  <2> QED BY <2>1, <2>2 DEF current, PositionInv, Coherent, ReplyCoherent, NilId
<1>5. CASE FirstFails
  <2>1. pc = "firstMove" /\ pc' = "idle" /\ UNCHANGED <<current, chosen>>
    BY <1>5 DEF FirstFails
  <2>2. reply'.num = 0
    BY <1>5 DEF FirstFails, Short, Answer
  <2>3. cursor = -1 /\ curId = NilId /\ group # NoGroup
    BY <2>1, SessionAssumption DEF PositionInv, Coherent, TypeInv, Nums
  <2> QED BY <2>1, <2>2, <2>3 DEF current, PositionInv, Coherent, ReplyCoherent, NilId
<1>6. CASE Ends
  BY <1>6 DEF Ends, release, PositionInv, ReplyCoherent, NilId
<1>7. CASE ServeConn
  <2>1. reply'.num = 0
    BY <1>7 DEF ServeConn, Short, Answer
  <2> QED BY <1>7, <2>1 DEF ServeConn, current, PositionInv, ReplyCoherent
<1>8. CASE Stays
  <2>1. UNCHANGED <<pc, current, chosen>> /\ Deref(buf', curId') = Deref(buf, curId)
    BY <1>8, TouchesReads DEF Stays, current
  <2>2. Coherent => Coherent'
    BY <2>1 DEF current, Coherent
  <2>3. ReplyCoherent'
    BY <1>8, <2>1, <2>2 DEF Stays, current, PositionInv, Coherent, ReplyCoherent
  <2> QED BY <2>1, <2>2, <2>3 DEF current, PositionInv
<1>9. CASE Moves
  <2>1. PICK n \in Nums : Arrives(n)
    BY <1>9 DEF Moves
  <2> QED BY <2>1 DEF Arrives, PositionInv, Coherent, ReplyCoherent
<1> QED BY <1>1, <1>2, <1>3, <1>4, <1>5, <1>6, <1>7, <1>8, <1>9, NextShapes DEF TypeInv

\* If no lookup writes to the id slice and then fails, but for GetArticle,
\* the number and the message-id a session keeps always name one article.
THEOREM PositionStaysCoherent ==
  ASSUME Scribblers \subseteq {"GetArticle"}
  PROVE  Spec => []PositionCoherent
<1>1. PositionInv => PositionCoherent
  BY DEF PositionInv, PositionCoherent
<1> QED BY <1>1, TypeInvInit, TypeInvStep, PositionInvInit, PositionInvStep, PTL DEF Spec

\* Under the same assumption an answer never pairs the number of one article
\* with the message-id of another.
THEOREM RepliesStayCoherent ==
  ASSUME Scribblers \subseteq {"GetArticle"}
  PROVE  Spec => []ReplyCoherent
<1>1. PositionInv => ReplyCoherent
  BY DEF PositionInv
<1> QED BY <1>1, TypeInvInit, TypeInvStep, PositionInvInit, PositionInvStep, PTL DEF Spec

\* The selected group is the one this client chose.
THEOREM GroupStaysChosen ==
  ASSUME Scribblers \subseteq {"GetArticle"}
  PROVE  Spec => []GroupIsChosen
<1>1. PositionInv => GroupIsChosen
  BY DEF PositionInv, GroupIsChosen
<1> QED BY <1>1, TypeInvInit, TypeInvStep, PositionInvInit, PositionInvStep, PTL DEF Spec

\* A refused command leaves group, number and message-id as they were.
THEOREM RefusalsKeepPosition ==
  ASSUME Scribblers \subseteq {"GetArticle"}
  PROVE  Spec => RefusedKeepsPosition
<1>1. ASSUME TypeInv, PositionInv, [Next]_vars, reply'.code >= 400
      PROVE  Position' = Position
  <2>1. CASE UNCHANGED <<current, buf>>
    BY <2>1 DEF current, Position, Deref
  <2>2. CASE Stays \/ FirstMiss
    <3>1. Touches /\ UNCHANGED current
      BY <2>2, MissedTouches DEF Stays, FirstMiss
    <3> QED BY <1>1, <3>1, TouchesReads DEF current, Position
  <2>3. CASE Moves
    <3>1. PICK n \in Nums : Arrives(n)
      BY <2>3 DEF Moves
    <3>2. reply' \in Replies /\ reply'.code < 400
      BY <3>1 DEF Arrives
    <3> QED BY <1>1, <3>2 DEF Replies
  <2>4. CASE FirstFails \/ Ends \/ ServeConn \/ \E g \in Groups : GroupFound(g)
    BY <1>1, <2>4 DEF FirstFails, Ends, ServeConn, GroupFound, Short, Answer
  <2>5. CASE Store \/ UNCHANGED vars
    BY <2>1, <2>5 DEF Store, Arrive, Expire, vars, current
  <2> QED BY <1>1, <2>2, <2>3, <2>4, <2>5, NextShapes
<1>2. TypeInv /\ PositionInv /\ [Next]_vars => [reply'.code >= 400 => Position' = Position]_vars
  BY <1>1
<1> QED BY <1>2, TypeInvInit, TypeInvStep, PositionInvInit, PositionInvStep, PTL
      DEF Spec, RefusedKeepsPosition

-----------------------------------------------------------------------------
(***************************************************************************)
(* The moves.  The marks GROUP has read are old when they are used; they   *)
(* are good enough because numbers only grow: the low water mark stays     *)
(* below every article while there is no current one, and what arrives     *)
(* after GROUP found nothing is above the high water mark.                 *)
(***************************************************************************)
StoreInv ==
  /\ \A g \in Groups : \A m \in live[g] : m <= high[g]
  /\ group # NoGroup =>
       /\ group.high <= high[groupBuf]
       /\ group.low <= group.high + 1
       /\ Invalid => \A m \in live[groupBuf] : group.low <= m
  /\ NothingBeforeInvalid
  /\ pc \in {"first", "firstMove"} => cursor = -1 /\ reply.cmd = "none"
  /\ pc = "closed" => group = NoGroup

\* A set of numbers that is not empty has a least one.
LEMMA LeastNumber ==
  ASSUME NEW S, S \subseteq Nat, S # {}
  PROVE  \E x \in S : \A y \in S : x <= y
<1> DEFINE R == OpToRel(<, Nat)
<1>1. PICK x \in S : \A y \in S : ~ (<<y, x>> \in R)
  <2> HIDE DEF R
  <2> QED BY NatLessThanWellFounded, WFMin DEF R
<1>2. \A y \in S : ~ (y < x)
  BY <1>1 DEF OpToRel
<1> QED BY <1>2

\* Whatever lies beyond a number, there is a next one, and a previous one.
LEMMA NextExists ==
  ASSUME TypeInv, NEW g \in Groups, NEW k \in Int, NEW m \in live[g], m > k
  PROVE  \E n \in Nums : IsAfter(g, k, n)
<1> DEFINE S == {n \in live[g] : n > k}
<1>1. S \in SUBSET Nat /\ S \subseteq Nums /\ S # {}
  BY SessionAssumption DEF TypeInv, TypeOK, Nums
<1>2. PICK n \in S : \A o \in S : n <= o
  BY <1>1, LeastNumber
<1> QED BY <1>1, <1>2 DEF IsAfter

LEMMA PreviousExists ==
  ASSUME TypeInv, NEW g \in Groups, NEW k \in Int, NEW m \in live[g], m < k
  PROVE  \E n \in Nums : IsBefore(g, k, n)
<1> DEFINE S == {n \in live[g] : n < k}
           R == {MaxNum - n : n \in S}
<1>1. S \subseteq Nums /\ S # {}
  BY DEF TypeInv, TypeOK
<1>2. R \in SUBSET Nat /\ R # {}
  BY <1>1, SessionAssumption DEF Nums
<1>3. PICK r \in R : \A o \in R : r <= o
  BY <1>2, LeastNumber
<1>4. PICK n \in S : r = MaxNum - n
  BY <1>3
<1>5. \A o \in S : o <= n
  <2> TAKE o \in S
  <2>1. r <= MaxNum - o
    BY <1>3
  <2> QED BY <1>1, <1>4, <2>1, SessionAssumption DEF Nums
<1> QED BY <1>1, <1>4, <1>5 DEF IsBefore

LEMMA StoreInvInit == Init => StoreInv
BY DEF Init, StoreInv, NothingBeforeInvalid, Selected, NoGroup

LEMMA StoreInvStep == TypeInv /\ StoreInv /\ [Next]_vars => StoreInv'
<1> SUFFICES ASSUME TypeInv, StoreInv, [Next]_vars PROVE StoreInv'
  OBVIOUS
<1> USE SessionAssumption
<1> USE DEF NothingBeforeInvalid, Selected, Idle, Invalid
<1>1. CASE UNCHANGED vars
  BY <1>1 DEF vars, StoreInv
<1>2. CASE Store
  <2>1. ASSUME NEW g \in Groups, Arrive(g) PROVE StoreInv'
    <3>1. \A h \in Groups : /\ high'[h] >= high[h]
                            /\ \A m \in live'[h] : m \in live[h] \/ (m = high[h] + 1 /\ m = high'[h])
      BY <2>1 DEF Arrive, TypeInv, TypeOK
    <3>2. UNCHANGED <<pc, group, groupBuf, cursor, reply>>
      BY <2>1 DEF Arrive, current
    <3>3. \A h \in Groups : high[h] \in Nat /\ high'[h] \in Nat /\ live[h] \subseteq Nat
      BY <2>1 DEF Arrive, TypeInv, TypeOK, Nums
    <3>4. group.low \in Nat /\ group.high \in Nat
      BY DEF TypeInv, TypeOK
    <3>5. (\A h \in Groups : \A m \in live[h] : m <= high[h])'
      BY <3>1, <3>3 DEF StoreInv
    <3>6. ASSUME group # NoGroup
          PROVE  /\ group.high <= high'[groupBuf]
                 /\ Invalid => \A m \in live'[groupBuf] : group.low <= m
                 /\ Idle /\ Invalid => \A m \in live'[groupBuf] : m > group.high
      <4>1. groupBuf \in Groups
        BY <3>6 DEF TypeInv
      <4>2. /\ group.high <= high[groupBuf]
            /\ group.low <= group.high + 1
            /\ Invalid => \A m \in live[groupBuf] : group.low <= m
            /\ Idle /\ Invalid => \A m \in live[groupBuf] : m > group.high
        BY <3>6 DEF StoreInv
      <4> QED BY <3>1, <3>3, <3>4, <4>1, <4>2
    <3> QED BY <3>2, <3>5, <3>6 DEF StoreInv
  <2>2. ASSUME NEW g \in Groups, NEW n \in Nums, Expire(g, n) PROVE StoreInv'
    <3>1. \A h \in Groups : live'[h] \subseteq live[h]
      BY <2>2 DEF Expire, TypeInv, TypeOK
    <3>2. UNCHANGED <<pc, group, groupBuf, cursor, reply, high>>
      BY <2>2 DEF Expire, current
    <3> QED BY <3>1, <3>2 DEF StoreInv, TypeInv
  <2> QED BY <1>2, <2>1, <2>2 DEF Store
<1>3. CASE \E g \in Groups : GroupFound(g)
  <2>1. PICK g \in Groups : GroupFound(g)
    BY <1>3
  <2>2. PICK n \in 1 .. MaxNum+1 : IsLowMark(g, n) /\ group' = [low |-> n, high |-> high[g]]
    BY <2>1 DEF GroupFound
  <2>3. groupBuf' = g /\ cursor' = -1 /\ pc' = "first" /\ reply'.cmd = "none" /\ UNCHANGED store
    BY <2>1 DEF GroupFound, Short, Answer
  <2>4. high[g] \in Nat
    BY DEF TypeInv, TypeOK
  <2> QED BY <2>2, <2>3, <2>4 DEF StoreInv, IsLowMark, store
<1>4. CASE FirstMiss
  BY <1>4 DEF FirstMiss, StoreInv, current, store
<1>5. CASE FirstFails
  <2>1. live[groupBuf] = {}
    <3>1. groupBuf \in Groups /\ live[groupBuf] \subseteq Nums
      BY <1>5 DEF FirstFails, TypeInv, TypeOK
    <3>2. ASSUME NEW m \in live[groupBuf] PROVE FALSE
      <4>1. m > -1
        BY <3>1 DEF Nums
      <4> QED BY <1>5, <3>1, <4>1, NextExists DEF FirstFails
    <3> QED BY <3>2
  <2>2. UNCHANGED <<group, groupBuf, cursor, live, high>> /\ pc' = "idle"
    BY <1>5 DEF FirstFails, current, store
  <2> QED BY <2>1, <2>2 DEF StoreInv
<1>6. CASE Ends
  BY <1>6 DEF Ends, release, StoreInv, store
<1>7. CASE ServeConn
  BY <1>7 DEF ServeConn, StoreInv, current, store
<1>8. CASE Stays
  BY <1>8 DEF Stays, StoreInv, current, store
<1>9. CASE Moves
  <2>1. PICK n \in Nums : Arrives(n)
    BY <1>9 DEF Moves
  <2>2. ~ (cursor' < 0)
    BY <2>1 DEF Arrives, Nums
  <2>3. UNCHANGED <<group, groupBuf, live, high>> /\ pc' = "idle"
    BY <2>1 DEF Arrives, store
  <2> QED BY <2>2, <2>3 DEF StoreInv
<1> QED BY <1>1, <1>2, <1>3, <1>4, <1>5, <1>6, <1>7, <1>8, <1>9, NextShapes

\* Without a current article, LAST has nothing to find.
THEOREM NothingBeforeInvalidHolds == Spec => []NothingBeforeInvalid
<1>1. StoreInv => NothingBeforeInvalid
  BY DEF StoreInv
<1> QED BY <1>1, TypeInvInit, TypeInvStep, StoreInvInit, StoreInvStep, PTL DEF Spec

\* GROUP ends with the first article of the group, or without any in an empty
\* one, whatever expires and arrives while it looks.
THEOREM GroupEndsWithFirst == Spec => GroupSelectsFirst
<1>1. ASSUME TypeInv, StoreInv, Next PROVE SelectsFirst
  <2> SUFFICES ASSUME pc \in {"first", "firstMove"}, pc' = "idle"
               PROVE  \/ live[groupBuf] = {} /\ cursor' = -1
                      \/ IsAfter(groupBuf, -1, cursor')
    BY DEF SelectsFirst
  <2>1. groupBuf \in Groups /\ group # NoGroup /\ cursor = -1
    BY <1>1 DEF TypeInv, StoreInv
  <2>2. live[groupBuf] \subseteq Nums
    BY <1>1, <2>1 DEF TypeInv, TypeOK
  <2>3. CASE FirstHit
    <3>1. \A m \in live[groupBuf] : group.low <= m
      BY <1>1, <2>1 DEF StoreInv, Invalid
    <3>2. group.low \in live[groupBuf] /\ cursor' = group.low
      BY <2>3 DEF FirstHit, MoveTo
    <3> QED BY <2>2, <3>1, <3>2 DEF IsAfter, Nums
  <2>4. CASE FirstMoves
    BY <2>4 DEF FirstMoves, MoveTo
  <2>5. CASE FirstFails
    <3>1. ASSUME NEW m \in live[groupBuf] PROVE FALSE
      <4>1. m > -1
        BY <2>2 DEF Nums
      <4> QED BY <1>1, <2>1, <2>5, <4>1, NextExists DEF FirstFails
    <3>2. cursor' = cursor
      BY <2>5 DEF FirstFails, current
    <3> QED BY <2>1, <3>1, <3>2
  <2>6. CASE Store \/ FirstMiss
    BY <2>6 DEF Store, Arrive, Expire, FirstMiss, current
  <2>7. FirstHit \/ FirstMoves \/ FirstFails \/ Store \/ FirstMiss
    BY <1>1 DEF Next, Select, Retrieve, GroupMissing, GroupFound, HandleListgroup, HandleLast,
           HandleNext, HandleStatCurrent, HandleStatNumber, HandleStatId, HandleArticleCurrent,
           HandleArticleNumber, HandleArticleId, HandleHeaders, HandleUnselected, Ends,
           ServeConn, ById, Selected, Idle
  <2> QED BY <2>3, <2>4, <2>5, <2>6, <2>7
<1>2. TypeInv /\ StoreInv /\ [Next]_vars => [SelectsFirst]_vars
  BY <1>1
<1> QED BY <1>2, TypeInvInit, TypeInvStep, StoreInvInit, StoreInvStep, PTL
      DEF Spec, GroupSelectsFirst

\* Only LAST and NEXT give their answers.
LEMMA MoveAnswers ==
  ASSUME TypeInv, StoreInv, Next, store' = store,
         reply'.cmd \in {"LAST", "NEXT"}, reply'.code # 412
  PROVE  \/ HandleLast /\ reply'.cmd = "LAST"
         \/ HandleNext /\ reply'.cmd = "NEXT"
<1>1. ~ Store
  BY SessionAssumption DEF Store, Arrive, Expire, store, TypeInv, TypeOK
<1>2. ASSUME NEW c \in {"STAT", "ARTICLE"}, NEW k \in {220, 223} PROVE ~ ById(c, k)
  BY DEF ById, JustAnswer, Short, Answer
<1>3. ~ FirstMiss
  BY DEF FirstMiss, StoreInv
<1>4. ~ HandleStatNumber /\ ~ HandleArticleNumber
  BY DEF HandleStatNumber, HandleArticleNumber, Unmoved, Answered, NumberMissing, FetchNumber,
         JustAnswer, Short, Answer
<1>5. ~ HandleStatCurrent /\ ~ HandleArticleCurrent /\ ~ HandleHeaders /\ ~ HandleListgroup
  BY DEF HandleStatCurrent, HandleArticleCurrent, HandleHeaders, HandleListgroup, Unmoved,
         Answered, JustAnswer, Short, Answer
<1>6. ~ HandleUnselected /\ ~ GroupMissing /\ ~ Ends /\ ~ ServeConn
  BY DEF HandleUnselected, GroupMissing, Ends, ServeConn, JustAnswer, Short, Answer
<1>7. ~ FirstHit /\ ~ FirstMoves /\ ~ FirstFails /\ ~ \E g \in Groups : GroupFound(g)
  BY DEF FirstHit, FirstMoves, FirstFails, GroupFound, Short, Answer
<1>8. HandleLast => reply'.cmd = "LAST"
  BY DEF HandleLast, Answered, JustAnswer, Short, Answer
<1>9. HandleNext => reply'.cmd = "NEXT"
  BY DEF HandleNext, Answered, JustAnswer, Short, Answer
<1> QED BY <1>1, <1>2, <1>3, <1>4, <1>5, <1>6, <1>7, <1>8, <1>9
      DEF Next, Select, Retrieve, HandleStatId, HandleArticleId

\* NEXT and LAST pass over no article, and fail only where the group ends.
THEOREM MovesSkipNothing == Spec => MoveSkipsNothing
<1>1. ASSUME TypeInv, StoreInv, Next, group # NoGroup, NEW m \in live[groupBuf]
      PROVE  /\ Answers("NEXT", 223) => m <= cursor \/ m >= cursor'
             /\ Answers("NEXT", 421) => m <= cursor
             /\ Answers("LAST", 223) => m >= cursor \/ m <= cursor'
             /\ Answers("LAST", 422) => m >= cursor
  <2>1. /\ groupBuf \in Groups /\ m \in Nat /\ cursor \in Int
        /\ group.low \in Nat /\ group.high \in Nat
        /\ Invalid => group.low <= m
    BY <1>1 DEF TypeInv, TypeOK, StoreInv, Nums
  <2>2. NextFrom \in Int /\ LastFrom \in Int
    BY <2>1 DEF NextFrom, LastFrom
  <2>3. m > cursor => m > NextFrom
    BY <2>1 DEF NextFrom, Invalid
  <2>4. m < cursor => m < LastFrom
    BY <2>1 DEF LastFrom, Invalid
  <2>5. ASSUME Answers("NEXT", 223) PROVE m <= cursor \/ m >= cursor'
    <3>1. HandleNext
      BY <1>1, <2>5, MoveAnswers DEF Answers
    <3>2. PICK n \in Nums : IsAfter(groupBuf, NextFrom, n) /\ cursor' = n
      BY <2>5, <3>1 DEF HandleNext, MoveTo, Answers, JustAnswer, Short, Answer
    <3> QED BY <1>1, <2>1, <2>3, <3>2 DEF IsAfter, Nums
  <2>6. ASSUME Answers("NEXT", 421) PROVE m <= cursor
    <3>1. HandleNext
      BY <1>1, <2>6, MoveAnswers DEF Answers
    <3>2. ~ \E n \in Nums : IsAfter(groupBuf, NextFrom, n)
      BY <2>6, <3>1 DEF HandleNext, Answered, Answers, Answer
    <3>3. ~ (m > NextFrom)
      BY <1>1, <2>1, <2>2, <3>2, NextExists
    <3> QED BY <2>1, <2>3, <3>3
  <2>7. ASSUME Answers("LAST", 223) PROVE m >= cursor \/ m <= cursor'
    <3>1. HandleLast
      BY <1>1, <2>7, MoveAnswers DEF Answers
    <3>2. PICK n \in Nums : IsBefore(groupBuf, LastFrom, n) /\ cursor' = n
      BY <2>7, <3>1 DEF HandleLast, MoveTo, Answers, JustAnswer, Short, Answer
    <3> QED BY <1>1, <2>1, <2>4, <3>2 DEF IsBefore, Nums
  <2>8. ASSUME Answers("LAST", 422) PROVE m >= cursor
    <3>1. HandleLast
      BY <1>1, <2>8, MoveAnswers DEF Answers
    <3>2. ~ \E n \in Nums : IsBefore(groupBuf, LastFrom, n)
      BY <2>8, <3>1 DEF HandleLast, Answered, Answers, Answer
    <3>3. ~ (m < LastFrom)
      BY <1>1, <2>1, <2>2, <3>2, PreviousExists
    <3> QED BY <2>1, <2>4, <3>3
  <2> QED BY <2>5, <2>6, <2>7, <2>8
<1>2. TypeInv /\ StoreInv /\ [Next]_vars => [SkipsNothing]_vars
  BY <1>1 DEF SkipsNothing
<1> QED BY <1>2, TypeInvInit, TypeInvStep, StoreInvInit, StoreInvStep, PTL
      DEF Spec, MoveSkipsNothing

-----------------------------------------------------------------------------
(***************************************************************************)
(* The session implements the abstract current article.                    *)
(***************************************************************************)
LEMMA ArticleInit == Init => Article!Init
BY DEF Init, Article!Init, NoGroup, NilId, Deref

LEMMA ArticleStep ==
  ASSUME Scribblers \subseteq {"GetArticle"}
  PROVE  TypeInv /\ PositionInv /\ [Next]_vars => [Article!Next]_(Article!vars)
<1> SUFFICES ASSUME TypeInv, PositionInv, [Next]_vars
             PROVE  Article!Next \/ UNCHANGED Article!vars
  OBVIOUS
<1>1. CASE UNCHANGED vars
  BY <1>1 DEF vars, Article!vars, Deref
<1>2. CASE Store
  <2>1. ASSUME NEW g \in Groups, Arrive(g) PROVE Article!Arrive(g)
    BY <2>1 DEF Arrive, Article!Arrive, current, Deref
  <2>2. ASSUME NEW g \in Groups, NEW n \in Nums, Expire(g, n) PROVE Article!Expire(g, n)
    BY <2>2 DEF Expire, Article!Expire, current, Deref
  <2> QED BY <1>2, <2>1, <2>2 DEF Store, Article!Next, Nums
<1>3. CASE \E g \in Groups : GroupFound(g)
  <2>1. PICK g \in Groups : GroupFound(g)
    BY <1>3
  <2>2. group' # NoGroup
    BY <2>1, SessionAssumption DEF GroupFound, NoGroup
  <2>3. Article!Select(g)
    BY <2>1, <2>2 DEF GroupFound, Article!Select, Article!store, store, NilId, Deref
  <2> QED BY <2>3 DEF Article!Next
<1>4. CASE Stays \/ FirstMiss \/ FirstFails
  <2>1. Touches /\ UNCHANGED <<current, store>>
    BY <1>4, MissedTouches DEF Stays, FirstMiss, FirstFails
  <2>2. Deref(buf', curId') = Deref(buf, curId)
    BY <2>1, TouchesReads DEF current
  <2> QED BY <2>1, <2>2 DEF Article!vars, current, store
<1>5. CASE Ends
  <2>1. Article!Leave
    BY <1>5 DEF Ends, release, Article!Leave, Article!store, store, NilId, Deref
  <2> QED BY <2>1 DEF Article!Next
<1>6. CASE ServeConn
  BY <1>6 DEF ServeConn, Article!vars, current, store, Deref
<1>7. CASE Moves
  <2>1. PICK n \in Nums : Arrives(n)
    BY <1>7 DEF Moves
  <2>2. Article!MoveTo(n)
    BY <2>1 DEF Arrives, Article!MoveTo, Article!store, store, TypeInv
  <2> QED BY <2>2 DEF Article!Next, Nums
<1> QED BY <1>1, <1>2, <1>3, <1>4, <1>5, <1>6, <1>7, NextShapes

\* Behind all buffers a session is a group, a number and the message-id that
\* belongs to the number.
THEOREM SessionImplementsCurrentArticle ==
  ASSUME Scribblers \subseteq {"GetArticle"}
  PROVE  Spec => ImplementsCurrentArticle
BY ArticleInit, ArticleStep, TypeInvInit, TypeInvStep, PositionInvInit, PositionInvStep, PTL
   DEF Spec, ImplementsCurrentArticle, Article!Spec
=============================================================================

--------------------------- MODULE CurrentArticle ---------------------------
(***************************************************************************)
(* What a reader session promises about its position: a client has a       *)
(* selected group or none, and in it a current article or none.  The       *)
(* current article is a number together with the message-id the store      *)
(* gives that number, and it only ever becomes an article that is there.   *)
(* No buffer, slice or pool occurs here.                                   *)
(***************************************************************************)
EXTENDS Integers

CONSTANTS Groups, MaxNum, IdAt, NoId, NoName

VARIABLES
  selected,       \* the selected group, or NoName
  number,         \* the number of the current article, -1 without one
  id,             \* its message-id, or NoId
  live, high      \* the store, as in Session

vars  == <<selected, number, id, live, high>>
store == <<live, high>>

Init ==
  /\ selected = NoName /\ number = 0 /\ id = NoId
  /\ live = [g \in Groups |-> {}] /\ high = [g \in Groups |-> 0]

Arrive(g) ==
  /\ high[g] < MaxNum
  /\ high' = [high EXCEPT ![g] = @ + 1]
  /\ live' = [live EXCEPT ![g] = @ \cup {high[g] + 1}]
  /\ UNCHANGED <<selected, number, id>>

Expire(g, n) ==
  /\ n \in live[g]
  /\ live' = [live EXCEPT ![g] = @ \ {n}]
  /\ UNCHANGED <<selected, number, id, high>>

Select(g) == selected' = g /\ number' = -1 /\ id' = NoId /\ UNCHANGED store

MoveTo(n) ==
  /\ selected \in Groups
  /\ n \in live[selected]
  /\ number' = n /\ id' = IdAt[selected][n]
  /\ UNCHANGED <<selected, store>>

Leave == selected' = NoName /\ number' = 0 /\ id' = NoId /\ UNCHANGED store

Next ==
  \/ \E g \in Groups : Arrive(g) \/ Select(g) \/ \E n \in 1 .. MaxNum : Expire(g, n)
  \/ \E n \in 1 .. MaxNum : MoveTo(n)
  \/ Leave

Spec == Init /\ [][Next]_vars
=============================================================================

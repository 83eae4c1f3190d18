------------------------------- MODULE WildMat -------------------------------
(***************************************************************************)
(* wildmat.go.  An element of a wildmat is the set of the names its        *)
(* pattern matches, and whether it is negated with "!"; elements that are  *)
(* empty are passed over and left out.  A regular expression that does not *)
(* compile (the pattern is not UTF-8) is an element that is not sound.     *)
(***************************************************************************)
EXTENDS Naturals, Sequences

CONSTANT Names    \* the names of groups, none of them empty

Elements == [neg : BOOLEAN, names : SUBSET Names, sound : BOOLEAN]
RuleSet  == [pos : SUBSET Names, neg : SUBSET Names]
EmptySet == [pos |-> {}, neg |-> {}]

\* A fault for the mutants: a pattern behind a negation goes into the same set.
AddElement_OneSet(sets, negated, e) ==
  IF e.neg THEN [sets EXCEPT ![Len(sets)].neg = @ \cup e.names]
  ELSE [sets EXCEPT ![Len(sets)].pos = @ \cup e.names]

\* A pattern behind a negation begins a new rule set.
AddElement(sets, negated, e) ==
  IF e.neg THEN [sets EXCEPT ![Len(sets)].neg = @ \cup e.names]
  ELSE IF negated THEN Append(sets, [EmptySet EXCEPT !.pos = e.names])
  ELSE [sets EXCEPT ![Len(sets)].pos = @ \cup e.names]

\* The rule sets after each element.
Parsed(w) ==
  LET sets[k \in 0 .. Len(w)] ==
        IF k = 0 THEN <<EmptySet>> ELSE AddElement(sets[k-1], k > 1 /\ w[k-1].neg, w[k])
  IN  sets
ParseWildMat(w) == Parsed(w)[Len(w)]

Compiles(w) == \A n \in DOMAIN w : w[n].sound

\* No pattern at all matches only an empty name.
RuleSetMatch(rs, name) == name \in rs.pos /\ name \notin rs.neg
Match(wm, name)        == \E n \in DOMAIN wm : RuleSetMatch(wm[n], name)
=============================================================================

------------------------------ MODULE MCListings ------------------------------
(* The instance of Listings that TLC checks. *)
EXTENDS Listings, TLC

\* Eight bits: 127 is the largest number, and 255 wraps around to -1.
MCWidth == 8
MCRanges ==
  {[kind |-> k, from |-> f, to |-> 0] : k \in {"one", "open"}, f \in {0, 1, 2, 255}}
  \cup {[kind |-> "both", from |-> f, to |-> t] : f \in {1, 10}, t \in {1, 3, 127, 255}}

MCIds  == {"a", "b", "c"}
MCIdOf == <<"a", "b", "c">>

MCEntry(n, s, b, l) ==
  [num |-> n, subject |-> s, from |-> <<70>>, date |-> <<68>>, references |-> <<82>>,
   bytes |-> b, lines |-> l] @@ ("message-id" :> <<73>>)
MCDot == <<46>>
MCOverviews == {MCEntry(1, <<83>>, 100, 9), MCEntry(1, MCDot, 127, -2), MCEntry(2, <<83>>, -2, 10),
                MCEntry(3, MCDot, 0, 127), MCEntry(10, <<83>>, 10, 1)}

MCNames == {"x", "y", "z"}
MCPattern(ns) == [neg |-> FALSE, names |-> ns, sound |-> TRUE]
MCElements == {[neg |-> n, names |-> s, sound |-> TRUE] : n \in BOOLEAN, s \in {{"x"}, {"x", "y"}, {"y", "z"}}}
              \cup {[neg |-> TRUE, names |-> {"x"}, sound |-> FALSE]}
\* Up to two elements, and longer ones in which patterns and negations alternate.
MCNot(ns)  == [MCPattern(ns) EXCEPT !.neg = TRUE]
MCWildmats ==
  UNION {[1 .. n -> MCElements] : n \in 0 .. 2}
  \cup {<<MCPattern({"x", "y"}), MCNot({"x"}), MCPattern(ns)>> : ns \in {{"x"}, {"y", "z"}}}
  \cup {<<MCPattern({"x", "y"}), MCNot({"x"}), MCPattern({"z"}), MCNot(ns)>> : ns \in {{"y"}, {"y", "z"}}}
MCMaxEntries == 2
===============================================================================

--------------------------- MODULE MCConnReader ---------------------------
(* The instances of ConnReader that TLC checks. *)
EXTENDS ConnReader

MCSize == 2

\* Every stream of at most four bytes, and longer ones that hold a command,
\* an article with a dot-stuffed line or an odd terminator, and a command.
MCStreams ==
  UNION {[1 .. n -> Symbols] : n \in 0 .. 4}
  \cup {<<"lf", "dot", "dot", "lf", "dot", "cr", "lf", "lf">>,
        <<"lf", "other", "cr", "lf", "cr", "dot", "lf", "other", "lf">>,
        <<"other", "lf", "cr", "lf", "dot", "other", "lf", "dot", "lf", "lf">>}

\* Streams for the refinement and the liveness.
MCFewStreams ==
  UNION {[1 .. n -> {"lf", "dot", "other"}] : n \in 0 .. 3}
  \cup {<<"lf", "cr", "lf", "dot", "cr", "lf", "other", "lf">>,
        <<"lf", "dot", "dot", "lf", "dot", "lf", "lf">>}
=============================================================================

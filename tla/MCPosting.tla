----------------------------- MODULE MCPosting -----------------------------
(* The instances of Posting that TLC checks. *)
EXTENDS Posting

CONSTANTS c1, a, b, c

\* One connection, broken and opened again without bound.  Connections meet only
\* in the store, and PostingProofs covers any number of them.
MCConns  == {c1}
MCIds    == {a, b, c}
MCTwo    == {a, b}
MCJunk   == {b}
MCWindow == 3
=============================================================================

----------------------------- MODULE MCSession -----------------------------
(* The instances of Session that TLC checks. *)
EXTENDS Session, TLC

CONSTANTS g1, g2, a, b, c

MCGroups == {g1, g2}
MCNames  == {g1, g2, "missing"}
MCMaxNum == 2
MCIds    == {a, b, c}

\* b is posted to both groups, under different numbers.
MCIdAt == (g1 :> <<a, b>>) @@ (g2 :> <<b, c>>)

\* One group with more numbers, for the moves inside it.
MCOneGroup  == {g1}
MCMoreNums  == 3
MCOneIdAt   == g1 :> <<a, b, c>>
MCOneNames  == {g1, "missing"}

\* The secondary buffer is for a GetArticle that writes before it fails.
MCScribblers == {"GetArticle"}

\* Any lookup that fails may have written to the slice it was given.
MCAllScribble == Lookups
============================================================================

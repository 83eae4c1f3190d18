--------------------------- MODULE MCPostedArticle ---------------------------
(* The instance of PostedArticle and PostedHeader that TLC checks. *)
EXTENDS PostedHeader

\* Every input of at most five bytes, and behind a blank line every body of at
\* most four.
MCPosts == UNION {[1 .. n -> Symbols] : n \in 0 .. 5}
           \cup {<<"other", "lf", "cr", "lf">> \o b : b \in UNION {[1 .. n -> Symbols] : n \in 0 .. 4}}
=============================================================================

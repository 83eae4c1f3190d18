---------------------------- MODULE MCDotWriting ----------------------------
(* The instance of DotWriting that TLC checks. *)
EXTENDS DotWriting

MCLines   == {<<"status">>, <<"status", "status", "status">>}
MCChunks  == UNION {[1 .. n -> Symbols] : n \in 0 .. 2}
             \cup {<<"lf", "dot", "cr">>, <<"dot", "lf", "other">>, <<"dot", "dot", "cr", "lf">>}
MCRoom    == 2
MCLongest == 5
=============================================================================

------------------------------ MODULE MCService ------------------------------
(* The instance of Service that TLC checks. *)
EXTENDS Service, TLC

CONSTANTS c1, c2, n1, n2, r1, r2, g1, g2, g3, g4, u, v

MCConns   == {c1, c2}
MCNntp    == {n1, n2}
MCReaders == {r1, r2}
MCGroups  == {g1, g2, g3, g4}
MCUsers   == {u, v}
MCOpen    == {v}
MCKnows   == c1 :> {u} @@ c2 :> {}
MCFields  == 2
MCGiven   == {}
Symmetry  == Permutations(MCNntp) \cup Permutations(MCReaders) \cup Permutations(MCGroups)
=============================================================================

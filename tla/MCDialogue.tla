----------------------------- MODULE MCDialogue -----------------------------
(* The instance of Dialogue that TLC checks. *)
EXTENDS Dialogue

MCWindow == 2
=============================================================================

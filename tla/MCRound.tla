------------------------------ MODULE MCRound -------------------------------
(* Round on small instances. *)
EXTENDS Round
=============================================================================

---------------------------- MODULE MCStateFile -----------------------------
(* StateFile on small instances. *)
EXTENDS StateFile
=============================================================================

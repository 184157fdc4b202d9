----------------------------- MODULE MCWarming ------------------------------
(* Warming on small instances. *)
EXTENDS Warming, TLC

Symmetry == Permutations(Account)
=============================================================================

---------------------------- MODULE MCLifecycle -----------------------------
(* Lifecycle on small instances. *)
EXTENDS Lifecycle, TLC

Symmetry == Permutations(Slot) \cup Permutations(Worker)
=============================================================================

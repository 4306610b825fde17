----------------------------- MODULE MCScanner -----------------------------
(* Instances of Scanner for TLC. *)
EXTENDS Scanner, TLC
Symmetry == Permutations(Jobs) \cup Permutations(Handlers)
=============================================================================

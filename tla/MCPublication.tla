--------------------------- MODULE MCPublication ---------------------------
(* Instances of Publication for TLC: devices of one make and model. *)
EXTENDS Publication
SameModel(d) == "m"

\* They are interchangeable.
Symmetry == Permutations(Devices)
=============================================================================

------------------------------ MODULE MCScanJob ------------------------------
(* ScanJob for TLC. *)
EXTENDS ScanJob, TLC

\* The clients are interchangeable (used only where no liveness is checked).
Symmetry == Permutations(Clients)
==============================================================================

--------------------------- MODULE MCWorkerThread ---------------------------
(* WorkerThread for TLC: two callers and a job that is destroyed at any time. *)
EXTENDS WorkerThread

=============================================================================

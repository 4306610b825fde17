------------------------------ MODULE SyncCall ------------------------------
(***************************************************************************)
(* What executeSynchronously() of basic/workerthread.h promises: a call is *)
(* executed exactly once, and a caller returns only after its own call has *)
(* been executed.                                                          *)
(***************************************************************************)
CONSTANT Callers

VARIABLE
    phase   \* phase[c]: "idle", "called" (inside the call) or "executed"

Init == phase = [c \in Callers |-> "idle"]

Call(c) ==
    /\ phase[c] = "idle"
    /\ phase' = [phase EXCEPT ![c] = "called"]

Execute(c) ==
    /\ phase[c] = "called"
    /\ phase' = [phase EXCEPT ![c] = "executed"]

Return(c) ==
    /\ phase[c] = "executed"
    /\ phase' = [phase EXCEPT ![c] = "idle"]

Next == \E c \in Callers : Call(c) \/ Execute(c) \/ Return(c)

Spec == Init /\ [][Next]_phase
=============================================================================

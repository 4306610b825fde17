------------------------- MODULE WorkerThreadProofs -------------------------
(***************************************************************************)
(* Theorems about WorkerThread, for any set of callers.  They assume that   *)
(* calls do not overlap: with Overlap = TRUE they do not hold.              *)
(***************************************************************************)
EXTENDS WorkerThread, TLAPS

\* Handshake is inductive once the types are known.
IInv == TypeOK /\ Handshake

(* The handshake invariant holds initially and every step of the            *)
(* constructor, the destructor, the callers and threadFunc keeps it.        *)
LEMMA Inductive ==
    ASSUME ~Overlap
    PROVE  /\ Init => IInv
           /\ IInv /\ [Next]_vars => IInv'
<1> USE CallersAssumption
<1>1. Init => IInv
  BY DEF Init, IInv, TypeOK, Handshake
<1>2. ASSUME IInv, [Next]_vars
      PROVE  IInv'
  <2> USE <1>2 DEF IInv, TypeOK, Handshake
  <2>1. CASE Started
    BY <2>1 DEF Started
  <2>2. CASE NotifyStarted
    BY <2>2 DEF NotifyStarted, NotifyThread, shared
  <2>3. CASE Loop
    BY <2>3 DEF Loop, shared
  <2>4. CASE Lock
    BY <2>4 DEF Lock
  <2>5. CASE OnCall
    BY <2>5 DEF OnCall
  <2>6. CASE NotifyDone
    BY <2>6 DEF NotifyDone, NotifyThread, shared
  <2>7. CASE Create
    BY <2>7 DEF Create, shared
  <2>8. CASE CreateWoken
    BY <2>8 DEF CreateWoken, shared
  <2>9. CASE DestroyNotify
    BY <2>9 DEF DestroyNotify, NotifyExecute, shared
  <2>10. CASE Join
    BY <2>10 DEF Join, shared
  <2>11. CASE Destroy
    BY <2>11 DEF Destroy
  <2>12. CASE SpuriousWakeup
    BY <2>12 DEF SpuriousWakeup, NotifyThread, shared
  <2>13. CASE UNCHANGED vars
    BY <2>13 DEF vars, shared
  <2>14. ASSUME NEW c \in Callers, Begin(c)
         PROVE  IInv'
    BY <2>14 DEF Begin, shared
  <2>15. ASSUME NEW c \in Callers, Enter(c)
         PROVE  IInv'
    BY <2>15 DEF Enter, NotifyExecute
  <2>16. ASSUME NEW c \in Callers, Woken(c)
         PROVE  IInv'
    BY <2>16 DEF Woken, shared
  <2> QED
    BY <1>2, <2>1, <2>2, <2>3, <2>4, <2>5, <2>6, <2>7, <2>8, <2>9, <2>10, <2>11,
       <2>12, <2>13, <2>14, <2>15, <2>16
       DEF Next, WorkerStep, OwnerStep, CallerStep, Deleted
<1> QED BY <1>1, <1>2

(* Calls that do not overlap keep the type invariant and the handshake.     *)
THEOREM InvariantHolds ==
    ASSUME ~Overlap
    PROVE  Safety => []IInv
BY Inductive, PTL DEF Safety

(* The slot and the flags follow the handshake.                             *)
THEOREM HandshakeHolds ==
    ASSUME ~Overlap
    PROVE  Safety => []Handshake
BY InvariantHolds, PTL DEF IInv

(* The handshake implements synchronous calls: each call is executed        *)
(* exactly once and before executeSynchronously returns.                    *)
THEOREM Refinement ==
    ASSUME ~Overlap
    PROVE  Safety => ImplementsSyncCall
<1> USE CallersAssumption
<1> DEFINE phase == [c \in Callers |-> IF cpc[c] = "idle" THEN "idle"
                                       ELSE IF executed[c] THEN "executed" ELSE "called"]
<1>1. Init => Abstract!Init
  BY DEF Init, Abstract!Init
<1>2. ASSUME IInv, [Next]_vars
      PROVE  [Abstract!Next]_phase
  <2> USE <1>2 DEF IInv, TypeOK, Handshake, Abstract!Next
  <2>1. ASSUME NEW c \in Callers, Begin(c)
        PROVE  Abstract!Call(c)
    BY <2>1 DEF Begin, Abstract!Call
  <2>2. ASSUME NEW c \in Callers, Enter(c)
        PROVE  phase' = phase
    BY <2>2 DEF Enter
  <2>3. ASSUME NEW c \in Callers, Woken(c)
        PROVE  Abstract!Return(c) \/ phase' = phase
    BY <2>3 DEF Woken, Abstract!Return, shared
  <2>4. CASE OnCall
    <3>1. PICK c \in Callers : c = mpCallable
      BY <2>4 DEF OnCall
    <3>2. Abstract!Execute(c)
      BY <2>4, <3>1 DEF OnCall, Abstract!Execute
    <3> QED BY <3>2
  <2>5. CASE NotifyStarted \/ NotifyDone \/ SpuriousWakeup
    BY <2>5 DEF NotifyStarted, NotifyDone, SpuriousWakeup, NotifyThread
  <2>6. CASE \/ Started \/ Loop \/ Lock \/ OwnerStep \/ Destroy \/ UNCHANGED vars
    BY <2>6 DEF Started, Loop, Lock, OwnerStep, Create, CreateWoken, DestroyNotify,
                Join, Destroy, vars
  <2> QED
    BY <2>1, <2>2, <2>3, <2>4, <2>5, <2>6 DEF Next, WorkerStep, CallerStep, Deleted
<1> QED BY <1>1, <1>2, InvariantHolds, PTL DEF Safety, ImplementsSyncCall, Abstract!Spec
=============================================================================

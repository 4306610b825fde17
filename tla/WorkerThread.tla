---------------------------- MODULE WorkerThread ----------------------------
(***************************************************************************)
(* basic/workerthread.cpp: one thread that executes the calls handed to it *)
(* by executeSynchronously(), with a mutex and two condition variables.    *)
(*                                                                         *)
(* A step is a stretch of code that runs with mMutex held, or one          *)
(* notification or unlocked read outside of it.  onCall() is a stretch of  *)
(* its own: it is executed with the mutex held and may take as long as a   *)
(* scan.  The owner is the thread that runs the constructor and later the  *)
(* destructor (the ScanJob, which lives until nobody refers to it).        *)
(***************************************************************************)
EXTENDS Naturals

CONSTANTS
    Callers,    \* threads that call executeSynchronously()
    Overlap,    \* may a call begin while another one is in progress?
    None        \* nullptr

ASSUME CallersAssumption == None \notin Callers
ASSUME OverlapAssumption == Overlap \in BOOLEAN

VARIABLES
    locked,       \* mMutex is held across steps: the worker executes onCall()
    mpCallable,   \* the caller whose Callable is to be executed, or None
    mCallDone,
    mStarted,
    mTerminate,
    wpc, opc,     \* where the worker and the owner are
    cpc,          \* where each caller is
    executed      \* executed[c]: onCall() of c's present call has been run

shared == <<locked, mpCallable, mCallDone, mStarted, mTerminate>>
vars == <<shared, wpc, opc, cpc, executed>>

TypeOK ==
    /\ locked \in BOOLEAN
    /\ mpCallable \in Callers \cup {None}
    /\ mCallDone \in BOOLEAN /\ mStarted \in BOOLEAN /\ mTerminate \in BOOLEAN
    /\ wpc \in {"none", "begin", "notifyStarted", "loop", "lock", "wait",
                "onCall", "notifyDone", "exit"}
    /\ opc \in {"create", "wait", "woken", "ready", "notifyTerminate", "join",
                "deleted"}
    /\ cpc \in [Callers -> {"idle", "enter", "wait", "woken"}]
    /\ executed \in [Callers -> BOOLEAN]

Init ==
    /\ locked = FALSE
    /\ mpCallable = None
    /\ mCallDone = FALSE /\ mStarted = FALSE /\ mTerminate = FALSE
    /\ wpc = "none" /\ opc = "create"
    /\ cpc = [c \in Callers |-> "idle"]
    /\ executed = [c \in Callers |-> FALSE]

-----------------------------------------------------------------------------
(* The two condition variables.  A notification wakes one waiting thread,  *)
(* and is lost when no thread waits.                                       *)

\* Only the worker waits on mExecuteCondition.
NotifyExecute == wpc' = IF wpc = "wait" THEN "lock" ELSE wpc

\* Callers and, during construction, the owner wait on mThreadCondition.
NotifyThread ==
    \/ opc = "wait" /\ opc' = "woken" /\ UNCHANGED cpc
    \/ \E c \in Callers :
          cpc[c] = "wait" /\ cpc' = [cpc EXCEPT ![c] = "woken"] /\ UNCHANGED opc
    \/ /\ opc # "wait" /\ \A c \in Callers : cpc[c] # "wait"
       /\ UNCHANGED <<opc, cpc>>

\* A wait may also end without a notification.
SpuriousWakeup ==
    /\ \/ wpc = "wait" /\ wpc' = "lock" /\ UNCHANGED <<opc, cpc>>
       \/ NotifyThread /\ UNCHANGED wpc
    /\ UNCHANGED <<shared, executed>>

-----------------------------------------------------------------------------
(* WorkerThread::WorkerThread and WorkerThread::~WorkerThread *)

\* The constructor starts the thread and waits for mStarted, the mutex released.
Create ==
    /\ opc = "create"
    /\ opc' = "wait" /\ wpc' = "begin"
    /\ UNCHANGED <<shared, cpc, executed>>

CreateWoken ==
    /\ opc = "woken"
    /\ ~locked
    /\ opc' = IF mStarted THEN "ready" ELSE "wait"
    /\ UNCHANGED <<shared, wpc, cpc, executed>>

\* The destructor runs when nobody refers to the object any more.
Destroy ==
    /\ opc = "ready"
    /\ \A c \in Callers : cpc[c] = "idle"
    /\ ~locked
    /\ mTerminate' = TRUE
    /\ opc' = "notifyTerminate"
    /\ UNCHANGED <<locked, mpCallable, mCallDone, mStarted, wpc, cpc, executed>>

DestroyNotify ==
    /\ opc = "notifyTerminate"
    /\ NotifyExecute
    /\ opc' = "join"
    /\ UNCHANGED <<shared, cpc, executed>>

\* join() returns when the thread has ended; then the private data are deleted.
Join ==
    /\ opc = "join"
    /\ wpc = "exit"
    /\ opc' = "deleted"
    /\ UNCHANGED <<shared, wpc, cpc, executed>>

-----------------------------------------------------------------------------
(* WorkerThread::executeSynchronously *)

\* A thread decides to make a call (a request for a document reaches the job).
Begin(c) ==
    /\ opc = "ready"
    /\ cpc[c] = "idle"
    /\ Overlap \/ \A d \in Callers : cpc[d] = "idle"
    /\ executed' = [executed EXCEPT ![c] = FALSE]
    /\ cpc' = [cpc EXCEPT ![c] = "enter"]
    /\ UNCHANGED <<shared, wpc, opc>>

\* Mutant: mCallDone is not reset, so the wait may end at once.
EnterKeepsDone(c) ==
    /\ cpc[c] = "enter"
    /\ ~locked
    /\ mpCallable' = c
    /\ NotifyExecute
    /\ cpc' = [cpc EXCEPT ![c] = IF mCallDone THEN "idle" ELSE "wait"]
    /\ UNCHANGED <<locked, mCallDone, mStarted, mTerminate, opc, executed>>

\* Mutant: the worker is not notified.
EnterSilently(c) ==
    /\ cpc[c] = "enter"
    /\ ~locked
    /\ mpCallable' = c
    /\ mCallDone' = FALSE
    /\ cpc' = [cpc EXCEPT ![c] = "wait"]
    /\ UNCHANGED <<locked, mStarted, mTerminate, wpc, opc, executed>>

\* Under the mutex: hand over the Callable, reset mCallDone, notify, and wait,
\* which releases the mutex.  The default build defines NDEBUG, so that nothing
\* checks whether the slot is free.
Enter(c) ==
    /\ cpc[c] = "enter"
    /\ ~locked
    /\ mpCallable' = c
    /\ mCallDone' = FALSE
    /\ NotifyExecute
    /\ cpc' = [cpc EXCEPT ![c] = "wait"]
    /\ UNCHANGED <<locked, mStarted, mTerminate, opc, executed>>

\* Awake: take the mutex and look at mCallDone again; return, or wait on.
Woken(c) ==
    /\ cpc[c] = "woken"
    /\ ~locked
    /\ cpc' = [cpc EXCEPT ![c] = IF mCallDone THEN "idle" ELSE "wait"]
    /\ UNCHANGED <<shared, wpc, opc, executed>>

-----------------------------------------------------------------------------
(* WorkerThread::Private::threadFunc *)

Started ==
    /\ wpc = "begin"
    /\ ~locked
    /\ mStarted' = TRUE
    /\ wpc' = "notifyStarted"
    /\ UNCHANGED <<locked, mpCallable, mCallDone, mTerminate, opc, cpc, executed>>

NotifyStarted ==
    /\ wpc = "notifyStarted"
    /\ NotifyThread
    /\ wpc' = "loop"
    /\ UNCHANGED <<shared, executed>>

\* The loop condition reads mTerminate without the mutex.
Loop ==
    /\ wpc = "loop"
    /\ wpc' = IF mTerminate THEN "exit" ELSE "lock"
    /\ UNCHANGED <<shared, opc, cpc, executed>>

\* Mutant: the wait's predicate leaves out mTerminate.
LockIgnoresTerminate ==
    /\ wpc = "lock"
    /\ ~locked
    /\ locked' = (mpCallable # None)
    /\ wpc' = IF mpCallable # None THEN "onCall" ELSE "wait"
    /\ UNCHANGED <<mpCallable, mCallDone, mStarted, mTerminate, opc, cpc, executed>>

\* With the mutex: wait for a Callable or mTerminate, then execute or loop.
Lock ==
    /\ wpc = "lock"
    /\ ~locked
    /\ locked' = (mpCallable # None)
    /\ wpc' = IF mpCallable # None THEN "onCall"
              ELSE IF mTerminate THEN "loop" ELSE "wait"
    /\ UNCHANGED <<mpCallable, mCallDone, mStarted, mTerminate, opc, cpc, executed>>

\* onCall() has returned: free the slot, set mCallDone, release the mutex.
OnCall ==
    /\ wpc = "onCall"
    /\ executed' = [executed EXCEPT ![mpCallable] = TRUE]
    /\ mpCallable' = None
    /\ mCallDone' = TRUE
    /\ locked' = FALSE
    /\ wpc' = "notifyDone"
    /\ UNCHANGED <<mStarted, mTerminate, opc, cpc>>

NotifyDone ==
    /\ wpc = "notifyDone"
    /\ NotifyThread
    /\ wpc' = "loop"
    /\ UNCHANGED <<shared, executed>>

-----------------------------------------------------------------------------
WorkerStep == Started \/ NotifyStarted \/ Loop \/ Lock \/ OnCall \/ NotifyDone
OwnerStep == Create \/ CreateWoken \/ DestroyNotify \/ Join
CallerStep(c) == Enter(c) \/ Woken(c)

\* Nothing is left to do once the object is gone.
Deleted == opc = "deleted" /\ UNCHANGED vars

Next ==
    \/ WorkerStep
    \/ OwnerStep
    \/ \E c \in Callers : Begin(c) \/ CallerStep(c)
    \/ Destroy
    \/ SpuriousWakeup
    \/ Deleted

\* The scheduler runs every thread that can run, and a mutex that keeps being
\* released is granted in the end.  Calls and destruction need not happen, and
\* no wait is required to end without a notification.
Fairness ==
    /\ WF_vars(WorkerStep)
    /\ WF_vars(OwnerStep)
    /\ \A c \in Callers : SF_vars(CallerStep(c))

Safety == Init /\ [][Next]_vars

Spec == Safety /\ Fairness

-----------------------------------------------------------------------------
(* Properties *)

Abstract == INSTANCE SyncCall WITH
    phase <- [c \in Callers |-> IF cpc[c] = "idle" THEN "idle"
                                ELSE IF executed[c] THEN "executed" ELSE "called"]

(* The mutex, the two conditions and the three flags implement synchronous *)
(* calls: a call is executed exactly once, and executeSynchronously does    *)
(* not return before (its callers read functionCall.result right after).    *)
ImplementsSyncCall == Abstract!Spec

(* The protocol of the slot and the flags: the caller whose Callable is in  *)
(* the slot waits for it and mCallDone is not set; nobody else is inside;   *)
(* a caller that waits and is not in the slot has been executed.            *)
Handshake ==
    /\ locked <=> wpc = "onCall"
    /\ wpc = "onCall" => mpCallable # None
    /\ \A c, d \in Callers : cpc[c] # "idle" /\ cpc[d] # "idle" => c = d
    /\ mpCallable # None => /\ cpc[mpCallable] \in {"wait", "woken"}
                            /\ ~executed[mpCallable]
                            /\ ~mCallDone
    /\ \A c \in Callers :
          /\ cpc[c] = "enter" => ~executed[c]
          /\ cpc[c] \in {"wait", "woken"} => mpCallable = c \/ executed[c]
          /\ cpc[c] # "idle" => opc = "ready"

(* assert(p->mpCallable == nullptr) of executeSynchronously: a caller that  *)
(* gets the mutex finds the slot free.                                      *)
SlotFree == \A c \in Callers : cpc[c] = "enter" /\ ~locked => mpCallable = None

(* No wakeup is lost: every call of executeSynchronously returns.          *)
EveryCallReturns == \A c \in Callers : cpc[c] = "enter" ~> cpc[c] = "idle"

(* ~WorkerThread returns: mTerminate reaches the worker wherever it is.    *)
DestructorReturns == opc = "notifyTerminate" ~> opc = "deleted"
=============================================================================

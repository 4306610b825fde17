------------------------------- MODULE Server -------------------------------
(***************************************************************************)
(* server/server.cpp, server/purgethread.cpp and server/main.cpp: the      *)
(* reload loop of the server thread around HttpServer::run, and the threads *)
(* that run beside it: signal handlers, hotplug notifiers, one detached     *)
(* thread per connection, and the purge thread.                             *)
(*                                                                         *)
(* A scanner is known by its device and the iteration of the loop that      *)
(* created it.  A Scanner object lives as long as mScanners or a handler    *)
(* refers to it (shared_ptr); with it go its jobs and their SANE handles.   *)
(* What a job does with its handle is the subject of module ScanJob.        *)
(***************************************************************************)
EXTENDS HttpServer, FiniteSets

CONSTANTS
    Devices,     \* devices that may be attached
    Notifiers,   \* hotplug notifiers, each with a thread of its own
    NoEntry,
    MaxAsks      \* bound: signals, /reset requests and hotplug events

ASSUME ServerAssumption ==
    /\ Handlers \subseteq Terminators /\ Notifiers \subseteq Terminators
    /\ Handlers \cap Notifiers = {}
    /\ MaxAsks \in Nat /\ IsFiniteSet(Devices)

\* Threads that may execute main.cpp's signal handler.
Signallers == Terminators \ (Handlers \cup Notifiers)

Entries == [dev : Devices, iter : Nat]
ASSUME NoEntryAssumption == NoEntry \notin Entries

VARIABLES
    world,      \* the devices attached
    seen,       \* the devices that the last enumeration reported
    todo,       \* those of them that the loop has not dealt with
    iter,       \* number of the present iteration
    mScanners,  \* the entries of the scanner list
    saneRefs,   \* sane_init_refcount
    holder,     \* for each device the entry whose job has it open, or NoEntry
    ref,        \* the entry that a handler has copied, or NoEntry
    ppc,        \* the purge thread
    stopByte,   \* a byte is in the pipe of the purge thread
    pending,    \* events that a notifier has not delivered
    asked,      \* the statuses terminate() has been called with
    nAsks

loop == <<seen, todo, iter, mScanners>>
sane == <<saneRefs, holder>>
purge == <<ppc, stopByte>>
outside == <<world, pending, asked, nAsks>>
server == <<loop, sane, ref, purge, outside>>
vars == <<http, spc, runOk, tpc, asks, hpc, server>>

TypeOK ==
    /\ HttpTypeOK
    /\ spc \in {"access", "enumerate", "publish", "startPurge", "run", "pipe", "status",
                "listen", "poll", "leave", "closeWrite", "noFd", "notRunning", "ran",
                "join", "clear", "decideHup", "decideTerm", "finished", "crashed"}
    /\ hpc \in [Handlers -> {"free", "accepted", "reset", "iterate", "dangling",
                             "serving", "scanning"}]
    /\ world \subseteq Devices /\ seen \subseteq Devices /\ todo \subseteq seen
    /\ iter \in Nat \ {0}
    /\ mScanners \subseteq Entries
    /\ saneRefs \in Nat
    /\ holder \in [Devices -> Entries \cup {NoEntry}]
    /\ ref \in [Handlers -> Entries \cup {NoEntry}]
    /\ ppc \in {"none", "sleep", "purging", "exit"} /\ stopByte \in BOOLEAN
    /\ pending \in [Notifiers -> Nat]
    /\ asked \subseteq Signals
    /\ nAsks \in 0..MaxAsks

Init ==
    /\ HttpInit
    /\ spc = "access"
    /\ world \in SUBSET Devices
    /\ seen = {} /\ todo = {} /\ iter = 1 /\ mScanners = {}
    /\ saneRefs = 0 /\ holder = [d \in Devices |-> NoEntry]
    /\ ref = [h \in Handlers |-> NoEntry]
    /\ ppc = "none" /\ stopByte = FALSE
    /\ pending = [n \in Notifiers |-> 0]
    /\ asked = {} /\ nAsks = 0

-----------------------------------------------------------------------------
(* Threads that make the loop return *)

Ask(t, status) ==
    /\ tpc' = [tpc EXCEPT ![t] = "check"]
    /\ asks' = [asks EXCEPT ![t] = status]
    /\ asked' = asked \cup {status}

\* main.cpp, onSignal
OnSignal(t) ==
    /\ Alive
    /\ t \in Signallers /\ tpc[t] = "idle"
    /\ nAsks < MaxAsks /\ nAsks' = nAsks + 1
    /\ \E status \in Signals : Ask(t, status)
    /\ UNCHANGED <<http, spc, runOk, hpc, loop, sane, ref, purge, world, pending>>

\* A device arrives or leaves; the library queues the event for the notifier.
Plug(n) ==
    /\ Alive
    /\ nAsks < MaxAsks /\ nAsks' = nAsks + 1
    /\ \E d \in Devices : world' = (world \ {d}) \cup ({d} \ world)
    /\ pending' = [pending EXCEPT ![n] = @ + 1]
    /\ UNCHANGED <<http, spc, runOk, tpc, asks, hpc, loop, sane, ref, purge, asked>>

\* onHotplugEvent, called back for one event at a time, sleeps for the reload delay
OnHotplugEvent(n) ==
    /\ Alive
    /\ tpc[n] = "idle" /\ pending[n] > 0
    /\ pending' = [pending EXCEPT ![n] = @ - 1]
    /\ tpc' = [tpc EXCEPT ![n] = "sleep"]
    /\ UNCHANGED <<http, spc, runOk, asks, hpc, loop, sane, ref, purge, world, asked, nAsks>>

\* and then calls terminate(SIGHUP).
Slept(n) ==
    /\ Alive
    /\ tpc[n] = "sleep"
    /\ Ask(n, "HUP")
    /\ UNCHANGED <<http, spc, runOk, hpc, loop, sane, ref, purge, world, pending, nAsks>>

-----------------------------------------------------------------------------
(* Server::run *)

\* The access file is read; errors in it end the server.
ReadAccessFile ==
    /\ spc = "access"
    /\ \/ spc' = "enumerate" /\ UNCHANGED runOk
       \/ Failures /\ spc' = "finished" /\ runOk' = FALSE
    /\ UNCHANGED <<http, tpc, asks, hpc, server>>

\* sanecpp::init saneinit; sanecpp::enumerate_devices
EnumerateDevices ==
    /\ spc = "enumerate"
    /\ saneRefs' = saneRefs + 1
    /\ seen' = world /\ todo' = world
    /\ spc' = "publish"
    /\ UNCHANGED <<http, runOk, tpc, asks, hpc, iter, mScanners, holder, ref, purge, outside>>

\* A change of the vector invalidates the iterators of handlers in its loop.
Invalidate == hpc' = [h \in Handlers |-> IF hpc[h] = "iterate" THEN "dangling" ELSE hpc[h]]

\* The scanner is initialised, which opens its device for a moment, is announced
\* and put into the list; or it cannot be opened or announced.
Publish(d) ==
    /\ spc = "publish" /\ d \in todo
    /\ todo' = todo \ {d}
    /\ \/ /\ holder[d] = NoEntry
          /\ mScanners' = mScanners \cup {[dev |-> d, iter |-> iter]}
          /\ Invalidate
       \/ /\ holder[d] # NoEntry \/ Failures
          /\ UNCHANGED <<mScanners, hpc>>
    /\ UNCHANGED <<http, spc, runOk, tpc, asks, seen, iter, sane, ref, purge, outside>>

Published ==
    /\ spc = "publish" /\ todo = {}
    /\ spc' = "startPurge"
    /\ UNCHANGED <<http, runOk, tpc, asks, hpc, server>>

\* PurgeThread::PurgeThread, then HttpServer::run
StartPurge ==
    /\ spc = "startPurge"
    /\ ppc' = "sleep" /\ stopByte' = FALSE
    /\ spc' = "run"
    /\ UNCHANGED <<http, runOk, tpc, asks, hpc, loop, sane, ref, outside>>

\* Mutant: the destructor only joins.
StopPurgeSilently ==
    /\ spc = "ran"
    /\ spc' = "join"
    /\ UNCHANGED <<http, runOk, tpc, asks, hpc, server>>

\* PurgeThread::~PurgeThread writes a byte into the thread's pipe
StopPurge ==
    /\ spc = "ran"
    /\ stopByte' = TRUE
    /\ spc' = "join"
    /\ UNCHANGED <<http, runOk, tpc, asks, hpc, loop, sane, ref, ppc, outside>>

\* Mutant: the thread is detached.
DetachPurge ==
    /\ spc = "join"
    /\ spc' = "clear"
    /\ UNCHANGED <<http, runOk, tpc, asks, hpc, server>>

\* and joins it.
JoinPurge ==
    /\ spc = "join" /\ ppc = "exit"
    /\ ppc' = "none"
    /\ spc' = "clear"
    /\ UNCHANGED <<http, runOk, tpc, asks, hpc, loop, sane, ref, stopByte, outside>>

\* The devices of jobs whose scanner is neither in list nor in a handler's copy.
Orphans(list, copies) ==
    {d \in Devices : holder[d] # NoEntry
                     /\ holder[d] \notin list /\ \A h \in Handlers : holder[d] # copies[h]}

\* sane_close, and sane_init_release, for each of these devices
Close(devices) ==
    /\ holder' = [d \in Devices |-> IF d \in devices THEN NoEntry ELSE holder[d]]
    /\ saneRefs' = saneRefs - Cardinality(devices)

\* Mutant: handlers use the entry by reference, so clear() ends its lifetime.
ClearReferenced ==
    /\ spc = "clear"
    /\ mScanners' = {}
    /\ Close({d \in Devices : holder[d] \in mScanners})
    /\ Invalidate
    /\ spc' = "decideHup"
    /\ UNCHANGED <<http, runOk, tpc, asks, seen, todo, iter, ref, purge, outside>>

\* mScanners.clear() destroys the scanners no handler has a copy of.
Clear ==
    /\ spc = "clear"
    /\ mScanners' = {}
    /\ Close(Orphans({}, ref))
    /\ Invalidate
    /\ spc' = "decideHup"
    /\ UNCHANGED <<http, runOk, tpc, asks, seen, todo, iter, ref, purge, outside>>

\* SIGHUP: the next iteration; at the end of the block saneinit is destroyed.
DecideHup ==
    /\ spc = "decideHup"
    /\ IF runOk /\ mTerminationStatus = "HUP"
       THEN /\ spc' = "access" /\ iter' = iter + 1
            /\ saneRefs' = saneRefs - 1
       ELSE spc' = "decideTerm" /\ UNCHANGED <<iter, saneRefs>>
    /\ UNCHANGED <<http, runOk, tpc, asks, hpc, seen, todo, mScanners, holder, ref, purge,
                   outside>>

\* The status is read once more: SIGTERM, or an error.  The process ends.
DecideTerm ==
    /\ spc = "decideTerm"
    /\ runOk' = (runOk /\ mTerminationStatus = "TERM")
    /\ saneRefs' = saneRefs - 1
    /\ spc' = "finished"
    /\ UNCHANGED <<http, tpc, asks, hpc, loop, holder, ref, purge, outside>>

-----------------------------------------------------------------------------
(* PurgeThread::Private::threadFunc *)

\* interruptibleSleep: the timeout, or the byte, which ends the thread.
PurgeSleep ==
    /\ Alive
    /\ ppc = "sleep"
    /\ ppc' = IF stopByte THEN "exit" ELSE "purging"
    /\ UNCHANGED <<http, spc, runOk, tpc, asks, hpc, loop, sane, ref, stopByte, outside>>

InUse(d) == \E h \in Handlers : hpc[h] = "scanning" /\ ref[h].dev = d /\ ref[h] = holder[d]

\* Scanner::purgeJobs for every entry of the list: jobs that have been idle for
\* too long go, and with them handles that wait for the next sheet.
PurgeJobs ==
    /\ Alive
    /\ ppc = "purging"
    /\ \E idle \in SUBSET {d \in Devices : holder[d] \in mScanners /\ ~InUse(d)} : Close(idle)
    /\ ppc' = "sleep"
    /\ UNCHANGED <<http, spc, runOk, tpc, asks, hpc, loop, ref, stopByte, outside>>

-----------------------------------------------------------------------------
(* HttpServer::Private::handleRequest, Server::onRequest, handleScannerRequest *)

\* The access file forbids the client, or the request is malformed.
Refuse(h) ==
    /\ Alive
    /\ hpc[h] = "accepted"
    /\ hpc' = [hpc EXCEPT ![h] = "free"]
    /\ UNCHANGED <<http, spc, runOk, tpc, asks, server>>

\* The /reset page: terminate(SIGHUP), and on to the loop over the scanners
OnReset(h) ==
    /\ Alive
    /\ hpc[h] = "accepted"
    /\ nAsks < MaxAsks /\ nAsks' = nAsks + 1
    /\ Ask(h, "HUP")
    /\ hpc' = [hpc EXCEPT ![h] = "reset"]
    /\ UNCHANGED <<http, spc, runOk, loop, sane, ref, purge, world, pending>>

\* The loop over the scanners begins: iterators into the vector are taken.
\* It is over at once, with 404, when the vector is empty.
Iterate(h) ==
    /\ Alive
    /\ hpc[h] = "accepted" \/ (hpc[h] = "reset" /\ tpc[h] = "idle")
    /\ hpc' = [hpc EXCEPT ![h] = IF mScanners = {} THEN "free" ELSE "iterate"]
    /\ UNCHANGED <<http, spc, runOk, tpc, asks, server>>

\* An entry is copied and its URI matches the request's, or none does: 404.
CopyEntry(h) ==
    /\ Alive
    /\ hpc[h] = "iterate"
    /\ \/ /\ \E e \in mScanners : ref' = [ref EXCEPT ![h] = e]
          /\ hpc' = [hpc EXCEPT ![h] = "serving"]
       \/ hpc' = [hpc EXCEPT ![h] = "free"] /\ UNCHANGED ref
    /\ UNCHANGED <<http, spc, runOk, tpc, asks, loop, sane, purge, outside>>

\* An entry that has been destroyed or moved is copied: undefined.  The process
\* crashes, or nothing matches.
CopyDangling(h) ==
    /\ Alive
    /\ hpc[h] = "dangling"
    /\ spc' \in {spc, "crashed"}
    /\ hpc' = [hpc EXCEPT ![h] = "free"]
    /\ UNCHANGED <<http, runOk, tpc, asks, server>>

\* Mutant: sanecpp::open takes no reference to the library.
NextDocumentNoRef(h) ==
    /\ Alive
    /\ hpc[h] = "serving"
    /\ LET d == ref[h].dev IN
          /\ holder[d] = NoEntry \/ (holder[d] = ref[h] /\ ~InUse(d))
          /\ holder' = [holder EXCEPT ![d] = ref[h]]
          /\ UNCHANGED saneRefs
    /\ hpc' = [hpc EXCEPT ![h] = "scanning"]
    /\ UNCHANGED <<http, spc, runOk, tpc, asks, loop, ref, purge, outside>>

\* NextDocument: the job opens the device, or goes on with the handle it has.
NextDocument(h) ==
    /\ Alive
    /\ hpc[h] = "serving"
    /\ LET d == ref[h].dev IN
          /\ holder[d] = NoEntry \/ (holder[d] = ref[h] /\ ~InUse(d))
          /\ holder' = [holder EXCEPT ![d] = ref[h]]
          /\ saneRefs' = IF holder[d] = NoEntry THEN saneRefs + 1 ELSE saneRefs
    /\ hpc' = [hpc EXCEPT ![h] = "scanning"]
    /\ UNCHANGED <<http, spc, runOk, tpc, asks, loop, ref, purge, outside>>

\* The document has been sent: the session is closed, or kept for the next sheet.
EndDocument(h) ==
    /\ Alive
    /\ hpc[h] = "scanning"
    /\ Close({ref[h].dev}) \/ UNCHANGED sane
    /\ hpc' = [hpc EXCEPT ![h] = "serving"]
    /\ UNCHANGED <<http, spc, runOk, tpc, asks, loop, ref, purge, outside>>

\* DELETE: cancelJob closes the handle of the job, in this thread.  A request
\* that scans with it fails at its next call (and may end the process there).
CancelJob(h) ==
    /\ Alive
    /\ hpc[h] = "serving" /\ holder[ref[h].dev] = ref[h]
    /\ Close({ref[h].dev})
    /\ hpc' = [g \in Handlers |-> IF hpc[g] = "scanning" /\ ref[g] = ref[h] THEN "serving"
                                                                         ELSE hpc[g]]
    /\ UNCHANGED <<http, spc, runOk, tpc, asks, loop, ref, purge, outside>>

\* The request is answered; the copy of the entry may be the last reference.
Answer(h) ==
    /\ Alive
    /\ hpc[h] = "serving"
    /\ hpc' = [hpc EXCEPT ![h] = "free"]
    /\ ref' = [ref EXCEPT ![h] = NoEntry]
    /\ Close(Orphans(mScanners, ref'))
    /\ UNCHANGED <<http, spc, runOk, tpc, asks, loop, purge, outside>>

-----------------------------------------------------------------------------
LoopStep ==
    \/ ReadAccessFile \/ EnumerateDevices \/ (\E d \in Devices : Publish(d)) \/ Published
    \/ StartPurge \/ StopPurge \/ JoinPurge \/ Clear \/ DecideHup \/ DecideTerm
RunStep ==
    \/ RunEnter /\ UNCHANGED server
    \/ RunPipe /\ UNCHANGED server
    \/ RunStatus /\ UNCHANGED server
    \/ RunListen /\ UNCHANGED server
    \/ PollPipe /\ UNCHANGED server
    \/ RunLeave /\ UNCHANGED server
    \/ RunCloseWrite /\ UNCHANGED server
    \/ RunReturn /\ UNCHANGED server
Poll ==
    \/ PollError /\ UNCHANGED server
    \/ \E h \in Handlers : PollAccept(h) /\ UNCHANGED server
TerminateStep(t) ==
    \/ TerminateCheck(t) /\ UNCHANGED server
    \/ TerminateWrite(t) /\ UNCHANGED server
NotifierStep(n) == OnHotplugEvent(n) \/ Slept(n)
PurgeStep == PurgeSleep \/ PurgeJobs
HandlerStep(h) ==
    \/ Refuse(h) \/ OnReset(h) \/ Iterate(h) \/ CopyEntry(h) \/ CopyDangling(h)
    \/ NextDocument(h) \/ EndDocument(h) \/ CancelJob(h) \/ Answer(h)

\* The process has ended.
Stopped == ~Alive /\ UNCHANGED vars

Next ==
    \/ LoopStep \/ RunStep \/ Poll \/ PurgeStep
    \/ \E h \in Handlers : HandlerStep(h)
    \/ \E n \in Notifiers : Plug(n) \/ NotifierStep(n)
    \/ \E t \in Terminators : OnSignal(t) \/ TerminateStep(t)
    \/ Stopped

\* Every thread keeps running; poll() reports the pipe when something is in it.
\* Handlers need not progress: a client may stop reading, a scan may take long.
Fairness ==
    /\ WF_vars(LoopStep \/ RunStep)
    /\ WF_vars(PurgeStep)
    /\ \A n \in Notifiers : WF_vars(NotifierStep(n))
    /\ \A t \in Terminators : WF_vars(TerminateStep(t))

Safety == Init /\ [][Next]_vars
Spec == Safety /\ Fairness

-----------------------------------------------------------------------------
(* Properties *)

(* Every handle, and the iteration that runs, has exactly one reference to  *)
(* the SANE library: sane_exit() is never called while a handle is open,    *)
(* and is called when nothing uses the library any more.                    *)
LoopRef == IF spc \in {"access", "enumerate", "finished"} THEN 0 ELSE 1
SaneRefsExact ==
    spc # "crashed" => saneRefs = LoopRef + Cardinality({d \in Devices : holder[d] # NoEntry})

(* Neither a reload nor the purge closes a handle under a request that      *)
(* scans with it (a DELETE does, and CancelJob says so), and handles whose  *)
(* scanner is gone are not left open.                                       *)
ScanKeepsHandle ==
    /\ \A h \in Handlers : hpc[h] = "scanning" => holder[ref[h].dev] = ref[h]
    /\ \A d \in Devices : holder[d] # NoEntry =>
          holder[d] \in mScanners \/ \E h \in Handlers : ref[h] = holder[d]

(* The list does not change while the purge thread, which takes no lock,    *)
(* may be in its loop over it.                                              *)
PurgeUndisturbed == [][ppc = "purging" => mScanners' = mScanners]_mScanners


(* When HttpServer::run has returned, the server ends or serves again: the  *)
(* purge thread can be joined, and no request in progress is waited for.    *)
ServesAgain == spc = "ran" ~> spc = "poll" \/ ~Alive

(* README.md: "repeat scanner search on hotplug event".                     *)
RescanOnHotplug == world # seen ~> world = seen \/ ~Alive
=============================================================================

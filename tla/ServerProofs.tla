---------------------------- MODULE ServerProofs ----------------------------
(***************************************************************************)
(* Theorems about Server for any number of devices, request threads and     *)
(* threads that ask for a reload, and any number of reloads.                *)
(***************************************************************************)
EXTENDS Server, FiniteSetTheorems, TLAPS

USE ServerAssumption, NoEntryAssumption, FailuresAssumption

ServerPc == {"access", "enumerate", "publish", "startPurge", "run", "pipe", "status",
             "listen", "poll", "leave", "closeWrite", "noFd", "notRunning", "ran",
             "join", "clear", "decideHup", "decideTerm", "finished", "crashed"}
HandlerPc == {"free", "accepted", "reset", "iterate", "dangling", "serving", "scanning"}

\* TypeOK, but for the reference count, which may be any integer: that it never
\* becomes negative follows from SaneRefsExact.
Types ==
    /\ HttpTypeOK
    /\ spc \in ServerPc /\ hpc \in [Handlers -> HandlerPc]
    /\ world \subseteq Devices /\ seen \subseteq Devices /\ todo \subseteq seen
    /\ iter \in Nat \ {0}
    /\ mScanners \subseteq Entries
    /\ saneRefs \in Int
    /\ holder \in [Devices -> Entries \cup {NoEntry}]
    /\ ref \in [Handlers -> Entries \cup {NoEntry}]
    /\ ppc \in {"none", "sleep", "purging", "exit"} /\ stopByte \in BOOLEAN
    /\ pending \in [Notifiers -> Nat]
    /\ asked \subseteq Signals
    /\ nAsks \in 0..MaxAsks

\* A request has a copy of an entry exactly while it deals with a scanner.
CopyHeld == \A h \in Handlers : ref[h] = NoEntry <=> hpc[h] \notin {"serving", "scanning"}

-----------------------------------------------------------------------------
(* Closing some of the devices leaves a function on the devices and takes   *)
(* an integer from the reference count.                                     *)
LEMMA CloseTypes ==
    ASSUME Types, NEW S \in SUBSET Devices, Close(S)
    PROVE  saneRefs' \in Int /\ holder' \in [Devices -> Entries \cup {NoEntry}]
<1>1. IsFiniteSet(S) /\ Cardinality(S) \in Nat
  BY FS_Subset, FS_CardinalityType
<1> QED BY <1>1 DEF Types, Close

(* A step of HttpServer leaves the server's own variables alone.            *)
LEMMA ServerFrame ==
    ASSUME Types, CopyHeld, UNCHANGED server, HttpTypeOK', spc' \in ServerPc,
           \/ hpc' = hpc
           \/ \E h \in Handlers : hpc[h] = "free" /\ hpc' = [hpc EXCEPT ![h] = "accepted"]
    PROVE  Types' /\ CopyHeld'
<1>1. hpc' \in [Handlers -> HandlerPc]
  BY DEF Types, HandlerPc
<1>2. CopyHeld'
  BY DEF Types, CopyHeld, server
<1> QED BY <1>1, <1>2 DEF Types, server, loop, sane, purge, outside

(* HttpServer::run, and terminate() in any thread.                          *)
LEMMA HttpTypes ==
    ASSUME Types, CopyHeld,
           RunStep \/ Poll \/ \E t \in Terminators : TerminateStep(t)
    PROVE  Types' /\ CopyHeld'
<1> USE DEF HttpTypeOK, ServerPc, Signals, http
<1>0. HttpTypeOK /\ spc \in ServerPc /\ hpc \in [Handlers -> HandlerPc]
  BY DEF Types
<1>1. CASE RunEnter /\ UNCHANGED server
  BY <1>0, <1>1, ServerFrame DEF RunEnter
<1>2. CASE RunPipe /\ UNCHANGED server
  <2>1. <<>> \in Seq(Signals)
    OBVIOUS
  <2>2. pipe' \in Seq(Signals)
    BY <1>0, <1>2, <2>1 DEF RunPipe
  <2>3. mRunning' \in BOOLEAN /\ readable' \in BOOLEAN /\ runOk' \in BOOLEAN
    BY <1>0, <1>2 DEF RunPipe
  <2>4. /\ mTerminationStatus' \in Signals \cup {"zero", "error"}
        /\ mPipeWriteFd' \in {"none", "open", "closed"}
        /\ UNCHANGED <<tpc, asks, hpc>> /\ spc' \in ServerPc
    BY <1>0, <1>2 DEF RunPipe
  <2>5. HttpTypeOK'
    BY <1>0, <2>2, <2>3, <2>4
  <2> HIDE DEF HttpTypeOK
  <2> QED BY <1>2, <2>4, <2>5, ServerFrame
<1>3. CASE RunStatus /\ UNCHANGED server
  BY <1>0, <1>3, ServerFrame DEF RunStatus
<1>4. CASE RunListen /\ UNCHANGED server
  BY <1>0, <1>4, ServerFrame DEF RunListen
<1>5. CASE PollPipe /\ UNCHANGED server
  <2>1. Head(pipe) \in Signals /\ Tail(pipe) \in Seq(Signals)
    BY <1>0, <1>5 DEF PollPipe
  <2>2. pipe' \in Seq(Signals) /\ mTerminationStatus' \in Signals \cup {"zero", "error"}
    BY <1>0, <1>5, <2>1 DEF PollPipe
  <2>3. mRunning' \in BOOLEAN /\ readable' \in BOOLEAN /\ runOk' \in BOOLEAN
    BY <1>0, <1>5 DEF PollPipe
  <2>4. UNCHANGED <<mPipeWriteFd, tpc, asks, hpc>> /\ spc' \in ServerPc
    BY <1>0, <1>5 DEF PollPipe
  <2>5. HttpTypeOK'
    BY <1>0, <2>2, <2>3, <2>4
  <2> HIDE DEF HttpTypeOK
  <2> QED BY <1>5, <2>4, <2>5, ServerFrame
<1>6. CASE RunLeave /\ UNCHANGED server
  <2>1. <<>> \in Seq(Signals)
    OBVIOUS
  <2>2. pipe' \in Seq(Signals) /\ mTerminationStatus' \in Signals \cup {"zero", "error"}
    BY <1>0, <1>6, <2>1 DEF RunLeave
  <2>3. mRunning' \in BOOLEAN /\ readable' \in BOOLEAN /\ runOk' \in BOOLEAN
    BY <1>0, <1>6 DEF RunLeave
  <2>4. UNCHANGED <<mPipeWriteFd, tpc, asks, hpc>> /\ spc' \in ServerPc
    BY <1>0, <1>6 DEF RunLeave
  <2>5. HttpTypeOK'
    BY <1>0, <2>2, <2>3, <2>4
  <2> HIDE DEF HttpTypeOK
  <2> QED BY <1>6, <2>4, <2>5, ServerFrame
<1>7. CASE RunCloseWrite /\ UNCHANGED server
  BY <1>0, <1>7, ServerFrame DEF RunCloseWrite
<1>8. CASE RunReturn /\ UNCHANGED server
  BY <1>0, <1>8, ServerFrame DEF RunReturn
<1>9. CASE PollError /\ UNCHANGED server
  BY <1>0, <1>9, ServerFrame DEF PollError
<1>10. ASSUME NEW h \in Handlers, PollAccept(h), UNCHANGED server
       PROVE  Types' /\ CopyHeld'
  BY <1>0, <1>10, ServerFrame DEF PollAccept
<1>11. ASSUME NEW t \in Terminators, TerminateCheck(t), UNCHANGED server
       PROVE  Types' /\ CopyHeld'
  BY <1>0, <1>11, ServerFrame DEF TerminateCheck
<1>12. ASSUME NEW t \in Terminators, TerminateWrite(t), UNCHANGED server
       PROVE  Types' /\ CopyHeld'
  BY <1>0, <1>12, ServerFrame DEF TerminateWrite
<1> QED
  BY <1>1, <1>2, <1>3, <1>4, <1>5, <1>6, <1>7, <1>8, <1>9, <1>10, <1>11, <1>12
     DEF RunStep, Poll, TerminateStep

(* Signals and hotplug events.                                              *)
LEMMA AskTypes ==
    ASSUME Types, CopyHeld,
           \/ \E t \in Terminators : OnSignal(t)
           \/ \E n \in Notifiers : Plug(n) \/ NotifierStep(n)
    PROVE  Types' /\ CopyHeld'
<1> USE DEF Types, HttpTypeOK, CopyHeld, Signals, http, loop, sane, purge
<1>1. ASSUME NEW t \in Terminators, OnSignal(t)
      PROVE  Types' /\ CopyHeld'
  BY <1>1 DEF OnSignal, Ask
<1>2. ASSUME NEW n \in Notifiers, Plug(n)
      PROVE  Types' /\ CopyHeld'
  BY <1>2 DEF Plug
<1>3. ASSUME NEW n \in Notifiers, OnHotplugEvent(n)
      PROVE  Types' /\ CopyHeld'
  BY <1>3 DEF OnHotplugEvent
<1>4. ASSUME NEW n \in Notifiers, Slept(n)
      PROVE  Types' /\ CopyHeld'
  BY <1>4 DEF Slept, Ask
<1> QED BY <1>1, <1>2, <1>3, <1>4 DEF NotifierStep

(* The loop of the server thread.                                           *)
LEMMA LoopTypes ==
    ASSUME Types, CopyHeld, LoopStep
    PROVE  Types' /\ CopyHeld'
<1>1. CASE ReadAccessFile
  BY <1>1 DEF ReadAccessFile, Types, HttpTypeOK, CopyHeld, ServerPc, http, server, loop, sane,
              purge, outside
<1>2. CASE EnumerateDevices
  BY <1>2 DEF EnumerateDevices, Types, HttpTypeOK, CopyHeld, ServerPc, http, purge, outside
<1>3. ASSUME NEW d \in Devices, Publish(d)
      PROVE  Types' /\ CopyHeld'
  BY <1>3 DEF Publish, Invalidate, Types, HttpTypeOK, CopyHeld, HandlerPc, Entries, http, sane,
              purge, outside
<1>4. CASE Published
  BY <1>4 DEF Published, Types, HttpTypeOK, CopyHeld, ServerPc, http, server, loop, sane,
              purge, outside
<1>5. CASE StartPurge \/ StopPurge \/ JoinPurge
  BY <1>5 DEF StartPurge, StopPurge, JoinPurge, Types, HttpTypeOK, CopyHeld, ServerPc, http,
              loop, sane, outside
<1>6. CASE Clear
  <2>1. Orphans({}, ref) \in SUBSET Devices
    BY DEF Orphans
  <2>2. saneRefs' \in Int /\ holder' \in [Devices -> Entries \cup {NoEntry}]
    BY <1>6, <2>1, CloseTypes DEF Clear
  <2>3. hpc' \in [Handlers -> HandlerPc] /\ CopyHeld'
    BY <1>6 DEF Clear, Invalidate, Types, CopyHeld, HandlerPc
  <2> QED BY <1>6, <2>2, <2>3 DEF Clear, Types, HttpTypeOK, ServerPc, http, purge, outside
<1>7. CASE DecideHup
  BY <1>7 DEF DecideHup, Types, HttpTypeOK, CopyHeld, ServerPc, http, purge, outside
<1>8. CASE DecideTerm
  <2>1. runOk' \in BOOLEAN
    BY <1>8, Zenon DEF DecideTerm
  <2> QED BY <1>8, <2>1 DEF DecideTerm, Types, HttpTypeOK, CopyHeld, ServerPc, http, loop,
                            purge, outside
<1> QED BY <1>1, <1>2, <1>3, <1>4, <1>5, <1>6, <1>7, <1>8 DEF LoopStep

(* Requests, and the purge thread.                                          *)
LEMMA HandlerTypes ==
    ASSUME Types, CopyHeld, PurgeStep \/ \E h \in Handlers : HandlerStep(h)
    PROVE  Types' /\ CopyHeld'
<1> USE DEF http, loop, purge, outside
<1>1. CASE PurgeSleep
  BY <1>1 DEF PurgeSleep, Types, HttpTypeOK, CopyHeld, sane
<1>2. CASE PurgeJobs
  <2>1. saneRefs' \in Int /\ holder' \in [Devices -> Entries \cup {NoEntry}]
    BY <1>2, CloseTypes DEF PurgeJobs
  <2> QED BY <1>2, <2>1 DEF PurgeJobs, Types, HttpTypeOK, CopyHeld
<1>3. ASSUME NEW h \in Handlers, Refuse(h) \/ Iterate(h) \/ CopyDangling(h)
      PROVE  Types' /\ CopyHeld'
  BY <1>3 DEF Refuse, Iterate, CopyDangling, Types, HttpTypeOK, CopyHeld, HandlerPc, ServerPc,
              server, sane
<1>4. ASSUME NEW h \in Handlers, OnReset(h)
      PROVE  Types' /\ CopyHeld'
  BY <1>4 DEF OnReset, Ask, Types, HttpTypeOK, CopyHeld, HandlerPc, Signals, sane
<1>5. ASSUME NEW h \in Handlers, CopyEntry(h)
      PROVE  Types' /\ CopyHeld'
  <2>1. /\ hpc' \in [Handlers -> HandlerPc] /\ ref' \in [Handlers -> Entries \cup {NoEntry}]
        /\ CopyHeld'
    BY <1>5 DEF CopyEntry, Types, CopyHeld, HandlerPc
  <2> QED BY <1>5, <2>1 DEF CopyEntry, Types, HttpTypeOK, sane
<1>6. ASSUME NEW h \in Handlers, NextDocument(h)
      PROVE  Types' /\ CopyHeld'
  <2>1. ref[h] \in Entries /\ ref[h].dev \in Devices
    BY <1>6 DEF NextDocument, Types, CopyHeld, Entries
  <2>2. saneRefs' \in Int /\ holder' \in [Devices -> Entries \cup {NoEntry}]
    BY <1>6, <2>1 DEF NextDocument, Types
  <2>3. hpc' \in [Handlers -> HandlerPc] /\ CopyHeld'
    BY <1>6 DEF NextDocument, Types, CopyHeld, HandlerPc
  <2> QED BY <1>6, <2>2, <2>3 DEF NextDocument, Types, HttpTypeOK
<1>7. ASSUME NEW h \in Handlers, EndDocument(h)
      PROVE  Types' /\ CopyHeld'
  <2>1. {ref[h].dev} \in SUBSET Devices
    BY <1>7 DEF EndDocument, Types, CopyHeld, Entries
  <2>2. saneRefs' \in Int /\ holder' \in [Devices -> Entries \cup {NoEntry}]
    BY <1>7, <2>1, CloseTypes DEF EndDocument, Types, sane
  <2>3. hpc' \in [Handlers -> HandlerPc] /\ CopyHeld'
    BY <1>7 DEF EndDocument, Types, CopyHeld, HandlerPc
  <2> QED BY <1>7, <2>2, <2>3 DEF EndDocument, Types, HttpTypeOK
<1>8. ASSUME NEW h \in Handlers, Answer(h)
      PROVE  Types' /\ CopyHeld'
  <2>1. Orphans(mScanners, ref') \in SUBSET Devices
    BY DEF Orphans
  <2>2. saneRefs' \in Int /\ holder' \in [Devices -> Entries \cup {NoEntry}]
    BY <1>8, <2>1, CloseTypes DEF Answer
  <2>3. /\ hpc' \in [Handlers -> HandlerPc] /\ CopyHeld'
        /\ ref' \in [Handlers -> Entries \cup {NoEntry}]
    BY <1>8 DEF Answer, Types, CopyHeld, HandlerPc
  <2> QED BY <1>8, <2>2, <2>3 DEF Answer, Types, HttpTypeOK
<1>9. ASSUME NEW h \in Handlers, CancelJob(h)
      PROVE  Types' /\ CopyHeld'
  <2>1. {ref[h].dev} \in SUBSET Devices
    BY <1>9 DEF CancelJob, Types, CopyHeld, Entries
  <2>2. saneRefs' \in Int /\ holder' \in [Devices -> Entries \cup {NoEntry}]
    BY <1>9, <2>1, CloseTypes DEF CancelJob
  <2>3. hpc' \in [Handlers -> HandlerPc] /\ CopyHeld'
    BY <1>9 DEF CancelJob, Types, CopyHeld, HandlerPc
  <2> QED BY <1>9, <2>2, <2>3 DEF CancelJob, Types, HttpTypeOK
<1> QED BY <1>1, <1>2, <1>3, <1>4, <1>5, <1>6, <1>7, <1>8, <1>9 DEF PurgeStep, HandlerStep

(* Every step of every thread keeps the types.                              *)
LEMMA TypesInductive ==
    /\ Init => Types /\ CopyHeld
    /\ Types /\ CopyHeld /\ [Next]_vars => Types' /\ CopyHeld'
<1>1. ASSUME Init
      PROVE  Types /\ CopyHeld
  <2>1. pipe \in Seq(Signals)
    BY <1>1 DEF Init, HttpInit
  <2>2. mRunning \in BOOLEAN /\ readable \in BOOLEAN /\ runOk \in BOOLEAN /\ stopByte \in BOOLEAN
    BY <1>1 DEF Init, HttpInit
  <2>3. /\ mTerminationStatus \in Signals \cup {"zero", "error"}
        /\ mPipeWriteFd \in {"none", "open", "closed"}
        /\ tpc \in [Terminators -> {"idle", "sleep", "check", "write"}]
        /\ asks \in [Terminators -> Signals]
    BY <1>1 DEF Init, HttpInit, Signals
  <2>4. /\ hpc \in [Handlers -> HandlerPc] /\ ref \in [Handlers -> Entries \cup {NoEntry}]
        /\ holder \in [Devices -> Entries \cup {NoEntry}]
        /\ pending \in [Notifiers -> Nat]
        /\ CopyHeld
    BY <1>1 DEF Init, HttpInit, CopyHeld, HandlerPc
  <2>5. HttpTypeOK
    BY <2>1, <2>2, <2>3 DEF HttpTypeOK
  <2> QED BY <1>1, <2>2, <2>4, <2>5 DEF Init, Types, ServerPc
<1>2. ASSUME Types, CopyHeld, UNCHANGED vars
      PROVE  Types' /\ CopyHeld'
  BY <1>2 DEF Types, HttpTypeOK, CopyHeld, vars, http, server, loop, sane, purge, outside
<1> QED BY <1>1, <1>2, HttpTypes, AskTypes, LoopTypes, HandlerTypes DEF Next, Stopped

-----------------------------------------------------------------------------
(* The steps that concern neither scanners nor their handles.               *)

Busy(h) == hpc[h] \in {"serving", "scanning"}

\* What such a step leaves alone.
Elsewhere ==
    /\ UNCHANGED <<mScanners, holder, ref>>
    /\ \A h \in Handlers : hpc'[h] # hpc[h] => ~Busy(h) /\ ~Busy(h)'

(* Everything but publishing, clearing, purging and serving is elsewhere.   *)
LEMMA ElsewhereSteps ==
    ASSUME Types, [Next]_vars
    PROVE  \/ Elsewhere
           \/ (\E d \in Devices : Publish(d)) \/ Clear \/ PurgeJobs
           \/ \E h \in Handlers : \/ CopyEntry(h) \/ NextDocument(h) \/ EndDocument(h)
                                 \/ CancelJob(h) \/ Answer(h)
<1> USE DEF Elsewhere, Types, Busy, server, loop, sane
<1>1. CASE RunStep \/ (PollError /\ UNCHANGED server)
  BY <1>1 DEF RunStep, RunEnter, RunPipe, RunStatus, RunListen, PollPipe, RunLeave,
              RunCloseWrite, RunReturn, PollError
<1>2. ASSUME NEW h \in Handlers, PollAccept(h), UNCHANGED server
      PROVE  Elsewhere
  BY <1>2 DEF PollAccept
<1>3. ASSUME NEW t \in Terminators, OnSignal(t) \/ TerminateStep(t)
      PROVE  Elsewhere
  BY <1>3 DEF OnSignal, TerminateStep, TerminateCheck, TerminateWrite
<1>4. ASSUME NEW n \in Notifiers, Plug(n) \/ NotifierStep(n)
      PROVE  Elsewhere
  BY <1>4 DEF Plug, NotifierStep, OnHotplugEvent, Slept
<1>5. CASE ReadAccessFile \/ EnumerateDevices \/ Published \/ StartPurge \/ StopPurge
           \/ JoinPurge \/ DecideHup \/ DecideTerm \/ PurgeSleep
  BY <1>5 DEF ReadAccessFile, EnumerateDevices, Published, StartPurge, StopPurge, JoinPurge,
              DecideHup, DecideTerm, PurgeSleep
<1>6. ASSUME NEW h \in Handlers, Refuse(h) \/ OnReset(h) \/ Iterate(h) \/ CopyDangling(h)
      PROVE  Elsewhere
  BY <1>6 DEF Refuse, OnReset, Iterate, CopyDangling
<1>7. CASE UNCHANGED vars
  BY <1>7 DEF vars
<1> HIDE DEF Elsewhere, Types, Busy, server, loop, sane
<1> QED
  BY <1>1, <1>2, <1>3, <1>4, <1>5, <1>6, <1>7
     DEF Next, LoopStep, Poll, PurgeStep, HandlerStep, Stopped

-----------------------------------------------------------------------------
(* Handles.                                                                 *)

\* A handle belongs to a scanner of its device that the list or a request
\* refers to; a request that scans has the handle of its scanner, for itself.
HandlesInv ==
    /\ \A d \in Devices : holder[d] # NoEntry => holder[d].dev = d
    /\ \A h \in Handlers : hpc[h] = "scanning" => holder[ref[h].dev] = ref[h]
    /\ \A h, g \in Handlers :
          hpc[h] = "scanning" /\ hpc[g] = "scanning" /\ ref[h].dev = ref[g].dev => h = g
    /\ \A d \in Devices : holder[d] # NoEntry =>
          holder[d] \in mScanners \/ \E h \in Handlers : ref[h] = holder[d]

(* Every step keeps it: reload, purge and the end of a request close the    *)
(* handles of scanners that nobody refers to any more, and no others.       *)
LEMMA HandlesInductive ==
    /\ Init => HandlesInv
    /\ Types /\ CopyHeld /\ HandlesInv /\ [Next]_vars => HandlesInv'
<1>1. Init => HandlesInv
  BY DEF Init, HttpInit, HandlesInv
<1>2. ASSUME Types, CopyHeld, HandlesInv, [Next]_vars
      PROVE  HandlesInv'
  <2> USE <1>2
  <2>1. CASE Elsewhere
    BY <2>1 DEF Elsewhere, Busy, HandlesInv
  <2>2. ASSUME NEW d \in Devices, Publish(d)
        PROVE  HandlesInv'
    <3>1. /\ UNCHANGED <<holder, ref>> /\ mScanners \subseteq mScanners'
          /\ \A h \in Handlers : hpc'[h] = "scanning" => hpc[h] = "scanning"
      BY <2>2 DEF Publish, Invalidate, sane
    <3> QED BY <3>1 DEF HandlesInv
  <2>3. CASE Clear
    <3>1. /\ ref' = ref /\ mScanners' = {}
          /\ \A d \in Devices : holder'[d] = IF d \in Orphans({}, ref) THEN NoEntry ELSE holder[d]
          /\ \A h \in Handlers : hpc'[h] = "scanning" => hpc[h] = "scanning"
      BY <2>3 DEF Clear, Close, Invalidate
    <3>2. \A d \in Devices : d \in Orphans({}, ref) <=>
             holder[d] # NoEntry /\ \A h \in Handlers : holder[d] # ref[h]
      BY DEF Orphans
    <3>3. \A h \in Handlers : hpc[h] = "scanning" => ref[h].dev \in Devices
      BY DEF Types, CopyHeld, Entries
    <3> QED BY <3>1, <3>2, <3>3 DEF HandlesInv
  <2>4. CASE PurgeJobs
    <3>1. PICK idle \in SUBSET {d \in Devices : holder[d] \in mScanners /\ ~InUse(d)} : Close(idle)
      BY <2>4 DEF PurgeJobs
    <3>2. /\ UNCHANGED <<ref, hpc, mScanners>>
          /\ \A d \in Devices : holder'[d] = IF d \in idle THEN NoEntry ELSE holder[d]
      BY <2>4, <3>1 DEF PurgeJobs, Close, loop
    <3>3. \A h \in Handlers : hpc[h] = "scanning" => ref[h].dev \in Devices /\ InUse(ref[h].dev)
      BY DEF Types, CopyHeld, Entries, HandlesInv, InUse
    <3>4. \A h \in Handlers : hpc[h] = "scanning" => ref[h].dev \notin idle
      BY <3>1, <3>3
    <3> QED BY <3>2, <3>3, <3>4 DEF HandlesInv
  <2>5. ASSUME NEW h \in Handlers, CopyEntry(h)
        PROVE  HandlesInv'
    <3>1. /\ UNCHANGED <<mScanners, holder>>
          /\ hpc'[h] # "scanning" /\ ref[h] = NoEntry
          /\ \A g \in Handlers \ {h} : hpc'[g] = hpc[g] /\ ref'[g] = ref[g]
      BY <2>5 DEF CopyEntry, Types, CopyHeld, loop, sane
    <3> QED BY <3>1 DEF HandlesInv
  <2>6. ASSUME NEW h \in Handlers, NextDocument(h)
        PROVE  HandlesInv'
    <3> DEFINE d == ref[h].dev
    <3>1. ref[h] \in Entries /\ d \in Devices /\ ref[h] # NoEntry
      BY <2>6 DEF NextDocument, Types, CopyHeld, Entries
    <3>2. /\ UNCHANGED <<mScanners, ref>>
          /\ holder[d] = NoEntry \/ (holder[d] = ref[h] /\ ~InUse(d))
          /\ hpc'[h] = "scanning" /\ holder'[d] = ref[h]
          /\ \A g \in Handlers \ {h} : hpc'[g] = hpc[g]
          /\ \A e \in Devices \ {d} : holder'[e] = holder[e]
      BY <2>6, <3>1 DEF NextDocument, Types, loop
    <3>3. \A g \in Handlers : hpc[g] = "scanning" =>
             /\ ref[g].dev \in Devices /\ ref[g].dev # d
             /\ holder[ref[g].dev] = ref[g]
      <4> SUFFICES ASSUME NEW g \in Handlers, hpc[g] = "scanning"
                   PROVE  /\ ref[g].dev \in Devices /\ ref[g].dev # d
                          /\ holder[ref[g].dev] = ref[g]
        OBVIOUS
      <4>1. ref[g].dev \in Devices /\ ref[g] # NoEntry /\ holder[ref[g].dev] = ref[g]
        BY DEF Types, CopyHeld, Entries, HandlesInv
      <4>2. ref[g].dev = d => InUse(d) /\ holder[d] # NoEntry
        BY <4>1 DEF InUse
      <4> QED BY <3>2, <4>1, <4>2
    <3> HIDE DEF d
    <3>4. \A g \in Handlers : hpc'[g] = "scanning" => holder'[ref'[g].dev] = ref'[g]
      BY <3>2, <3>3 DEF d
    <3>5. \A f, g \in Handlers :
             hpc'[f] = "scanning" /\ hpc'[g] = "scanning" /\ ref'[f].dev = ref'[g].dev => f = g
      BY <3>2, <3>3 DEF d, HandlesInv
    <3>6. \A e \in Devices : holder'[e] # NoEntry =>
             /\ holder'[e].dev = e
             /\ holder'[e] \in mScanners' \/ \E g \in Handlers : ref'[g] = holder'[e]
      BY <3>2 DEF d, HandlesInv
    <3> QED BY <3>4, <3>5, <3>6 DEF HandlesInv
  <2>7. ASSUME NEW h \in Handlers, EndDocument(h)
        PROVE  HandlesInv'
    <3>1. /\ UNCHANGED <<mScanners, ref>>
          /\ hpc[h] = "scanning" /\ hpc'[h] = "serving"
          /\ \A g \in Handlers \ {h} : hpc'[g] = hpc[g]
      BY <2>7 DEF EndDocument, Types, loop
    <3>2. \A e \in Devices : holder'[e] = holder[e] \/ (e = ref[h].dev /\ holder'[e] = NoEntry)
      BY <2>7 DEF EndDocument, Close, sane
    <3>3. \A g \in Handlers : hpc'[g] = "scanning" => ref[g].dev \in Devices /\ ref[g].dev # ref[h].dev
      BY <3>1 DEF Types, CopyHeld, Entries, HandlesInv
    <3> QED BY <3>1, <3>2, <3>3 DEF HandlesInv
  <2>8. ASSUME NEW h \in Handlers, Answer(h)
        PROVE  HandlesInv'
    <3>1. /\ mScanners' = mScanners
          /\ hpc'[h] = "free" /\ ref'[h] = NoEntry
          /\ \A g \in Handlers \ {h} : hpc'[g] = hpc[g] /\ ref'[g] = ref[g]
          /\ \A d \in Devices : holder'[d] = IF d \in Orphans(mScanners, ref') THEN NoEntry ELSE holder[d]
      BY <2>8 DEF Answer, Close, Types, loop
    <3>2. \A d \in Devices : d \in Orphans(mScanners, ref') <=>
             holder[d] # NoEntry /\ holder[d] \notin mScanners /\ \A g \in Handlers : holder[d] # ref'[g]
      BY DEF Orphans
    <3>3. \A g \in Handlers : hpc[g] = "scanning" => ref[g].dev \in Devices
      BY DEF Types, CopyHeld, Entries
    <3> QED BY <3>1, <3>2, <3>3 DEF HandlesInv
  <2>9. ASSUME NEW h \in Handlers, CancelJob(h)
        PROVE  HandlesInv'
    <3>1. /\ UNCHANGED <<mScanners, ref>>
          /\ holder[ref[h].dev] = ref[h]
          /\ \A g \in Handlers : hpc'[g] = "scanning" => hpc[g] = "scanning" /\ ref[g] # ref[h]
      BY <2>9 DEF CancelJob, loop
    <3>2. \A e \in Devices : holder'[e] = IF e = ref[h].dev THEN NoEntry ELSE holder[e]
      BY <2>9 DEF CancelJob, Close
    <3>3. \A g \in Handlers : hpc'[g] = "scanning" => ref[g].dev \in Devices /\ ref[g].dev # ref[h].dev
      BY <3>1 DEF Types, CopyHeld, Entries, HandlesInv
    <3> QED BY <3>1, <3>2, <3>3 DEF HandlesInv
  <2> QED BY <2>1, <2>2, <2>3, <2>4, <2>5, <2>6, <2>7, <2>8, <2>9, ElsewhereSteps
<1> QED BY <1>1, <1>2

(* Any number of devices, requests and reloads: no handle is closed under a *)
(* request that scans with it, and none is left open without a scanner.     *)
THEOREM ScanKeepsHandleHolds == Safety => []ScanKeepsHandle
<1>1. HandlesInv => ScanKeepsHandle
  BY DEF HandlesInv, ScanKeepsHandle
<1> QED BY <1>1, TypesInductive, HandlesInductive, PTL DEF Safety

-----------------------------------------------------------------------------
(* References to the SANE library.                                          *)

Opened == {d \in Devices : holder[d] # NoEntry}

\* SaneRefsExact; a crashed process leaves the count as it was.
RefsInv ==
    /\ spc # "crashed" => saneRefs = LoopRef + Cardinality(Opened)
    /\ saneRefs \in Nat

(* The devices that are open are finitely many.                             *)
LEMMA OpenedFinite == IsFiniteSet(Opened) /\ Cardinality(Opened) \in Nat
BY FS_Subset, FS_CardinalityType DEF Opened

(* Closing open devices takes as many references as there are devices less. *)
LEMMA CloseExact ==
    ASSUME Types, NEW S \in SUBSET Opened, Close(S)
    PROVE  saneRefs' - Cardinality(Opened') = saneRefs - Cardinality(Opened)
<1>1. Opened' = Opened \ S
  BY DEF Opened, Close, Types
<1>2. Opened \cap S = S
  OBVIOUS
<1>3. /\ Cardinality(Opened \ S) = Cardinality(Opened) - Cardinality(S)
  BY <1>2, OpenedFinite, FS_Difference
<1>4. Cardinality(S) \in Nat /\ Cardinality(Opened) \in Nat
  BY OpenedFinite, FS_Subset, FS_CardinalityType
<1>5. saneRefs' = saneRefs - Cardinality(S)
  BY DEF Close
<1> QED BY <1>1, <1>3, <1>4, <1>5 DEF Types

(* A step that leaves the count and the handles alone, and the loop on the  *)
(* same side of saneinit, keeps the invariant.                              *)
LEMMA RefsFrame ==
    ASSUME RefsInv, UNCHANGED <<saneRefs, holder>>, spc' = "crashed" \/ LoopRef' = LoopRef,
           spc = "crashed" => spc' = "crashed"
    PROVE  RefsInv'
BY DEF RefsInv, Opened

(* Every step keeps the count exact.                                        *)
LEMMA RefsInductive ==
    /\ Init => RefsInv
    /\ Types /\ CopyHeld /\ HandlesInv /\ RefsInv /\ [Next]_vars => RefsInv'
<1>1. ASSUME Init
      PROVE  RefsInv
  <2>1. Opened = {}
    BY <1>1 DEF Init, Opened
  <2> QED BY <1>1, <2>1, FS_EmptySet DEF Init, RefsInv, LoopRef
<1>2. ASSUME Types, CopyHeld, HandlesInv, RefsInv, [Next]_vars
      PROVE  RefsInv'
  <2> USE <1>2
  <2>1. Cardinality(Opened) \in Nat /\ Cardinality(Opened') \in Nat
    <3>1. IsFiniteSet(Opened')
      BY FS_Subset DEF Opened
    <3> QED BY <3>1, OpenedFinite, FS_CardinalityType
  <2>2. ASSUME saneRefs' - Cardinality(Opened') = saneRefs - Cardinality(Opened),
               spc' = spc \/ spc' # "crashed", LoopRef' = LoopRef, spc # "crashed"
        PROVE  RefsInv'
    <3>1. saneRefs = LoopRef + Cardinality(Opened) /\ LoopRef \in Nat
      BY <2>2 DEF RefsInv, LoopRef
    <3> DEFINE n == Cardinality(Opened)
               m == Cardinality(Opened')
    <3>2. n \in Nat /\ m \in Nat /\ saneRefs' - m = saneRefs - n /\ saneRefs = LoopRef + n
      BY <2>1, <2>2, <3>1
    <3>3. saneRefs' \in Int
      BY TypesInductive DEF Types
    <3> HIDE DEF n, m
    <3>4. saneRefs' = LoopRef + m /\ saneRefs' \in Nat
      BY <3>1, <3>2, <3>3
    <3> QED BY <2>2, <3>4 DEF RefsInv, m
  <2>3. CASE Clear
    <3>1. Orphans({}, ref) \in SUBSET Opened /\ Close(Orphans({}, ref))
      BY <2>3 DEF Clear, Orphans, Opened
    <3> QED BY <2>2, <2>3, <3>1, CloseExact DEF Clear, LoopRef
  <2>4. CASE PurgeJobs
    <3>1. PICK idle \in SUBSET {d \in Devices : holder[d] \in mScanners /\ ~InUse(d)} : Close(idle)
      BY <2>4 DEF PurgeJobs
    <3>2. idle \in SUBSET Opened
      BY <3>1 DEF Opened, Types
    <3> QED BY <2>2, <2>4, <3>1, <3>2, CloseExact DEF PurgeJobs, Alive, LoopRef
  <2>5. ASSUME NEW h \in Handlers, Answer(h)
        PROVE  RefsInv'
    <3>1. Orphans(mScanners, ref') \in SUBSET Opened /\ Close(Orphans(mScanners, ref'))
      BY <2>5 DEF Answer, Orphans, Opened
    <3> QED BY <2>2, <2>5, <3>1, CloseExact DEF Answer, Alive, LoopRef
  <2>6. ASSUME NEW h \in Handlers, EndDocument(h)
        PROVE  RefsInv'
    <3>1. spc' = spc /\ spc # "crashed"
      BY <2>6 DEF EndDocument, Alive
    <3>2. CASE UNCHANGED sane
      BY <3>1, <3>2, RefsFrame DEF sane, LoopRef
    <3>3. CASE Close({ref[h].dev})
      <4>1. ref[h] \in Entries /\ ref[h] # NoEntry /\ holder[ref[h].dev] = ref[h]
        BY <2>6 DEF EndDocument, Types, CopyHeld, HandlesInv
      <4>2. {ref[h].dev} \in SUBSET Opened
        BY <4>1 DEF Opened, Entries
      <4> QED BY <2>2, <3>1, <3>3, <4>2, CloseExact DEF LoopRef
    <3> QED BY <2>6, <3>2, <3>3 DEF EndDocument
  <2>7. ASSUME NEW h \in Handlers, NextDocument(h)
        PROVE  RefsInv'
    <3> DEFINE d == ref[h].dev
    <3>1. ref[h] \in Entries /\ ref[h] # NoEntry /\ d \in Devices
      BY <2>7 DEF NextDocument, Types, CopyHeld, Entries
    <3>2. spc' = spc /\ spc # "crashed"
      BY <2>7 DEF NextDocument, Alive
    <3>3. CASE holder[d] = NoEntry
      <4>1. Opened' = Opened \cup {d} /\ d \notin Opened
        BY <2>7, <3>1, <3>3 DEF NextDocument, Opened, Types
      <4>2. Cardinality(Opened') = Cardinality(Opened) + 1
        BY <4>1, OpenedFinite, FS_AddElement
      <4>3. saneRefs' = saneRefs + 1
        BY <2>7, <3>3 DEF NextDocument
      <4> QED BY <2>1, <2>2, <3>2, <4>2, <4>3 DEF LoopRef, Types
    <3>4. CASE holder[d] = ref[h]
      <4>1. UNCHANGED <<saneRefs, holder>>
        BY <2>7, <3>1, <3>4 DEF NextDocument, Types
      <4> QED BY <3>2, <4>1, RefsFrame DEF LoopRef
    <3> QED BY <2>7, <3>3, <3>4 DEF NextDocument
  <2>8. CASE EnumerateDevices
    <3>1. /\ spc = "enumerate" /\ spc' = "publish" /\ saneRefs' = saneRefs + 1 /\ holder' = holder
      BY <2>8 DEF EnumerateDevices
    <3>2. Opened' = Opened /\ LoopRef = 0 /\ LoopRef' = 1
      BY <3>1 DEF Opened, LoopRef
    <3> QED BY <2>1, <3>1, <3>2 DEF RefsInv
  <2>9. CASE DecideHup
    <3>1. CASE spc' = "access"
      <4>1. spc = "decideHup" /\ saneRefs' = saneRefs - 1 /\ holder' = holder
        BY <2>9, <3>1 DEF DecideHup
      <4>2. Opened' = Opened /\ LoopRef = 1 /\ LoopRef' = 0
        BY <3>1, <4>1 DEF Opened, LoopRef
      <4> QED BY <2>1, <3>1, <4>1, <4>2 DEF RefsInv
    <3>2. CASE spc' = "decideTerm"
      BY <2>9, <3>2, RefsFrame DEF DecideHup, LoopRef
    <3> QED BY <2>9, <3>1, <3>2 DEF DecideHup
  <2>10. CASE DecideTerm
    <3>1. spc = "decideTerm" /\ spc' = "finished" /\ saneRefs' = saneRefs - 1 /\ holder' = holder
      BY <2>10 DEF DecideTerm, loop
    <3>2. Opened' = Opened /\ LoopRef = 1 /\ LoopRef' = 0
      BY <3>1 DEF Opened, LoopRef
    <3> QED BY <2>1, <3>1, <3>2 DEF RefsInv
  <2>11. CASE ReadAccessFile \/ (\E d \in Devices : Publish(d)) \/ Published \/ StartPurge
              \/ StopPurge \/ JoinPurge \/ PurgeSleep
    BY <2>11, RefsFrame DEF ReadAccessFile, Publish, Published, StartPurge, StopPurge, JoinPurge,
                            PurgeSleep, LoopRef, server, sane
  <2>12. CASE RunStep \/ (PollError /\ UNCHANGED server)
              \/ \E h \in Handlers : PollAccept(h) /\ UNCHANGED server
    BY <2>12, RefsFrame DEF RunStep, RunEnter, RunPipe, RunStatus, RunListen, PollPipe, RunLeave,
                            RunCloseWrite, RunReturn, PollError, PollAccept, LoopRef, server, sane
  <2>13. ASSUME NEW t \in Terminators, OnSignal(t) \/ TerminateStep(t)
         PROVE  RefsInv'
    BY <2>13, RefsFrame DEF OnSignal, TerminateStep, TerminateCheck, TerminateWrite, LoopRef,
                            server, sane
  <2>14. ASSUME NEW n \in Notifiers, Plug(n) \/ NotifierStep(n)
         PROVE  RefsInv'
    BY <2>14, RefsFrame DEF Plug, NotifierStep, OnHotplugEvent, Slept, LoopRef, sane
  <2>15. ASSUME NEW h \in Handlers,
                Refuse(h) \/ OnReset(h) \/ Iterate(h) \/ CopyEntry(h) \/ CopyDangling(h)
         PROVE  RefsInv'
    BY <2>15, RefsFrame DEF Refuse, OnReset, Iterate, CopyEntry, CopyDangling, LoopRef, Alive,
                            server, sane
  <2>16. CASE UNCHANGED vars
    BY <2>16, RefsFrame DEF vars, LoopRef, server, sane
  <2>17. ASSUME NEW h \in Handlers, CancelJob(h)
         PROVE  RefsInv'
    <3>1. spc' = spc /\ spc # "crashed" /\ Close({ref[h].dev})
      BY <2>17 DEF CancelJob, Alive
    <3>2. ref[h] \in Entries /\ ref[h] # NoEntry /\ holder[ref[h].dev] = ref[h]
      BY <2>17 DEF CancelJob, Types, CopyHeld
    <3>3. {ref[h].dev} \in SUBSET Opened
      BY <3>2 DEF Opened, Entries
    <3> QED BY <2>2, <3>1, <3>3, CloseExact DEF LoopRef
  <2> QED
    BY <1>2, <2>3, <2>4, <2>5, <2>6, <2>7, <2>8, <2>9, <2>10, <2>11, <2>12, <2>13, <2>14,
       <2>15, <2>16, <2>17 DEF Next, LoopStep, Poll, PurgeStep, HandlerStep, Stopped
<1> QED BY <1>1, <1>2

(* Any number of devices, requests and reloads: the library is referred to  *)
(* once for every open handle and once for the iteration that runs.         *)
THEOREM SaneRefsExactHolds == Safety => []SaneRefsExact
<1>1. RefsInv => SaneRefsExact
  BY DEF RefsInv, SaneRefsExact, Opened
<1> QED BY <1>1, TypesInductive, HandlesInductive, RefsInductive, PTL DEF Safety

(* Type correctness of the server; the reference count never is negative.   *)
THEOREM TypeCorrect == Safety => []TypeOK
<1>1. Types /\ RefsInv => TypeOK
  BY DEF Types, RefsInv, TypeOK, ServerPc, HandlerPc
<1> QED BY <1>1, TypesInductive, HandlesInductive, RefsInductive, PTL DEF Safety

-----------------------------------------------------------------------------
(* The purge thread.                                                        *)

\* The purge thread exists only between its construction, after the list is
\* made, and the join in its destructor, before the list is cleared.
PurgeInv ==
    ppc # "none" => spc \in {"run", "pipe", "status", "listen", "poll", "leave", "closeWrite",
                             "noFd", "notRunning", "ran", "join", "crashed"}

(* Every step keeps it.                                                     *)
LEMMA PurgeInductive ==
    /\ Init => PurgeInv
    /\ PurgeInv /\ [Next]_vars => PurgeInv'
<1>1. Init => PurgeInv
  BY DEF Init, PurgeInv
<1>2. ASSUME PurgeInv, [Next]_vars
      PROVE  PurgeInv'
  <2> USE <1>2 DEF PurgeInv
  <2>1. CASE ReadAccessFile \/ EnumerateDevices \/ (\E d \in Devices : Publish(d)) \/ Published
             \/ Clear \/ DecideHup \/ DecideTerm
    BY <2>1 DEF ReadAccessFile, EnumerateDevices, Publish, Published, Clear, DecideHup, DecideTerm,
                server, purge
  <2>2. CASE StartPurge \/ StopPurge \/ JoinPurge
    BY <2>2 DEF StartPurge, StopPurge, JoinPurge
  <2>3. CASE RunStep \/ (PollError /\ UNCHANGED server)
             \/ \E h \in Handlers : PollAccept(h) /\ UNCHANGED server
    BY <2>3 DEF RunStep, RunEnter, RunPipe, RunStatus, RunListen, PollPipe, RunLeave,
                RunCloseWrite, RunReturn, PollError, PollAccept, server, purge
  <2>4. CASE PurgeSleep \/ PurgeJobs
    BY <2>4 DEF PurgeSleep, PurgeJobs
  <2>5. CASE \/ \E t \in Terminators : OnSignal(t) \/ TerminateStep(t)
             \/ \E n \in Notifiers : Plug(n) \/ NotifierStep(n)
    BY <2>5 DEF OnSignal, TerminateStep, TerminateCheck, TerminateWrite, Plug, NotifierStep,
                OnHotplugEvent, Slept, server, purge
  <2>6. ASSUME NEW h \in Handlers, HandlerStep(h)
        PROVE  PurgeInv'
    BY <2>6 DEF HandlerStep, Refuse, OnReset, Iterate, CopyEntry, CopyDangling, NextDocument,
                EndDocument, CancelJob, Answer, server, purge
  <2>7. CASE UNCHANGED vars
    BY <2>7 DEF vars, server, purge
  <2> QED
    BY <1>2, <2>1, <2>2, <2>3, <2>4, <2>5, <2>6, <2>7 DEF Next, LoopStep, Poll, PurgeStep, Stopped
<1> QED BY <1>1, <1>2

(* The list of scanners does not change under the purge thread, which takes *)
(* no lock, whatever asks for a reload and when.                            *)
THEOREM PurgeUndisturbedHolds == Safety => PurgeUndisturbed
<1>1. ASSUME Types, PurgeInv, [Next]_vars
      PROVE  [ppc = "purging" => mScanners' = mScanners]_mScanners
  <2>1. ASSUME NEW h \in Handlers,
               CopyEntry(h) \/ NextDocument(h) \/ EndDocument(h) \/ CancelJob(h) \/ Answer(h)
        PROVE  mScanners' = mScanners
    BY <2>1 DEF CopyEntry, NextDocument, EndDocument, CancelJob, Answer, loop
  <2>2. CASE PurgeJobs
    BY <2>2 DEF PurgeJobs, loop
  <2>3. CASE Clear \/ \E d \in Devices : Publish(d)
    BY <1>1, <2>3 DEF Clear, Publish, PurgeInv
  <2> QED BY <1>1, <2>1, <2>2, <2>3, ElsewhereSteps DEF Elsewhere
<1> QED BY <1>1, TypesInductive, PurgeInductive, PTL DEF Safety, PurgeUndisturbed
=============================================================================

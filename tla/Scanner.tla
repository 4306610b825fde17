------------------------------ MODULE Scanner ------------------------------
(***************************************************************************)
(* server/scanner.cpp: the jobs of one scanner.  Request threads            *)
(* (Server::handleScannerRequest, ScannerPage) create, look up, transfer,    *)
(* cancel and list them; the purge thread drops those that have been idle   *)
(* for too long.  The device can be open in one job at a time.              *)
(*                                                                         *)
(* Inside a job, beginTransfer and finishTransfer are reduced to the steps  *)
(* that others can see; module ScanJob has them in full, with the faults    *)
(* that end the process.  A job in the map has a reference there, a request *)
(* has another; the job is destroyed, and its session with it, when the     *)
(* last one goes.                                                          *)
(***************************************************************************)
EXTENDS Naturals, FiniteSets

CONSTANTS
    Jobs,       \* places for jobs; a place is taken again after its job is destroyed
    Handlers,   \* request threads
    Purge,      \* the purge thread
    None,
    Kinds,      \* kinds of jobs that are created
    MaxIdle,    \* mJobtimeout, in ticks of the clock
    Sheets      \* bound: sheets in the document feeder, for each job

ASSUME ScannerAssumption ==
    /\ None \notin Jobs \cup Handlers \cup {Purge} /\ Purge \notin Handlers
    /\ Kinds \subseteq {"single", "adfSingle"}
    /\ MaxIdle \in Nat /\ Sheets \in Nat

Finished == {"aborted", "canceled", "completed"}
AdfStatus == {"GOOD", "problem"}     \* JAMMED, COVER_OPEN or NO_DOCS

\* The clock is seen only as a difference; more than MaxIdle is all the same.
Ticks == 0 .. MaxIdle + 1
Later(t) == IF t > MaxIdle THEN t ELSE t + 1

VARIABLES
    mJobs, mJobsMutex,  \* the map, and who has its mutex
    mState, mKind, mAdfStatus,  \* the state is "none" in a place without a job
    sess,               \* the job's session: "null", "open", or "dead" (open failed)
    left,               \* sheets left for the job
    idle,               \* ticks since mLastActive
    since,              \* ticks since finishTransfer has returned, for a job in the map
    mpSession,          \* the job of the session referred to weakly
    mTemporaryAdfStatus,
    openFailed,         \* sane_open has failed since there was no session at all
    at,                 \* what each request thread does
    visit               \* jobs the purge thread has still to look at

job == <<mState, mKind, mAdfStatus, sess, left, idle, since>>
map == <<mJobs, mJobsMutex>>
vars == <<map, job, mpSession, mTemporaryAdfStatus, openFailed, at, visit>>

Nowhere == [pc |-> "idle", job |-> None]
Init ==
    /\ mJobs = {} /\ mJobsMutex = None
    /\ mState = [j \in Jobs |-> "none"]
    /\ mKind = [j \in Jobs |-> "single"]
    /\ mAdfStatus = [j \in Jobs |-> "GOOD"]
    /\ sess = [j \in Jobs |-> "null"]
    /\ left = [j \in Jobs |-> Sheets]
    /\ idle = [j \in Jobs |-> MaxIdle + 1] /\ since = [j \in Jobs |-> MaxIdle + 1]
    /\ mpSession = None
    /\ mTemporaryAdfStatus = "GOOD"
    /\ openFailed = FALSE
    /\ at = [h \in Handlers |-> Nowhere]
    /\ visit = {}

\* A second goes by.
Tick ==
    /\ idle' = [j \in Jobs |-> Later(idle[j])]
    /\ since' = [j \in Jobs |-> Later(since[j])]
    /\ UNCHANGED <<map, mState, mKind, mAdfStatus, sess, left, mpSession,
                   mTemporaryAdfStatus,
                   openFailed, at, visit>>

-----------------------------------------------------------------------------
At(h, pc) == at[h].pc = pc
Go(h, pc) == at' = [at EXCEPT ![h].pc = pc]
My(h) == at[h].job
Users(j) == {h \in Handlers : My(h) = j}
Unlocked == mJobsMutex = None

\* Jobs constructed and not destroyed.
Alive == {j \in Jobs : mState[j] # "none"}

\* ~ScanJob, after the states and the sessions have got these values: the
\* session is closed.
Destroy(gone, states, sessions) ==
    LET Reset(f, v) == [j \in Jobs |-> IF j \in gone THEN v ELSE f[j]]
    IN /\ mState' = Reset(states, "none") /\ sess' = Reset(sessions, "null")
       /\ mKind' = Reset(mKind, "single") /\ mAdfStatus' = Reset(mAdfStatus, "GOOD")
       /\ left' = Reset(left, Sheets)

\* A request has been answered.  Its reference to the job goes, and so may the
\* job.
ReturnWith(h, states, sessions) ==
    /\ at' = [at EXCEPT ![h] = Nowhere]
    /\ Destroy({My(h)} \ (mJobs \cup {My(g) : g \in Handlers \ {h}}), states, sessions)

\* isOpen
IsOpen == mpSession # None /\ sess[mpSession] # "null"

-----------------------------------------------------------------------------
(* POST ScanJobs, and the preview and download buttons of the scanner page *)

\* createJob: the job is in the map, with the state of the constructor.  Its
\* kind will be the one of the ticket.
CreateJob(h, j) ==
    /\ At(h, "idle") /\ Unlocked
    /\ mState[j] = "none"
    /\ mState' = [mState EXCEPT ![j] = "pending"]
    /\ \E kind \in Kinds : mKind' = [mKind EXCEPT ![j] = kind]
    /\ mJobs' = mJobs \cup {j}
    /\ idle' = [idle EXCEPT ![j] = 0]
    /\ \E pc \in {"init", "initDownload"} : at' = [at EXCEPT ![h] = [pc |-> pc, job |-> j]]
    /\ UNCHANGED <<mJobsMutex, mAdfStatus, sess, left, since, mpSession,
                   mTemporaryAdfStatus,
                   openFailed, visit>>

\* initWithScanSettingsXml stores the state, whatever it is by now.  The
\* download goes on with the transfer, the others answer with the job's URI.
InitJob(h) ==
    /\ At(h, "init") \/ At(h, "initDownload")
    /\ \E s \in {"pending", "aborted"} :
          LET states == [mState EXCEPT ![My(h)] = s]
          IN IF At(h, "init") THEN ReturnWith(h, states, sess)
             ELSE /\ Go(h, "pageBegin") /\ mState' = states
                  /\ UNCHANGED <<mKind, mAdfStatus, sess, left>>
    /\ UNCHANGED <<map, idle, since, mpSession, mTemporaryAdfStatus, openFailed, visit>>

-----------------------------------------------------------------------------
(* GET NextDocument *)

\* getJob and isFinished: the answer is 404, or a transfer is tried.
NextDocument(h, j) ==
    /\ At(h, "idle") /\ Unlocked
    /\ j \in mJobs /\ mState[j] \notin Finished
    /\ at' = [at EXCEPT ![h] = [pc |-> "begin", job |-> j]]
    /\ UNCHANGED <<map, job, mpSession, mTemporaryAdfStatus, openFailed, visit>>

\* The job's worker executes one call at a time.
Working == {"open", "start", "transfer", "update", "ended", "pageOpen", "pageStart"}
Busy(j) == \E h \in Users(j) : at[h].pc \in Working

\* beginTransfer: pending becomes processing, or the transfer is refused.
BeginTransfer(h) ==
    /\ At(h, "begin") \/ At(h, "pageBegin")
    /\ ~Busy(My(h))
    /\ IF mState[My(h)] = "pending"
       THEN /\ mState' = [mState EXCEPT ![My(h)] = "processing"]
            /\ Go(h, IF At(h, "begin") THEN "open" ELSE "pageOpen")
       ELSE /\ Go(h, IF At(h, "begin") THEN "refused" ELSE "pageRefused")
            /\ UNCHANGED mState
    /\ UNCHANGED <<map, mKind, mAdfStatus, sess, left, idle, since, mpSession,
                   mTemporaryAdfStatus,
                   openFailed, visit>>

DeviceFree == \A j \in Jobs : sess[j] # "open"
Unused == \A j \in Jobs : sess[j] = "null"

\* Mutant: the weak reference is set once.
OpenOnce(h) ==
    /\ At(h, "open") \/ At(h, "pageOpen")
    /\ IF sess[My(h)] = "null"
       THEN /\ mpSession' = IF mpSession = None THEN My(h) ELSE mpSession
            /\ \E s \in {"dead"} \cup (IF DeviceFree THEN {"open"} ELSE {}) :
                  /\ sess' = [sess EXCEPT ![My(h)] = s]
                  /\ openFailed' = (s = "dead" \/ (openFailed /\ ~Unused))
       ELSE UNCHANGED <<mpSession, sess, openFailed>>
    /\ Go(h, IF At(h, "open") THEN "start" ELSE "pageStart")
    /\ UNCHANGED <<map, mState, mKind, mAdfStatus, left, idle, since,
                   mTemporaryAdfStatus, visit>>

\* Scanner::open, for a job that has no session from its last sheet.  The weak
\* reference follows every opening, a failed one included.
Open(h) ==
    /\ At(h, "open") \/ At(h, "pageOpen")
    /\ IF sess[My(h)] = "null"
       THEN /\ mpSession' = My(h)
            /\ \E s \in {"dead"} \cup (IF DeviceFree THEN {"open"} ELSE {}) :
                  /\ sess' = [sess EXCEPT ![My(h)] = s]
                  /\ openFailed' = (s = "dead" \/ (openFailed /\ ~Unused))
       ELSE UNCHANGED <<mpSession, sess, openFailed>>
    /\ Go(h, IF At(h, "open") THEN "start" ELSE "pageStart")
    /\ UNCHANGED <<map, mState, mKind, mAdfStatus, left, idle, since,
                   mTemporaryAdfStatus, visit>>

\* sane_start and updateStatus: a scan that has started makes the job
\* processing, even one canceled meanwhile; any other status ends it and
\* closes the session.
StartResult(j) ==
    LET feeder == mKind[j] = "adfSingle"
        used == left[j] < Sheets
    IN IF sess[j] # "open" THEN {<<"aborted", "GOOD">>}
       ELSE {<<"aborted", "GOOD">>, <<"aborted", "problem">>}
            \cup (IF feeder /\ left[j] = 0
                  THEN {<<IF used THEN "completed" ELSE "aborted", "problem">>}
                  ELSE {<<"processing", "GOOD">>})

Start(h) ==
    LET j == My(h) IN
    /\ At(h, "start") \/ At(h, "pageStart")
    /\ \E r \in StartResult(j) :
          /\ mState' = [mState EXCEPT ![j] = r[1]]
          /\ mAdfStatus' = [mAdfStatus EXCEPT ![j] = r[2]]
          /\ IF r[1] = "processing"
             THEN /\ left' = IF mKind[j] = "single" THEN left ELSE [left EXCEPT ![j] = @ - 1]
                  /\ Go(h, "granted") /\ UNCHANGED sess
             ELSE /\ sess' = [sess EXCEPT ![j] = "null"]
                  /\ Go(h, IF At(h, "start") THEN "refused" ELSE "pageRefused")
                  /\ UNCHANGED left
    /\ UNCHANGED <<map, mKind, idle, since, mpSession, mTemporaryAdfStatus, openFailed,
                   visit>>

\* The answer is 409, with a problem of the feeder kept for the next status
\* request, or 503; the scanner page shows the state of the job.
Refused(h) ==
    /\ At(h, "refused") \/ At(h, "pageRefused")
    /\ ReturnWith(h, mState, sess)
    /\ IF At(h, "refused") /\ mAdfStatus[My(h)] # "GOOD"
       THEN mTemporaryAdfStatus' = mAdfStatus[My(h)]
       ELSE UNCHANGED mTemporaryAdfStatus
    /\ UNCHANGED <<map, idle, since, mpSession, openFailed, visit>>

\* finishTransfer takes the time, and so it does for every line.
Transfer(h) ==
    /\ \/ At(h, "granted") /\ ~Busy(My(h)) /\ Go(h, "transfer")
       \/ At(h, "transfer") /\ mState[My(h)] = "processing" /\ UNCHANGED at
    /\ idle' = [idle EXCEPT ![My(h)] = 0]
    /\ UNCHANGED <<map, mState, mKind, mAdfStatus, sess, left, since, mpSession,
                   mTemporaryAdfStatus,
                   openFailed, visit>>

\* The lines are over, with the state tested after them; or the job is aborted,
\* whatever its state is by now: with its session closed when a line cannot be
\* written, with the session kept when the format or the line length is wrong.
PageEnds(h) ==
    LET j == My(h) IN
    /\ At(h, "transfer")
    /\ \/ /\ Go(h, IF mState[j] = "processing" THEN "update" ELSE "ended")
          /\ UNCHANGED <<mState, sess>>
       \/ /\ mState' = [mState EXCEPT ![j] = "aborted"]
          /\ \E s \in {"null", sess[j]} : sess' = [sess EXCEPT ![j] = s]
          /\ Go(h, "ended")
    /\ UNCHANGED <<map, mKind, mAdfStatus, left, idle, since, mpSession,
                   mTemporaryAdfStatus, openFailed, visit>>

\* State, ADF status and session after updateStatus and the count of the lines:
\* the next sheet is waited for with the session open, or the job is over and
\* the session closed; a wrong number of lines aborts it with the session kept.
PageResult(j) ==
    ({"aborted"} \X {"GOOD"} \X {"null", sess[j]})
    \cup {<<"aborted", "problem", "null">>}
    \cup (IF mKind[j] = "single" THEN {<<"completed", "GOOD", "null">>}
                                ELSE {<<"pending", "GOOD", sess[j]>>})
    \cup (IF mKind[j] = "adfSingle" /\ left[j] = 0 THEN {<<"completed", "problem", "null">>}
                                                   ELSE {})

UpdateStatus(h) ==
    LET j == My(h) IN
    /\ At(h, "update")
    /\ \E r \in PageResult(j) :
          /\ mState' = [mState EXCEPT ![j] = r[1]]
          /\ mAdfStatus' = [mAdfStatus EXCEPT ![j] = r[2]]
          /\ sess' = [sess EXCEPT ![j] = r[3]]
    /\ Go(h, "ended")
    /\ UNCHANGED <<map, mKind, left, idle, since, mpSession, mTemporaryAdfStatus,
                   openFailed, visit>>

\* Mutant: the time is taken before the document is ended, not after it.
TransferEndsStale(h) ==
    /\ At(h, "ended")
    /\ ReturnWith(h, mState, sess)
    /\ since' = IF My(h) \in mJobs THEN [since EXCEPT ![My(h)] = 0] ELSE since
    /\ UNCHANGED <<map, idle, mpSession, mTemporaryAdfStatus, openFailed, visit>>

\* The end of finishTransfer, which takes the time once more.
TransferEnds(h) ==
    /\ At(h, "ended")
    /\ ReturnWith(h, mState, sess)
    /\ idle' = [idle EXCEPT ![My(h)] = 0]
    /\ since' = IF My(h) \in mJobs THEN [since EXCEPT ![My(h)] = 0] ELSE since
    /\ UNCHANGED <<map, mpSession, mTemporaryAdfStatus, openFailed, visit>>

-----------------------------------------------------------------------------
(* DELETE, and GET ScannerStatus *)

\* Mutant: cancelJob locks and unlocks by hand and forgets one way out.
CancelJobLocked(h, j) ==
    /\ At(h, "idle") /\ Unlocked
    /\ mJobsMutex' = h
    /\ IF j \in mJobs
       THEN /\ mState' = [mState EXCEPT ![j] = "canceled"]
            /\ at' = [at EXCEPT ![h] = [pc |-> "cancel", job |-> j]]
       ELSE UNCHANGED <<mState, at>>
    /\ UNCHANGED <<mJobs, mKind, mAdfStatus, sess, left, idle, since,
                   mpSession, mTemporaryAdfStatus, openFailed, visit>>

\* cancelJob keeps the mutex while the job closes its session ...
CancelJob(h, j) ==
    /\ At(h, "idle") /\ Unlocked
    /\ j \in mJobs
    /\ mJobsMutex' = h
    /\ mState' = [mState EXCEPT ![j] = "canceled"]
    /\ at' = [at EXCEPT ![h] = [pc |-> "cancel", job |-> j]]
    /\ UNCHANGED <<mJobs, mKind, mAdfStatus, sess, left, idle, since,
                   mpSession, mTemporaryAdfStatus, openFailed, visit>>

\* ... with sane_cancel and sane_close.
CancelCloses(h) ==
    /\ At(h, "cancel")
    /\ sess' = [sess EXCEPT ![My(h)] = "null"]
    /\ mJobsMutex' = None
    /\ at' = [at EXCEPT ![h] = Nowhere]
    /\ UNCHANGED <<mJobs, mState, mKind, mAdfStatus, left, idle, since,
                   mpSession, mTemporaryAdfStatus, openFailed, visit>>

\* writeScannerStatusXml: the ADF status is read ...
Status(h) ==
    /\ At(h, "idle")
    /\ Go(h, "adfReset")
    /\ UNCHANGED <<map, job, mpSession, mTemporaryAdfStatus, openFailed, visit>>

\* ... and then reset, and the jobs are listed under the lock.
StatusReset(h) ==
    /\ At(h, "adfReset")
    /\ mTemporaryAdfStatus' = "GOOD"
    /\ Go(h, "list")
    /\ UNCHANGED <<map, job, mpSession, openFailed, visit>>

StatusList(h) ==
    /\ At(h, "list") /\ Unlocked
    /\ at' = [at EXCEPT ![h] = Nowhere]
    /\ UNCHANGED <<map, job, mpSession, mTemporaryAdfStatus, openFailed, visit>>

-----------------------------------------------------------------------------
(* purgeJobs, on the purge thread *)

PurgeBegins ==
    /\ Unlocked /\ mJobs # {}
    /\ mJobsMutex' = Purge /\ visit' = mJobs
    /\ UNCHANGED <<mJobs, job, mpSession, mTemporaryAdfStatus, openFailed, at>>

\* Mutant: the map has the job itself, not a shared pointer to it.
PurgeDestroys(j) ==
    /\ mJobsMutex = Purge /\ j \in visit
    /\ visit' = visit \ {j}
    /\ IF idle[j] > MaxIdle
       THEN mJobs' = mJobs \ {j} /\ Destroy({j}, mState, sess)
       ELSE UNCHANGED <<mJobs, mState, sess, mKind, mAdfStatus, left>>
    /\ UNCHANGED <<mJobsMutex, idle, since, mpSession, mTemporaryAdfStatus, openFailed, at>>

\* Mutant: only jobs that are over are dropped.
PurgeFinished(j) ==
    /\ mJobsMutex = Purge /\ j \in visit
    /\ visit' = visit \ {j}
    /\ IF idle[j] > MaxIdle /\ mState[j] \in Finished
       THEN mJobs' = mJobs \ {j} /\ Destroy(IF Users(j) = {} THEN {j} ELSE {}, mState, sess)
       ELSE UNCHANGED <<mJobs, mState, sess, mKind, mAdfStatus, left>>
    /\ UNCHANGED <<mJobsMutex, idle, since, mpSession, mTemporaryAdfStatus, openFailed, at>>

\* One round of the loop over the map.
PurgeVisits(j) ==
    /\ mJobsMutex = Purge /\ j \in visit
    /\ visit' = visit \ {j}
    /\ IF idle[j] > MaxIdle
       THEN mJobs' = mJobs \ {j} /\ Destroy(IF Users(j) = {} THEN {j} ELSE {}, mState, sess)
       ELSE UNCHANGED <<mJobs, mState, sess, mKind, mAdfStatus, left>>
    /\ UNCHANGED <<mJobsMutex, idle, since, mpSession, mTemporaryAdfStatus, openFailed, at>>

PurgeEnds ==
    /\ mJobsMutex = Purge /\ visit = {}
    /\ mJobsMutex' = None
    /\ UNCHANGED <<mJobs, job, mpSession, mTemporaryAdfStatus, openFailed, at, visit>>

-----------------------------------------------------------------------------
Request(h) ==
    \/ \E j \in Jobs : CreateJob(h, j) \/ NextDocument(h, j) \/ CancelJob(h, j)
    \/ Status(h)
HandlerStep(h) ==
    \/ InitJob(h) \/ BeginTransfer(h) \/ Open(h) \/ Start(h) \/ Refused(h)
    \/ At(h, "granted") /\ Transfer(h)
    \/ PageEnds(h) \/ UpdateStatus(h) \/ TransferEnds(h)
    \/ CancelCloses(h) \/ StatusReset(h) \/ StatusList(h)
PurgeStep == PurgeBegins \/ PurgeEnds \/ \E j \in Jobs : PurgeVisits(j)

Next ==
    \/ Tick \/ PurgeStep
    \/ \E h \in Handlers : Request(h) \/ HandlerStep(h) \/ (At(h, "transfer") /\ Transfer(h))

\* The clock goes on, the purge thread comes round again and again, SANE calls
\* return, pages end, and a mutex that is free again and again is obtained.
\* Requests need not come.
Fairness ==
    /\ WF_vars(Tick)
    /\ SF_vars(PurgeBegins) /\ WF_vars(PurgeEnds \/ \E j \in Jobs : PurgeVisits(j))
    /\ \A h \in Handlers : SF_vars(HandlerStep(h))

Safety == Init /\ [][Next]_vars
Spec == Safety /\ Fairness

-----------------------------------------------------------------------------
(* Properties *)

(* A job is alive exactly as long as the map or a request refers to it:     *)
(* purging never destroys a job under a request, and a session is never      *)
(* left open in a job that nobody can reach.                                *)
RefsExact ==
    /\ Alive = mJobs \cup ({My(h) : h \in Handlers} \ {None})
    /\ \A j \in Jobs : sess[j] # "null" => j \in Alive

(* A client that comes back within mJobtimeout after finishTransfer has     *)
(* returned finds its job, however slowly the document was sent and whenever *)
(* the purge thread comes round, unless the job was purged in use already,   *)
(* while SANE took longer than that to open, to start or to read a line.    *)
FreshJobFound == \A j \in Jobs : since[j] <= MaxIdle => j \in mJobs

(* The status is Processing exactly while some job has the device open,     *)
(* unless sane_open has failed since there was last no session at all.      *)
StatusTruthful == ~openFailed => (IsOpen <=> ~DeviceFree)

(* The device is given back, whatever the client does and even if it never  *)
(* comes back for the next sheet: at the latest the purge thread closes it. *)
SessionsEnd == \A j \in Jobs : sess[j] # "null" ~> sess[j] = "null"

(* Every request is answered, although cancelJob and purgeJobs call SANE    *)
(* with mJobsMutex held.                                                    *)
RequestsEnd == \A h \in Handlers : ~At(h, "idle") ~> At(h, "idle")
=============================================================================

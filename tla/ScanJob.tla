------------------------------- MODULE ScanJob -------------------------------
(***************************************************************************)
(* server/scanjob.cpp: one scan job, its worker thread, the SANE session it *)
(* owns, and the HTTP handler threads (server/server.cpp) that ask it for   *)
(* documents or cancel it.                                                 *)
(*                                                                         *)
(* beginTransfer() and finishTransfer() are executed by the worker thread,  *)
(* cancel() by the handler thread that got the DELETE request.  A step is a *)
(* read or a store of the atomic mState, a use of mpSession, or one call    *)
(* into SANE, so that a DELETE may come between the test of a state or of   *)
(* the pointer and what relies on it.  A store to mState and the one to     *)
(* mStateReason that follows it are one step.                              *)
(*                                                                         *)
(* The handshake of basic/workerthread.cpp appears here as mpCallable and   *)
(* mCallDone only: the mutex is free exactly when the worker is idle, and a *)
(* waiting caller may wake up whenever mCallDone is set.                    *)
(***************************************************************************)
EXTENDS Naturals

CONSTANTS
    Clients,     \* HTTP handler threads; each serves one request at a time
    None,        \* no Callable
    Height,      \* lines of an image, as sane_get_parameters announces them
    MaxRows,     \* bound: lines the backend delivers after one sane_start
    MaxSheets    \* bound: sheets in the document feeder

ASSUME ClientsAssumption == None \notin Clients
ASSUME HeightAssumption == Height \in Nat \ {0}
ASSUME BoundsAssumption == MaxRows \in Nat /\ MaxSheets \in Nat

Kinds == {"single", "adfSingle", "adfConcat"}
Formats == {"image", "pdf", "other"}      \* "image" is JPEG or PNG
States == {"aborted", "canceled", "completed", "pending", "processing"}
Finished == {"aborted", "canceled", "completed"}

\* SANE_Status as updateStatus tells them apart; BUSY stands for DEVICE_BUSY,
\* IO_ERROR and NO_MEM, OTHER for every status without a case of its own.
Status == {"GOOD", "EOF", "NO_DOCS", "JAMMED", "COVER_OPEN", "INVAL", "BUSY",
           "ACCESS_DENIED", "CANCELLED", "OTHER"}
Reasons == {"JobQueued", "InvalidScanTicket", "JobScanning", "None",
            "ResourcesAreNotReady", "DocumentPermissionError",
            "JobCanceledByUser", "JobCompletedSuccessfully", "ErrorsDetected",
            "UnsupportedDocumentFormat"}

VARIABLES
    mKind, mDocumentFormat,     \* from the scan ticket
    mState, mStateReason, mAdfStatus, mImagesCompleted,
    mpSession,    \* "null", "open", or "dead": a session whose sane_open failed
    scanning,     \* sane_start succeeded and sane_cancel has not been called
    feeder, fed,  \* sheets in the document feeder, and how many were fed
    rows,         \* lines read since sane_start
    enc,          \* the ImageEncoder: mCurrentLine and mCurrentImage
    mpCallable, mCallDone,      \* the worker's slot
    wpc, st, ret, \* the worker: position, last SANE status, where to go on
    cpc, result,  \* each client: position, what its beginTransfer returned
    reply,        \* the last answer each client got
    fault         \* the process has died, and of what

ticket == <<mKind, mDocumentFormat>>
job == <<mState, mStateReason, mAdfStatus, mImagesCompleted>>
device == <<mpSession, scanning, feeder, fed, rows>>
slot == <<mpCallable, mCallDone>>
worker == <<wpc, st, ret>>
client == <<cpc, result, reply>>
vars == <<ticket, job, device, enc, slot, worker, client, fault>>

WorkerPc == {"idle", "cas", "open", "grant", "refuse",
             "start", "starting", "update", "recheck",
             "cancel", "saneCancel", "close",
             "encoder", "unsupported", "params", "setup", "page", "buffer",
             "line", "read", "reading", "write", "pageDone", "check",
             "endDocument"}
ClientPc == {"idle", "begin", "beginWait", "refused", "finish", "finishWait",
             "cancel", "saneCancel", "close"}

TypeOK ==
    /\ mKind \in Kinds /\ mDocumentFormat \in Formats
    /\ mState \in States /\ mStateReason \in Reasons
    /\ mAdfStatus \in Status /\ mImagesCompleted \in Nat
    /\ mpSession \in {"null", "open", "dead"}
    /\ scanning \in BOOLEAN /\ rows \in 0 .. MaxRows
    /\ feeder \in 0 .. MaxSheets /\ fed \in 0 .. feeder
    /\ enc \in [line : 0 .. Height - 1, image : Nat]
    /\ mpCallable \in Clients \cup {None} /\ mCallDone \in BOOLEAN
    /\ wpc \in WorkerPc /\ st \in Status
    /\ ret \in {"grant", "check", "line", "refuse"}
    /\ cpc \in [Clients -> ClientPc] /\ result \in [Clients -> BOOLEAN]
    /\ reply \in [Clients -> {"none", "200", "404", "409", "503", "deleted"}]
    /\ fault \in {"none", "nullSession", "nullHandle", "closedHandle"}

\* Private::init: what the ticket asks for decides the kind of the job; a
\* ticket with two resolutions or an unknown input source makes it aborted.
ConcatIfPossible == mKind = "adfConcat" => mDocumentFormat = "pdf"

JobInit ==
    /\ mKind \in Kinds /\ mDocumentFormat \in Formats /\ ConcatIfPossible
    /\ \/ mState = "pending" /\ mStateReason = "JobQueued"
       \/ mState = "aborted" /\ mStateReason = "InvalidScanTicket"
    /\ mAdfStatus = "GOOD" /\ mImagesCompleted = 0

Init ==
    /\ JobInit
    /\ mpSession = "null" /\ scanning = FALSE
    /\ feeder \in 0 .. MaxSheets /\ fed = 0 /\ rows = 0
    /\ enc = [line |-> 0, image |-> 0]
    /\ mpCallable = None /\ mCallDone = FALSE
    /\ wpc = "idle" /\ st = "GOOD" /\ ret = "grant"
    /\ cpc = [c \in Clients |-> "idle"] /\ result = [c \in Clients |-> FALSE]
    /\ reply = [c \in Clients |-> "none"]
    /\ fault = "none"

Alive == fault = "none"
IsProcessing == mState = "processing"
Goto(l) == wpc' = l /\ UNCHANGED <<st, ret>>
SetState(s, r) == mState' = s /\ mStateReason' = r

\* mpSession is dereferenced; a null pointer ends the process.
NullSession == mpSession = "null" /\ fault' = "nullSession"

\* The worker dereferences it at `from' and goes on at `to'.
UseSession(from, to) ==
    /\ wpc = from
    /\ \/ NullSession /\ UNCHANGED worker
       \/ mpSession # "null" /\ Goto(to) /\ UNCHANGED fault

-----------------------------------------------------------------------------
(* The SANE calls, external: any status the API allows may come back. *)

Sheets == mKind # "single"

StartStatus ==
    {s \in Status \ {"EOF"} :
        Sheets => /\ s = "GOOD" => fed < feeder
                  /\ s = "NO_DOCS" => fed = feeder}

ReadStatus ==
    {s \in Status : /\ s = "GOOD" => rows < MaxRows
                    /\ s = "NO_DOCS" => Sheets /\ fed = feeder}

-----------------------------------------------------------------------------
(* updateStatus and closeSession, with `st' the status and `ret' the place  *)
(* the worker goes on at.                                                  *)

\* Mutant: the end of a page completes every kind of job.
StatusEffectAnyKind(s) ==
    CASE s = "GOOD" -> <<"processing", "JobScanning">>
      [] s = "EOF" -> <<"completed", "JobCompletedSuccessfully">>
      [] OTHER -> <<"aborted", "ErrorsDetected">>

\* The state and the reason a status leads to.
StatusEffect(s) ==
    CASE s = "GOOD" -> <<"processing", "JobScanning">>
      [] s = "INVAL" -> <<"aborted", "InvalidScanTicket">>
      [] s \in {"BUSY", "JAMMED", "COVER_OPEN"} -> <<"aborted", "ResourcesAreNotReady">>
      [] s = "ACCESS_DENIED" -> <<"aborted", "DocumentPermissionError">>
      [] s = "CANCELLED" -> <<"aborted", "JobCanceledByUser">>
      [] s = "EOF" -> IF mKind = "single" /\ mImagesCompleted > 0
                      THEN <<"completed", "JobCompletedSuccessfully">>
                      ELSE <<"pending", "None">>
      [] s = "NO_DOCS" -> IF mImagesCompleted > 0 /\ Sheets
                          THEN <<"completed", "JobCompletedSuccessfully">>
                          ELSE <<"aborted", "ResourcesAreNotReady">>
      [] s = "OTHER" -> <<"aborted", "ErrorsDetected">>

\* Does the case of the status close the session itself?
ClosesSession(s) == s = "NO_DOCS" \/ (s = "EOF" /\ mKind = "single")

\* A concatenating job starts the next page at once; otherwise the status is
\* stored, and the session closed when that is due.
UpdateStatus ==
    /\ Alive /\ wpc = "update"
    /\ IF st = "EOF" /\ mKind = "adfConcat"
       THEN /\ mAdfStatus' = "GOOD"
            /\ UNCHANGED <<mState, mStateReason>>
            /\ Goto("start")
       ELSE /\ mAdfStatus' = IF st \in {"JAMMED", "COVER_OPEN", "NO_DOCS"} THEN st ELSE "GOOD"
            /\ SetState(StatusEffect(st)[1], StatusEffect(st)[2])
            /\ Goto(IF ClosesSession(st) THEN "cancel" ELSE "recheck")
    /\ UNCHANGED <<ticket, mImagesCompleted, device, enc, slot, client, fault>>

\* if (mState == aborted) closeSession(), with mState read again.
Recheck ==
    /\ Alive /\ wpc = "recheck"
    /\ Goto(IF mState = "aborted" THEN "cancel" ELSE ret)
    /\ UNCHANGED <<ticket, job, device, enc, slot, client, fault>>

\* closeSession on the worker: the test of mpSession, sane_cancel, then sane_close
\* by the last reference.
CloseSession ==
    /\ Alive
    /\ \/ /\ wpc = "cancel"
          /\ Goto(IF mpSession = "null" THEN ret ELSE "saneCancel")
          /\ UNCHANGED <<mpSession, scanning, fault>>
       \/ /\ UseSession("saneCancel", "close")
          /\ scanning' = FALSE
          /\ UNCHANGED mpSession
       \/ /\ wpc = "close"
          /\ Goto(ret)
          /\ mpSession' = "null"
          /\ scanning' = FALSE
          /\ UNCHANGED fault
    /\ UNCHANGED <<ticket, job, feeder, fed, rows, enc, slot, client>>

-----------------------------------------------------------------------------
(* Private::beginTransfer on the worker *)

\* A callable has been handed over; the worker takes the mutex.
TakeCall ==
    /\ Alive /\ wpc = "idle" /\ mpCallable # None
    /\ Goto(IF cpc[mpCallable] = "beginWait" THEN "cas" ELSE "encoder")
    /\ UNCHANGED <<ticket, job, device, enc, slot, client, fault>>

\* onCall() is over.
ReturnCall ==
    /\ mpCallable' = None /\ mCallDone' = TRUE
    /\ Goto("idle")

\* Mutant: the state is tested for being unfinished instead of being pending.
CompareExchangeUnfinished ==
    /\ Alive /\ wpc = "cas"
    /\ IF mState \notin Finished
       THEN mState' = "processing" /\ Goto("open") /\ UNCHANGED slot
       ELSE ReturnCall /\ UNCHANGED mState
    /\ UNCHANGED <<ticket, mStateReason, mAdfStatus, mImagesCompleted, device,
                   enc, client, fault>>

\* Mutant: beginTransfer trusts the test of isFinished() that the handler made.
CompareExchangeTrusting ==
    /\ Alive /\ wpc = "cas"
    /\ mState' = "processing" /\ Goto("open")
    /\ UNCHANGED <<ticket, mStateReason, mAdfStatus, mImagesCompleted, device,
                   enc, slot, client, fault>>

\* compare_exchange_strong(pending, processing); a job in any other state refuses.
CompareExchange ==
    /\ Alive /\ wpc = "cas"
    /\ IF mState = "pending"
       THEN mState' = "processing" /\ Goto("open") /\ UNCHANGED slot
       ELSE ReturnCall /\ UNCHANGED mState
    /\ UNCHANGED <<ticket, mStateReason, mAdfStatus, mImagesCompleted, device,
                   enc, client, fault>>

\* openSession, unless the session of the previous sheet is still open.  Its
\* status is not used: the session is started whatever it is.
OpenSession ==
    /\ Alive /\ wpc = "open"
    /\ IF mpSession = "null" THEN mpSession' \in {"open", "dead"} ELSE UNCHANGED mpSession
    /\ wpc' = "start" /\ ret' = "grant"
    /\ UNCHANGED <<ticket, job, scanning, feeder, fed, rows, enc, slot, st, client, fault>>

\* mpSession->start(): the call of sane_start ...
StartSession ==
    /\ Alive /\ UseSession("start", "starting")
    /\ UNCHANGED <<ticket, job, device, enc, slot, client>>

\* ... and its return, with the call of sane_get_parameters that follows when it
\* succeeded, and whose status replaces that of sane_start.  With a handle that
\* is null, or that another thread has closed meanwhile, SANE may fail or the
\* process may die.
Started ==
    /\ Alive /\ wpc = "starting"
    /\ \/ /\ mpSession = "open"
          /\ \E s \in StartStatus :
                /\ st' \in IF s = "GOOD" THEN Status \ {"EOF", "NO_DOCS"} ELSE {s}
                /\ scanning' = IF s = "GOOD" THEN TRUE ELSE scanning
                /\ fed' = IF s = "GOOD" /\ Sheets THEN fed + 1 ELSE fed
                /\ rows' = IF s = "GOOD" THEN 0 ELSE rows
          /\ wpc' = "update"
          /\ UNCHANGED fault
       \/ /\ mpSession # "open"
          /\ st' \in Status \ {"GOOD", "EOF", "NO_DOCS"}
          /\ wpc' = "update"
          /\ UNCHANGED <<scanning, fed, rows, fault>>
       \/ /\ mpSession # "open"
          /\ fault' = IF mpSession = "dead" THEN "nullHandle" ELSE "closedHandle"
          /\ UNCHANGED <<scanning, fed, rows, st, wpc>>
    /\ UNCHANGED <<ticket, job, mpSession, feeder, enc, slot, ret, client>>

\* ok = isProcessing(); a transfer that could not be started is closed.
Grant ==
    /\ Alive /\ wpc = "grant"
    /\ IF IsProcessing
       THEN /\ result' = [result EXCEPT ![mpCallable] = TRUE]
            /\ ReturnCall
       ELSE /\ wpc' = "cancel" /\ ret' = "refuse"
            /\ UNCHANGED <<slot, st, result>>
    /\ UNCHANGED <<ticket, job, device, enc, cpc, reply, fault>>

Refuse ==
    /\ Alive /\ wpc = "refuse"
    /\ ReturnCall
    /\ UNCHANGED <<ticket, job, device, enc, client, fault>>

-----------------------------------------------------------------------------
(* Private::finishTransfer on the worker *)

\* Mutant: an unknown format ends the transfer without touching the state.
MakeEncoderOrReturn ==
    /\ Alive /\ wpc = "encoder"
    /\ enc' = [line |-> 0, image |-> 0]
    /\ Goto(IF mDocumentFormat = "other" THEN "endDocument" ELSE "params")
    /\ UNCHANGED <<ticket, job, device, slot, client, fault>>

\* A new encoder for the document format; an unknown format aborts the job.
MakeEncoder ==
    /\ Alive
    /\ \/ /\ wpc = "encoder"
          /\ enc' = [line |-> 0, image |-> 0]
          /\ Goto(IF IsProcessing /\ mDocumentFormat = "other" THEN "unsupported"
                                                             ELSE "params")
          /\ UNCHANGED <<mState, mStateReason>>
       \/ /\ wpc = "unsupported"
          /\ SetState("aborted", "UnsupportedDocumentFormat")
          /\ Goto("params") /\ UNCHANGED enc
    /\ UNCHANGED <<ticket, mAdfStatus, mImagesCompleted, device, slot, client, fault>>

\* The encoder takes the session's parameters; the line length of the backend
\* may differ from its own.
SetParameters ==
    /\ Alive
    /\ \/ /\ wpc = "params"
          /\ Goto(IF IsProcessing THEN "setup" ELSE "page")
          /\ UNCHANGED <<mState, mStateReason, fault>>
       \/ /\ UseSession("setup", "page")
          /\ \/ UNCHANGED <<mState, mStateReason>>
             \/ mpSession # "null" /\ SetState("aborted", "ErrorsDetected")
    /\ UNCHANGED <<ticket, mAdfStatus, mImagesCompleted, device, enc, slot, client>>

\* The outer loop, one round for each page: a buffer as long as a line.
Page ==
    /\ Alive
    /\ \/ /\ wpc = "page"
          /\ Goto(IF IsProcessing THEN "buffer" ELSE "endDocument")
          /\ UNCHANGED fault
       \/ /\ wpc = "buffer"
          /\ \/ NullSession /\ UNCHANGED worker
             \/ /\ mpSession # "null"
                /\ wpc' = "line" /\ st' = "GOOD"
                /\ UNCHANGED <<ret, fault>>
    /\ UNCHANGED <<ticket, job, device, enc, slot, client>>

\* Mutant: the status of the last read is not looked at.
LineIgnoresStatus ==
    /\ Alive
    /\ \/ /\ wpc = "line"
          /\ Goto(IF IsProcessing THEN "read" ELSE "pageDone")
          /\ UNCHANGED fault
       \/ UseSession("read", "reading")
    /\ UNCHANGED <<ticket, job, device, enc, slot, client>>

\* The inner loop, one round for each line.  The stream is good as long as the
\* job is processing, because a failed flush aborts it.
Line ==
    /\ Alive
    /\ \/ /\ wpc = "line"
          /\ Goto(IF st = "GOOD" /\ IsProcessing THEN "read" ELSE "pageDone")
          /\ UNCHANGED fault
       \/ UseSession("read", "reading")
    /\ UNCHANGED <<ticket, job, device, enc, slot, client>>

\* mpSession->read() returns.
Read ==
    /\ Alive /\ wpc = "reading"
    /\ \/ /\ mpSession = "open"
          /\ st' \in ReadStatus
          /\ rows' = IF st' = "GOOD" THEN rows + 1 ELSE rows
          /\ wpc' = IF st' = "GOOD" THEN "write" ELSE "line"
          /\ UNCHANGED fault
       \/ /\ mpSession # "open"
          /\ st' \in Status \ {"GOOD"} /\ wpc' = "line"
          /\ UNCHANGED <<rows, fault>>
       \/ /\ mpSession # "open"
          /\ fault' = "closedHandle"
          /\ UNCHANGED <<rows, st, wpc>>
    /\ UNCHANGED <<ticket, job, mpSession, scanning, feeder, fed, enc, slot, ret, client>>

\* ImageEncoder::writeLine: JPEG and PNG hold one image, a second one throws.
CanWrite == mDocumentFormat = "pdf" \/ enc.line # 0 \/ enc.image = 0

\* Mutant: the line counter is compared before it is incremented.
NextLineLate ==
    IF enc.line = Height THEN [line |-> 0, image |-> enc.image + 1]
                         ELSE [enc EXCEPT !.line = @ + 1]

NextLine ==
    IF enc.line + 1 = Height THEN [line |-> 0, image |-> enc.image + 1]
                             ELSE [enc EXCEPT !.line = @ + 1]

\* Mutant: a failed write closes the session and leaves the job processing.
WriteKeepsState ==
    /\ Alive /\ wpc = "write"
    /\ \/ CanWrite /\ enc' = NextLine /\ Goto("line")
       \/ UNCHANGED <<enc, st>> /\ wpc' = "cancel" /\ ret' = "line"
    /\ UNCHANGED <<ticket, job, device, slot, client, fault>>

\* writeLine and flush; either may throw, because of excess data or because the
\* connection is gone (then the line may have been counted or not).
Write ==
    /\ Alive /\ wpc = "write"
    /\ \/ /\ CanWrite
          /\ enc' = NextLine
          /\ Goto("line") /\ UNCHANGED <<mState, mStateReason>>
       \/ /\ enc' \in {enc} \cup (IF CanWrite THEN {NextLine} ELSE {})
          /\ SetState("aborted", "ErrorsDetected")
          /\ wpc' = "cancel" /\ ret' = "line" /\ UNCHANGED st
    /\ UNCHANGED <<ticket, mAdfStatus, mImagesCompleted, device, slot, client, fault>>

\* The page is over: count it and handle the status it ended with.
PageDone ==
    /\ Alive /\ wpc = "pageDone"
    /\ IF IsProcessing
       THEN /\ mImagesCompleted' = mImagesCompleted + 1
            /\ wpc' = "update" /\ ret' = "check" /\ UNCHANGED st
       ELSE Goto("page") /\ UNCHANGED mImagesCompleted
    /\ UNCHANGED <<ticket, mState, mStateReason, mAdfStatus, device, enc, slot,
                   client, fault>>

\* Mutant: the number of lines is not checked.
NoCheckLines ==
    /\ Alive /\ wpc = "check"
    /\ Goto("page")
    /\ UNCHANGED <<ticket, job, device, enc, slot, client, fault>>

\* An image with too few or too many lines aborts the job.
CheckLines ==
    /\ Alive /\ wpc = "check"
    /\ IF enc.line # 0 THEN SetState("aborted", "ErrorsDetected")
                       ELSE UNCHANGED <<mState, mStateReason>>
    /\ Goto("page")
    /\ UNCHANGED <<ticket, mAdfStatus, mImagesCompleted, device, enc, slot, client, fault>>

EndDocument ==
    /\ Alive /\ wpc = "endDocument"
    /\ ReturnCall
    /\ UNCHANGED <<ticket, job, device, enc, client, fault>>

WorkerStep ==
    \/ TakeCall \/ CompareExchange \/ OpenSession \/ StartSession \/ Started
    \/ Grant \/ Refuse \/ UpdateStatus \/ Recheck \/ CloseSession
    \/ MakeEncoder \/ SetParameters \/ Page \/ Line \/ Read \/ Write
    \/ PageDone \/ CheckLines \/ EndDocument

-----------------------------------------------------------------------------
(* Server::handleScannerRequest for a job, one action per step of a handler *)

At(c, l) == Alive /\ cpc[c] = l
Move(c, l) == cpc' = [cpc EXCEPT ![c] = l]
Answer(c, r) == Move(c, "idle") /\ reply' = [reply EXCEPT ![c] = r]

\* GET .../NextDocument
NextDocument(c) ==
    /\ At(c, "idle")
    /\ IF mState \in Finished THEN Answer(c, "404")
                              ELSE Move(c, "begin") /\ UNCHANGED reply
    /\ result' = [result EXCEPT ![c] = FALSE]
    /\ UNCHANGED <<ticket, job, device, enc, slot, worker, fault>>

\* executeSynchronously: the call is put into the slot while the worker is idle.
Execute(c, from, to) ==
    /\ At(c, from)
    /\ wpc = "idle"
    /\ mpCallable' = c /\ mCallDone' = FALSE
    /\ Move(c, to)
    /\ UNCHANGED <<ticket, job, device, enc, worker, result, reply, fault>>

BeginTransfer(c) == Execute(c, "begin", "beginWait")
FinishTransfer(c) == Execute(c, "finish", "finishWait")

\* beginTransfer() returns; a granted transfer gets status 200 and goes on.
BeginReturns(c) ==
    /\ At(c, "beginWait")
    /\ wpc = "idle" /\ mCallDone
    /\ Move(c, IF result[c] THEN "finish" ELSE "refused")
    /\ UNCHANGED <<ticket, job, device, enc, slot, worker, result, reply, fault>>

\* A conflict when the feeder is the cause, else "service unavailable".
Refused(c) ==
    /\ At(c, "refused")
    /\ Answer(c, IF mAdfStatus # "GOOD" THEN "409" ELSE "503")
    /\ UNCHANGED <<ticket, job, device, enc, slot, worker, result, fault>>

FinishReturns(c) ==
    /\ At(c, "finishWait")
    /\ wpc = "idle" /\ mCallDone
    /\ Answer(c, "200")
    /\ UNCHANGED <<ticket, job, device, enc, slot, worker, result, fault>>

CancelPc == {"cancel", "saneCancel", "close"}

\* DELETE: cancel() stores the state, then closes the session in this thread.
\* Scanner::cancelJob holds mJobsMutex from the lookup to the end of cancel(),
\* so two of them follow one another.
Cancel(c) ==
    /\ At(c, "idle") /\ \A d \in Clients : cpc[d] \notin CancelPc
    /\ SetState("canceled", "JobCanceledByUser")
    /\ Move(c, "cancel")
    /\ UNCHANGED <<ticket, mAdfStatus, mImagesCompleted, device, enc, slot, worker,
                   result, reply, fault>>

\* Mutant: cancel() leaves the session to the worker.
CancelKeepsSession(c) ==
    /\ Alive /\ cpc[c] \in CancelPc
    /\ Answer(c, "deleted")
    /\ UNCHANGED <<ticket, job, device, enc, slot, worker, result, fault>>

CancelClose(c) ==
    /\ \/ /\ At(c, "cancel")
          /\ IF mpSession = "null" THEN Answer(c, "deleted")
                                   ELSE Move(c, "saneCancel") /\ UNCHANGED reply
          /\ UNCHANGED <<mpSession, scanning, fault>>
       \/ /\ At(c, "saneCancel")
          /\ \/ NullSession /\ UNCHANGED <<cpc, scanning>>
             \/ /\ mpSession # "null" /\ scanning' = FALSE
                /\ Move(c, "close") /\ UNCHANGED fault
          /\ UNCHANGED <<mpSession, reply>>
       \/ /\ At(c, "close")
          /\ mpSession' = "null"
          /\ scanning' = FALSE
          /\ Answer(c, "deleted") /\ UNCHANGED fault
    /\ UNCHANGED <<ticket, job, feeder, fed, rows, enc, slot, worker, result>>

Request(c) == NextDocument(c) \/ Cancel(c)

ClientStep(c) ==
    \/ BeginTransfer(c) \/ BeginReturns(c) \/ Refused(c)
    \/ FinishTransfer(c) \/ FinishReturns(c) \/ CancelClose(c)

\* A process that has died takes no step.
Dead == ~Alive /\ UNCHANGED vars

Next == WorkerStep \/ (\E c \in Clients : Request(c) \/ ClientStep(c)) \/ Dead

\* Threads run when they can, and SANE calls return; requests need not come.
Fairness == WF_vars(WorkerStep) /\ \A c \in Clients : SF_vars(ClientStep(c))

Safety == Init /\ [][Next]_vars

Spec == Safety /\ Fairness

-----------------------------------------------------------------------------
(* Properties *)

\* Nobody is using the job.
Quiet == /\ Alive /\ wpc = "idle" /\ mpCallable = None
         /\ \A c \in Clients : cpc[c] = "idle"

\* c has been granted the transfer and its finishTransfer is still to be done.
Granted(c) == \/ cpc[c] = "finish"
              \/ cpc[c] = "finishWait" /\ mpCallable = c

(* beginTransfer grants the job to one request at a time, however requests *)
(* and cancellations interleave: the compare-exchange on mState is the only *)
(* thing that keeps two of them from streaming the same page.              *)
GrantedOnce ==
    \A c, d \in Clients : Granted(c) /\ Granted(d) => c = d

(* A document that ended inside an image never belongs to a job that goes  *)
(* on or completes: finishTransfer has aborted it, or it was canceled.     *)
TruncatedNotCompleted ==
    wpc = "idle" /\ enc.line # 0 => mState \in {"aborted", "canceled"}

(* Every sheet the feeder has fed is counted as one image before the next  *)
(* one is asked for, and a feeder job completes only when the feeder has   *)
(* run empty and every sheet has been transferred.                         *)
SheetsAccounted ==
    /\ wpc = "idle" /\ mState = "pending" /\ Sheets => mImagesCompleted = fed
    /\ wpc = "idle" /\ mState = "completed" /\ Sheets =>
           mImagesCompleted = fed /\ fed = feeder

(* A job that completed or was canceled has given the device back: SANE's  *)
(* scan is canceled and the handle closed, so other jobs can open it.      *)
ReleasedWhenOver ==
    Quiet /\ mState \in {"completed", "canceled"} => mpSession = "null" /\ ~scanning

(* Between requests no job is left processing: whoever was granted the      *)
(* transfer also ended it (a job stuck there refuses every later request). *)
NotLeftProcessing == Quiet => ~IsProcessing

(* The worker never uses a session that is gone: wherever mState is        *)
(* processing, mpSession is there.                                         *)
SessionUsable == fault \notin {"nullSession", "closedHandle"}

(* A job that is aborted or completed stays finished, whichever requests    *)
(* were let through by a test of isFinished() made before that: no worker   *)
(* step stores "processing" or "pending" over either of the two states.     *)
(* ("canceled" may be overwritten by the status of a call under way.)       *)
OverForGood ==
    [][(mState \in {"aborted", "completed"}) => (mState' \in Finished)]_mState

(* Every request is answered, unless the process dies.                     *)
EveryRequestAnswered ==
    \A c \in Clients : cpc[c] # "idle" ~> cpc[c] = "idle" \/ ~Alive
=============================================================================

---------------------------- MODULE ScanJobProofs ----------------------------
(***************************************************************************)
(* Theorems about ScanJob for any set of clients, whose requests and        *)
(* cancellations overlap in every way, and for images of any height.        *)
(***************************************************************************)
EXTENDS ScanJob, TLAPS

USE ClientsAssumption, HeightAssumption, BoundsAssumption

(* Every step of the worker and of the handlers keeps the types.            *)
LEMMA TypeInductive ==
    /\ Init => TypeOK
    /\ TypeOK /\ [Next]_vars => TypeOK'
<1>1. ASSUME Init
      PROVE  TypeOK
  <2> USE <1>1 DEF Init, JobInit
  <2>1. /\ mKind \in Kinds /\ mDocumentFormat \in Formats
        /\ mState \in States /\ mStateReason \in Reasons
        /\ mAdfStatus \in Status /\ mImagesCompleted \in Nat
    BY DEF States, Reasons, Status
  <2>2. feeder \in 0 .. MaxSheets /\ fed \in 0 .. feeder /\ rows \in 0 .. MaxRows
    OBVIOUS
  <2>3. enc \in [line : 0 .. Height - 1, image : Nat]
    OBVIOUS
  <2>4. mpSession \in {"null", "open", "dead"} /\ scanning \in BOOLEAN /\ mCallDone \in BOOLEAN
    OBVIOUS
  <2> QED BY <2>1, <2>2, <2>3, <2>4 DEF TypeOK, Status, WorkerPc, ClientPc
<1>2. ASSUME TypeOK, [Next]_vars
      PROVE  TypeOK'
  <2> USE <1>2 DEF TypeOK, Goto
  <2>1. CASE TakeCall
    <3>1. wpc' \in WorkerPc /\ UNCHANGED <<ticket, job, device, enc, slot, client, fault, st, ret>>
      BY <2>1 DEF TakeCall, WorkerPc
    <3> QED BY <3>1 DEF ticket, job, device, slot, client
  <2>2. CASE CompareExchange
    <3>1. /\ mState' \in States /\ wpc' \in WorkerPc
          /\ mpCallable' \in Clients \cup {None} /\ mCallDone' \in BOOLEAN
      BY <2>2 DEF CompareExchange, ReturnCall, slot, WorkerPc, States
    <3>2. UNCHANGED <<ticket, mStateReason, mAdfStatus, mImagesCompleted, device, enc, client,
                      fault, st, ret>>
      BY <2>2 DEF CompareExchange, ReturnCall
    <3> QED BY <3>1, <3>2 DEF ticket, device, client
  <2>3. CASE OpenSession
    BY <2>3 DEF OpenSession, ticket, job, slot, client, WorkerPc
  <2>4. CASE StartSession
    BY <2>4 DEF StartSession, UseSession, NullSession, ticket, job, device, slot, worker, client, WorkerPc
  <2>5. CASE Started
    <3> USE <2>5 DEF Started
    <3>1. st' \in Status /\ wpc' \in WorkerPc
      BY DEF StartStatus, Status, WorkerPc
    <3>2. fed' \in 0 .. feeder /\ rows' \in 0 .. MaxRows
      <4>1. fed' = fed \/ (fed < feeder /\ fed' = fed + 1)
        BY DEF StartStatus
      <4>2. rows' = rows \/ rows' = 0
        OBVIOUS
      <4> QED BY <4>1, <4>2
    <3>3. scanning' \in BOOLEAN
      OBVIOUS
    <3>4. fault' \in {"none", "nullSession", "nullHandle", "closedHandle"}
      OBVIOUS
    <3> QED BY <3>1, <3>2, <3>3, <3>4 DEF ticket, job, slot, client
  <2>6. CASE Grant
    BY <2>6 DEF Grant, ReturnCall, ticket, job, device, slot, WorkerPc
  <2>7. CASE Refuse
    BY <2>7 DEF Refuse, ReturnCall, ticket, job, device, client, WorkerPc
  <2>8. CASE UpdateStatus
    <3>1. StatusEffect(st)[1] \in States /\ StatusEffect(st)[2] \in Reasons
      BY DEF StatusEffect, States, Reasons, Status
    <3> QED BY <2>8, <3>1 DEF UpdateStatus, SetState, ticket, device, slot, client, WorkerPc, Status
  <2>9. CASE Recheck
    BY <2>9 DEF Recheck, ticket, job, device, slot, client, WorkerPc
  <2>10. CASE CloseSession
    <3>1. /\ wpc' \in WorkerPc /\ UNCHANGED <<st, ret>>
          /\ mpSession' \in {"null", "open", "dead"} /\ scanning' \in BOOLEAN
          /\ fault' \in {"none", "nullSession", "nullHandle", "closedHandle"}
      BY <2>10 DEF CloseSession, UseSession, NullSession, worker, WorkerPc
    <3>2. UNCHANGED <<ticket, job, feeder, fed, rows, enc, slot, client>>
      BY <2>10 DEF CloseSession
    <3> QED BY <3>1, <3>2 DEF ticket, job, slot, client
  <2>11. CASE MakeEncoder
    BY <2>11 DEF MakeEncoder, SetState, ticket, device, slot, client, WorkerPc, States, Reasons
  <2>12. CASE SetParameters
    BY <2>12 DEF SetParameters, UseSession, NullSession, SetState, ticket, device, slot, worker, client,
                 WorkerPc, States, Reasons
  <2>13. CASE Page
    BY <2>13 DEF Page, NullSession, ticket, job, device, slot, worker, client, WorkerPc, Status
  <2>14. CASE Line
    BY <2>14 DEF Line, UseSession, NullSession, ticket, job, device, slot, worker, client, WorkerPc
  <2>15. CASE Read
    BY <2>15 DEF Read, ReadStatus, ticket, job, slot, client, WorkerPc, Status
  <2>16. CASE Write
    <3>1. NextLine \in [line : 0 .. Height - 1, image : Nat]
      BY DEF NextLine
    <3> QED BY <2>16, <3>1 DEF Write, SetState, ticket, device, slot, client, WorkerPc,
                               States, Reasons
  <2>17. CASE PageDone
    BY <2>17 DEF PageDone, ticket, device, slot, client, WorkerPc
  <2>18. CASE CheckLines
    BY <2>18 DEF CheckLines, SetState, ticket, device, slot, client, WorkerPc, States, Reasons
  <2>19. CASE EndDocument
    BY <2>19 DEF EndDocument, ReturnCall, ticket, job, device, client, WorkerPc
  <2>20. ASSUME NEW c \in Clients, NextDocument(c)
         PROVE  TypeOK'
    BY <2>20 DEF NextDocument, Answer, Move, ticket, job, device, slot, worker, ClientPc
  <2>21. ASSUME NEW c \in Clients, Cancel(c)
         PROVE  TypeOK'
    BY <2>21 DEF Cancel, SetState, Move, ticket, device, slot, worker, ClientPc, States, Reasons
  <2>22. ASSUME NEW c \in Clients, BeginTransfer(c) \/ FinishTransfer(c)
         PROVE  TypeOK'
    BY <2>22 DEF BeginTransfer, FinishTransfer, Execute, Move, ticket, job, device, worker, ClientPc
  <2>23. ASSUME NEW c \in Clients, BeginReturns(c)
         PROVE  TypeOK'
    BY <2>23 DEF BeginReturns, Move, ticket, job, device, slot, worker, ClientPc
  <2>24. ASSUME NEW c \in Clients, Refused(c) \/ FinishReturns(c)
         PROVE  TypeOK'
    BY <2>24 DEF Refused, FinishReturns, Answer, Move, ticket, job, device, slot, worker, ClientPc
  <2>25. ASSUME NEW c \in Clients, CancelClose(c)
         PROVE  TypeOK'
    BY <2>25 DEF CancelClose, NullSession, Answer, Move, ticket, job, slot, worker, ClientPc
  <2>26. CASE UNCHANGED vars
    BY <2>26 DEF vars, ticket, job, device, slot, worker, client
  <2> QED
    BY <1>2, <2>1, <2>2, <2>3, <2>4, <2>5, <2>6, <2>7, <2>8, <2>9, <2>10, <2>11, <2>12,
       <2>13, <2>14, <2>15, <2>16, <2>17, <2>18, <2>19, <2>20, <2>21, <2>22, <2>23, <2>24,
       <2>25, <2>26
       DEF Next, WorkerStep, Request, ClientStep, Dead
<1> QED BY <1>1, <1>2

(* Type correctness of the job, its worker and its handlers.                *)
THEOREM TypeCorrect == Safety => []TypeOK
BY TypeInductive, PTL DEF Safety

-----------------------------------------------------------------------------
(* The worker's slot: the call being executed belongs to a client that waits *)
(* for it, in the function the worker is in.                                *)

BeginPc == {"cas", "open", "grant", "refuse"}
SharedPc == {"start", "starting", "update", "recheck", "cancel", "saneCancel", "close"}
FinishPc == WorkerPc \ (BeginPc \cup SharedPc \cup {"idle"})

InBegin == wpc \in BeginPc \/ (wpc \in SharedPc /\ ret \in {"grant", "refuse"})

SlotInv ==
    /\ wpc # "idle" => mpCallable # None
    /\ mpCallable # None =>
          ~mCallDone /\ cpc[mpCallable] \in {"beginWait", "finishWait"}
    /\ wpc # "idle" => (InBegin <=> cpc[mpCallable] = "beginWait")

(* The slot is consistent after every step.                                 *)
LEMMA SlotInductive ==
    /\ Init => SlotInv
    /\ TypeOK /\ SlotInv /\ [Next]_vars => SlotInv'
<1>1. Init => SlotInv
  BY DEF Init, JobInit, SlotInv, TypeOK, InBegin, BeginPc, SharedPc, WorkerPc
<1>2. ASSUME TypeOK, SlotInv, [Next]_vars
      PROVE  SlotInv'
  <2> USE <1>2 DEF SlotInv, TypeOK, InBegin, BeginPc, SharedPc, WorkerPc,
          Goto, At, IsProcessing, ticket, job, device, slot, worker, client
  <2>1. CASE TakeCall
    BY <2>1 DEF TakeCall
  <2>2. CASE CompareExchange
    BY <2>2 DEF CompareExchange, ReturnCall
  <2>3. CASE OpenSession
    BY <2>3 DEF OpenSession
  <2>4. CASE StartSession
    BY <2>4 DEF StartSession, UseSession, NullSession
  <2>5. CASE Started
    BY <2>5 DEF Started
  <2>6. CASE Grant
    BY <2>6 DEF Grant, ReturnCall
  <2>7. CASE Refuse
    BY <2>7 DEF Refuse, ReturnCall
  <2>8. CASE UpdateStatus
    BY <2>8 DEF UpdateStatus, SetState
  <2>9. CASE Recheck
    BY <2>9 DEF Recheck
  <2>10. CASE CloseSession
    BY <2>10 DEF CloseSession, UseSession, NullSession
  <2>11. CASE MakeEncoder
    BY <2>11 DEF MakeEncoder, SetState
  <2>12. CASE SetParameters
    BY <2>12 DEF SetParameters, UseSession, NullSession, SetState
  <2>13. CASE Page
    BY <2>13 DEF Page, NullSession
  <2>14. CASE Line
    BY <2>14 DEF Line, UseSession, NullSession
  <2>15. CASE Read
    BY <2>15 DEF Read
  <2>16. CASE Write
    BY <2>16 DEF Write, SetState
  <2>17. CASE PageDone
    BY <2>17 DEF PageDone
  <2>18. CASE CheckLines
    BY <2>18 DEF CheckLines, SetState
  <2>19. CASE EndDocument
    BY <2>19 DEF EndDocument, ReturnCall
  <2>20. ASSUME NEW c \in Clients, NextDocument(c)
         PROVE  SlotInv'
    BY <2>20 DEF NextDocument, Answer, Move
  <2>21. ASSUME NEW c \in Clients, Cancel(c)
         PROVE  SlotInv'
    BY <2>21 DEF Cancel, SetState, Move
  <2>22. ASSUME NEW c \in Clients, BeginTransfer(c)
         PROVE  SlotInv'
    BY <2>22 DEF BeginTransfer, Execute, Move
  <2>23. ASSUME NEW c \in Clients, FinishTransfer(c)
         PROVE  SlotInv'
    BY <2>23 DEF FinishTransfer, Execute, Move
  <2>24. ASSUME NEW c \in Clients, BeginReturns(c)
         PROVE  SlotInv'
    BY <2>24 DEF BeginReturns, Move
  <2>25. ASSUME NEW c \in Clients, Refused(c)
         PROVE  SlotInv'
    BY <2>25 DEF Refused, Answer, Move
  <2>26. ASSUME NEW c \in Clients, FinishReturns(c)
         PROVE  SlotInv'
    BY <2>26 DEF FinishReturns, Answer, Move
  <2>27. ASSUME NEW c \in Clients, CancelClose(c)
         PROVE  SlotInv'
    BY <2>27 DEF CancelClose, NullSession, Answer, Move
  <2>28. CASE UNCHANGED vars
    BY <2>28 DEF vars
  <2> QED
    BY <1>2, <2>1, <2>2, <2>3, <2>4, <2>5, <2>6, <2>7, <2>8, <2>9, <2>10, <2>11, <2>12,
       <2>13, <2>14, <2>15, <2>16, <2>17, <2>18, <2>19, <2>20, <2>21, <2>22, <2>23, <2>24,
       <2>25, <2>26, <2>27, <2>28
       DEF Next, WorkerStep, Request, ClientStep, Dead
<1> QED BY <1>1, <1>2

-----------------------------------------------------------------------------
(* The transfer is granted to one client at a time.                         *)

\* c has been granted the transfer, from the end of its beginTransfer on the
\* worker to the end of its finishTransfer there.
Holds(c) ==
    \/ cpc[c] = "beginWait" /\ result[c]
    \/ cpc[c] = "finish"
    \/ cpc[c] = "finishWait" /\ mpCallable = c

\* A client that has not been granted the transfer has result FALSE; nobody
\* holds it while the worker tries to grant it; and whoever holds it keeps the
\* state from being pending, until the worker ends the transfer.
GrantInv ==
    /\ \A c \in Clients : cpc[c] = "begin" \/ (cpc[c] = "beginWait" /\ mpCallable = c) => ~result[c]
    /\ \A c, d \in Clients : Holds(c) /\ Holds(d) => c = d
    /\ InBegin /\ wpc # "cas" => \A c \in Clients : ~Holds(c)
    /\ wpc \in {"idle", "cas"} /\ mState = "pending" => \A c \in Clients : ~Holds(c)

(* The grant invariant is kept by every step: the compare-exchange succeeds *)
(* only when nobody holds the transfer.                                      *)
LEMMA GrantInductive ==
    /\ Init => GrantInv
    /\ TypeOK /\ SlotInv /\ GrantInv /\ [Next]_vars => GrantInv'
<1>1. Init => GrantInv
  BY DEF Init, JobInit, GrantInv, TypeOK, SlotInv, Holds, InBegin, BeginPc, SharedPc, WorkerPc
<1>2. ASSUME TypeOK, SlotInv, GrantInv, [Next]_vars
      PROVE  GrantInv'
  <2> USE <1>2 DEF GrantInv, TypeOK, SlotInv, Holds, InBegin, BeginPc, SharedPc, WorkerPc,
          Goto, At, IsProcessing, ticket, job, device, slot, worker, client
  <2>1. CASE TakeCall
    BY <2>1 DEF TakeCall
  <2>2. CASE CompareExchange
    BY <2>2 DEF CompareExchange, ReturnCall
  <2>3. CASE OpenSession
    BY <2>3 DEF OpenSession
  <2>4. CASE StartSession
    BY <2>4 DEF StartSession, UseSession, NullSession
  <2>5. CASE Started
    BY <2>5 DEF Started
  <2>6. CASE Grant
    BY <2>6 DEF Grant, ReturnCall
  <2>7. CASE Refuse
    BY <2>7 DEF Refuse, ReturnCall
  <2>8. CASE UpdateStatus
    BY <2>8 DEF UpdateStatus, SetState
  <2>9. CASE Recheck
    BY <2>9 DEF Recheck
  <2>10. CASE CloseSession
    BY <2>10 DEF CloseSession, UseSession, NullSession
  <2>11. CASE MakeEncoder
    BY <2>11 DEF MakeEncoder, SetState
  <2>12. CASE SetParameters
    BY <2>12 DEF SetParameters, UseSession, NullSession, SetState
  <2>13. CASE Page
    BY <2>13 DEF Page, NullSession
  <2>14. CASE Line
    BY <2>14 DEF Line, UseSession, NullSession
  <2>15. CASE Read
    BY <2>15 DEF Read
  <2>16. CASE Write
    BY <2>16 DEF Write, SetState
  <2>17. CASE PageDone
    BY <2>17 DEF PageDone
  <2>18. CASE CheckLines
    BY <2>18 DEF CheckLines, SetState
  <2>19. CASE EndDocument
    BY <2>19 DEF EndDocument, ReturnCall
  <2>20. ASSUME NEW c \in Clients, NextDocument(c)
         PROVE  GrantInv'
    BY <2>20 DEF NextDocument, Answer, Move
  <2>21. ASSUME NEW c \in Clients, Cancel(c)
         PROVE  GrantInv'
    BY <2>21 DEF Cancel, SetState, Move
  <2>22. ASSUME NEW c \in Clients, BeginTransfer(c)
         PROVE  GrantInv'
    BY <2>22 DEF BeginTransfer, Execute, Move
  <2>23. ASSUME NEW c \in Clients, FinishTransfer(c)
         PROVE  GrantInv'
    BY <2>23 DEF FinishTransfer, Execute, Move
  <2>24. ASSUME NEW c \in Clients, BeginReturns(c)
         PROVE  GrantInv'
    BY <2>24 DEF BeginReturns, Move
  <2>25. ASSUME NEW c \in Clients, Refused(c)
         PROVE  GrantInv'
    BY <2>25 DEF Refused, Answer, Move
  <2>26. ASSUME NEW c \in Clients, FinishReturns(c)
         PROVE  GrantInv'
    BY <2>26 DEF FinishReturns, Answer, Move
  <2>27. ASSUME NEW c \in Clients, CancelClose(c)
         PROVE  GrantInv'
    BY <2>27 DEF CancelClose, NullSession, Answer, Move
  <2>28. CASE UNCHANGED vars
    BY <2>28 DEF vars
  <2> QED
    BY <1>2, <2>1, <2>2, <2>3, <2>4, <2>5, <2>6, <2>7, <2>8, <2>9, <2>10, <2>11, <2>12,
       <2>13, <2>14, <2>15, <2>16, <2>17, <2>18, <2>19, <2>20, <2>21, <2>22, <2>23, <2>24,
       <2>25, <2>26, <2>27, <2>28
       DEF Next, WorkerStep, Request, ClientStep, Dead
<1> QED BY <1>1, <1>2

(* However requests and cancellations of any number of clients overlap,     *)
(* beginTransfer grants the job to one of them at a time.                   *)
THEOREM GrantedOnceHolds == Safety => []GrantedOnce
<1>1. GrantInv => GrantedOnce
  BY DEF GrantInv, GrantedOnce, Granted, Holds
<1> QED BY <1>1, TypeInductive, SlotInductive, GrantInductive, PTL DEF Safety

-----------------------------------------------------------------------------
(* A document that ended inside an image.                                   *)

Stopped == mState \in {"aborted", "canceled"}

\* An unfinished image is seen only inside the page loop, whose checks end it
\* in a stopped job; a job that can be started again has none.
TruncatedInv ==
    /\ wpc \in {"idle", "cas", "page", "endDocument"} /\ enc.line # 0 => Stopped
    /\ wpc \in {"unsupported", "params", "setup"} \/ (InBegin /\ wpc # "cas") => enc.line = 0
    /\ wpc \in {"buffer", "line", "read", "reading", "write", "pageDone"} =>
          IsProcessing \/ Stopped
    /\ wpc = "buffer" /\ enc.line # 0 => Stopped
    /\ wpc \in {"cancel", "saneCancel", "close"} /\ ret = "line" => IsProcessing \/ Stopped
    /\ wpc \in {"start", "starting", "update", "recheck"} => ret \in {"grant", "check"}

(* Every step keeps it; the line check after each page is what ends the     *)
(* job when the backend delivered too few or too many lines.                *)
LEMMA TruncatedInductive ==
    /\ Init => TruncatedInv
    /\ TypeOK /\ TruncatedInv /\ [Next]_vars => TruncatedInv'
<1>1. Init => TruncatedInv
  BY DEF Init, JobInit, TruncatedInv, TypeOK, InBegin, BeginPc, SharedPc, Stopped
<1>2. ASSUME TypeOK, TruncatedInv, [Next]_vars
      PROVE  TruncatedInv'
  <2> USE <1>2 DEF TruncatedInv, TypeOK, InBegin, BeginPc, SharedPc, Stopped,
          Goto, At, IsProcessing, ticket, job, device, slot, worker, client
  <2>1. CASE TakeCall
    BY <2>1 DEF TakeCall
  <2>2. CASE CompareExchange
    BY <2>2 DEF CompareExchange, ReturnCall
  <2>3. CASE OpenSession
    BY <2>3 DEF OpenSession
  <2>4. CASE StartSession
    BY <2>4 DEF StartSession, UseSession, NullSession
  <2>5. CASE Started
    BY <2>5 DEF Started
  <2>6. CASE Grant
    BY <2>6 DEF Grant, ReturnCall
  <2>7. CASE Refuse
    BY <2>7 DEF Refuse, ReturnCall
  <2>8. CASE UpdateStatus
    BY <2>8 DEF UpdateStatus, SetState
  <2>9. CASE Recheck
    BY <2>9 DEF Recheck
  <2>10. CASE CloseSession
    BY <2>10 DEF CloseSession, UseSession, NullSession
  <2>11. CASE MakeEncoder
    BY <2>11 DEF MakeEncoder, SetState
  <2>12. CASE SetParameters
    BY <2>12 DEF SetParameters, UseSession, NullSession, SetState
  <2>13. CASE Page
    BY <2>13 DEF Page, NullSession
  <2>14. CASE Line
    BY <2>14 DEF Line, UseSession, NullSession
  <2>15. CASE Read
    BY <2>15 DEF Read
  <2>16. CASE Write
    BY <2>16 DEF Write, SetState
  <2>17. CASE PageDone
    BY <2>17 DEF PageDone
  <2>18. CASE CheckLines
    BY <2>18 DEF CheckLines, SetState
  <2>19. CASE EndDocument
    BY <2>19 DEF EndDocument, ReturnCall
  <2>20. ASSUME NEW c \in Clients, NextDocument(c)
         PROVE  TruncatedInv'
    BY <2>20 DEF NextDocument, Answer, Move
  <2>21. ASSUME NEW c \in Clients, Cancel(c)
         PROVE  TruncatedInv'
    BY <2>21 DEF Cancel, SetState, Move
  <2>22. ASSUME NEW c \in Clients, BeginTransfer(c)
         PROVE  TruncatedInv'
    BY <2>22 DEF BeginTransfer, Execute, Move
  <2>23. ASSUME NEW c \in Clients, FinishTransfer(c)
         PROVE  TruncatedInv'
    BY <2>23 DEF FinishTransfer, Execute, Move
  <2>24. ASSUME NEW c \in Clients, BeginReturns(c)
         PROVE  TruncatedInv'
    BY <2>24 DEF BeginReturns, Move
  <2>25. ASSUME NEW c \in Clients, Refused(c)
         PROVE  TruncatedInv'
    BY <2>25 DEF Refused, Answer, Move
  <2>26. ASSUME NEW c \in Clients, FinishReturns(c)
         PROVE  TruncatedInv'
    BY <2>26 DEF FinishReturns, Answer, Move
  <2>27. ASSUME NEW c \in Clients, CancelClose(c)
         PROVE  TruncatedInv'
    BY <2>27 DEF CancelClose, NullSession, Answer, Move
  <2>28. CASE UNCHANGED vars
    BY <2>28 DEF vars
  <2> QED
    BY <1>2, <2>1, <2>2, <2>3, <2>4, <2>5, <2>6, <2>7, <2>8, <2>9, <2>10, <2>11, <2>12,
       <2>13, <2>14, <2>15, <2>16, <2>17, <2>18, <2>19, <2>20, <2>21, <2>22, <2>23, <2>24,
       <2>25, <2>26, <2>27, <2>28
       DEF Next, WorkerStep, Request, ClientStep, Dead
<1> QED BY <1>1, <1>2

(* A document that ended inside an image never belongs to a job that goes   *)
(* on or completes, for every image height and every set of clients.        *)
THEOREM TruncatedNotCompletedHolds == Safety => []TruncatedNotCompleted
<1>1. TruncatedInv => TruncatedNotCompleted
  BY DEF TruncatedInv, TruncatedNotCompleted, Stopped
<1> QED BY <1>1, TypeInductive, TruncatedInductive, PTL DEF Safety

-----------------------------------------------------------------------------
(* The device is given back.                                                *)

Closing == \E c \in Clients : cpc[c] \in CancelPc

\* A job that is over has a session only while some thread is about to close
\* it, or the worker is about to store a new state.
ReleaseInv ==
    /\ scanning => mpSession = "open"
    /\ mState \in {"completed", "canceled"} /\ mpSession # "null" =>
          Closing \/ wpc \in {"start", "starting", "update", "cancel", "saneCancel", "close"}

(* Every step keeps it, a cancellation in any place of a transfer included.  *)
LEMMA ReleaseInductive ==
    /\ Init => ReleaseInv
    /\ TypeOK /\ ReleaseInv /\ [Next]_vars => ReleaseInv'
<1>1. Init => ReleaseInv
  BY DEF Init, JobInit, ReleaseInv, TypeOK, Closing
<1>2. ASSUME TypeOK, ReleaseInv, [Next]_vars
      PROVE  ReleaseInv'
  <2> USE <1>2 DEF ReleaseInv, TypeOK, Closing, CancelPc,
          Goto, At, IsProcessing, ticket, job, device, slot, worker, client
  <2>1. CASE TakeCall
    BY <2>1 DEF TakeCall
  <2>2. CASE CompareExchange
    BY <2>2 DEF CompareExchange, ReturnCall
  <2>3. CASE OpenSession
    BY <2>3 DEF OpenSession
  <2>4. CASE StartSession
    BY <2>4 DEF StartSession, UseSession, NullSession
  <2>5. CASE Started
    <3>1. scanning' => mpSession' = "open"
      BY <2>5 DEF Started
    <3>2. wpc' \in {"starting", "update"}
      BY <2>5 DEF Started
    <3> QED BY <3>1, <3>2, <2>5 DEF Started
  <2>6. CASE Grant
    BY <2>6 DEF Grant, ReturnCall
  <2>7. CASE Refuse
    BY <2>7 DEF Refuse, ReturnCall
  <2>8. CASE UpdateStatus
    <3>1. /\ StatusEffect(st)[1] # "canceled"
          /\ StatusEffect(st)[1] = "completed" => ClosesSession(st)
      BY DEF StatusEffect, ClosesSession, Sheets, Status
    <3> QED BY <2>8, <3>1 DEF UpdateStatus, SetState
  <2>9. CASE Recheck
    BY <2>9 DEF Recheck
  <2>10. CASE CloseSession
    BY <2>10 DEF CloseSession, UseSession, NullSession
  <2>11. CASE MakeEncoder
    BY <2>11 DEF MakeEncoder, SetState
  <2>12. CASE SetParameters
    BY <2>12 DEF SetParameters, UseSession, NullSession, SetState
  <2>13. CASE Page
    BY <2>13 DEF Page, NullSession
  <2>14. CASE Line
    BY <2>14 DEF Line, UseSession, NullSession
  <2>15. CASE Read
    BY <2>15 DEF Read
  <2>16. CASE Write
    BY <2>16 DEF Write, SetState
  <2>17. CASE PageDone
    BY <2>17 DEF PageDone
  <2>18. CASE CheckLines
    BY <2>18 DEF CheckLines, SetState
  <2>19. CASE EndDocument
    BY <2>19 DEF EndDocument, ReturnCall
  <2>20. ASSUME NEW c \in Clients, NextDocument(c)
         PROVE  ReleaseInv'
    BY <2>20 DEF NextDocument, Answer, Move
  <2>21. ASSUME NEW c \in Clients, Cancel(c)
         PROVE  ReleaseInv'
    BY <2>21 DEF Cancel, SetState, Move
  <2>22. ASSUME NEW c \in Clients, BeginTransfer(c)
         PROVE  ReleaseInv'
    BY <2>22 DEF BeginTransfer, Execute, Move
  <2>23. ASSUME NEW c \in Clients, FinishTransfer(c)
         PROVE  ReleaseInv'
    BY <2>23 DEF FinishTransfer, Execute, Move
  <2>24. ASSUME NEW c \in Clients, BeginReturns(c)
         PROVE  ReleaseInv'
    BY <2>24 DEF BeginReturns, Move
  <2>25. ASSUME NEW c \in Clients, Refused(c)
         PROVE  ReleaseInv'
    BY <2>25 DEF Refused, Answer, Move
  <2>26. ASSUME NEW c \in Clients, FinishReturns(c)
         PROVE  ReleaseInv'
    BY <2>26 DEF FinishReturns, Answer, Move
  <2>27. ASSUME NEW c \in Clients, CancelClose(c)
         PROVE  ReleaseInv'
    BY <2>27 DEF CancelClose, NullSession, Answer, Move
  <2>28. CASE UNCHANGED vars
    BY <2>28 DEF vars
  <2> QED
    BY <1>2, <2>1, <2>2, <2>3, <2>4, <2>5, <2>6, <2>7, <2>8, <2>9, <2>10, <2>11, <2>12,
       <2>13, <2>14, <2>15, <2>16, <2>17, <2>18, <2>19, <2>20, <2>21, <2>22, <2>23, <2>24,
       <2>25, <2>26, <2>27, <2>28
       DEF Next, WorkerStep, Request, ClientStep, Dead
<1> QED BY <1>1, <1>2

(* A job that completed or was canceled has closed its session, whatever    *)
(* races with the cancellation.                                             *)
THEOREM ReleasedWhenOverHolds == Safety => []ReleasedWhenOver
<1>1. ReleaseInv => ReleasedWhenOver
  BY DEF ReleaseInv, ReleasedWhenOver, Quiet, Closing, CancelPc
<1> QED BY <1>1, TypeInductive, ReleaseInductive, PTL DEF Safety

-----------------------------------------------------------------------------
(* An aborted or completed job stays finished.                              *)

\* beginTransfer is starting a page, or finishTransfer the next page.
Starting == wpc \in {"open", "start", "starting", "update"}

\* From the compare-exchange to the store of the status only a DELETE changes
\* the state.
StoreInv == Starting => mState \in {"processing", "canceled"}

(* Every step keeps it, and none takes an aborted or completed job up again. *)
LEMMA StoreInductive ==
    /\ Init => StoreInv
    /\ TypeOK /\ StoreInv /\ [Next]_vars =>
          /\ StoreInv'
          /\ [(mState \in {"aborted", "completed"}) => (mState' \in Finished)]_mState
<1>1. Init => StoreInv
  BY DEF Init, JobInit, StoreInv, Starting
<1>2. ASSUME TypeOK, StoreInv, [Next]_vars
      PROVE  /\ StoreInv'
             /\ [(mState \in {"aborted", "completed"}) => (mState' \in Finished)]_mState
  <2> USE <1>2 DEF StoreInv, Starting, Finished, TypeOK, Goto, IsProcessing, ticket, job, worker
  <2> DEFINE Kept == /\ StoreInv'
                     /\ mState \in {"aborted", "completed"} => mState' \in Finished
  <2>1. CASE TakeCall
    BY <2>1 DEF TakeCall
  <2>2. CASE CompareExchange
    BY <2>2 DEF CompareExchange, ReturnCall
  <2>3. CASE OpenSession \/ StartSession \/ Started
    BY <2>3 DEF OpenSession, StartSession, UseSession, NullSession, Started
  <2>4. CASE Grant \/ Refuse \/ EndDocument
    BY <2>4 DEF Grant, Refuse, EndDocument, ReturnCall
  <2>5. CASE UpdateStatus
    BY <2>5 DEF UpdateStatus, SetState
  <2>6. CASE Recheck \/ CloseSession
    BY <2>6 DEF Recheck, CloseSession, UseSession, NullSession
  <2>7. CASE MakeEncoder \/ SetParameters
    BY <2>7 DEF MakeEncoder, SetParameters, UseSession, NullSession, SetState
  <2>8. CASE Page \/ Line \/ Read
    BY <2>8 DEF Page, Line, Read, UseSession, NullSession
  <2>9. CASE Write \/ PageDone \/ CheckLines
    BY <2>9 DEF Write, PageDone, CheckLines, SetState
  <2>10. ASSUME NEW c \in Clients, Request(c) \/ ClientStep(c)
         PROVE  Kept
    BY <2>10 DEF Request, ClientStep, NextDocument, Cancel, BeginTransfer, FinishTransfer,
       Execute, BeginReturns, Refused, FinishReturns, CancelClose, SetState
  <2>11. CASE UNCHANGED vars
    BY <2>11 DEF vars
  <2> QED
    BY <1>2, <2>1, <2>2, <2>3, <2>4, <2>5, <2>6, <2>7, <2>8, <2>9, <2>10, <2>11
       DEF Next, WorkerStep, Dead
<1> QED BY <1>1, <1>2

(* Any number of clients: requests let through before the job was aborted   *)
(* or completed do not bring it back.                                       *)
THEOREM OverForGoodHolds == Safety => OverForGood
BY TypeInductive, StoreInductive, PTL DEF Safety, OverForGood

-----------------------------------------------------------------------------
(* Requests that follow one another: one client.  With overlapping clients a *)
(* DELETE closes the session under the worker, and its state is overwritten *)
(* by the status of the call that was under way, so what follows needs it.  *)

OneClient == \A c, d \in Clients : c = d

\* The job is processing exactly from the compare-exchange to the end of the
\* transfer, and while it is, the client that was granted it is not done.
ProcessingInv ==
    /\ wpc = "idle" /\ IsProcessing => \E c \in Clients : Holds(c)
    /\ wpc \in {"cas", "refuse", "cancel", "saneCancel", "close", "endDocument"} => ~IsProcessing
    /\ Starting \/ wpc \in {"unsupported", "setup", "buffer", "read", "reading", "write"} =>
          IsProcessing
    /\ \A c \in Clients : cpc[c] \in {"saneCancel", "close"} => wpc = "idle"

(* Every step of a single client and of the worker keeps it.                *)
LEMMA ProcessingInductive ==
    ASSUME OneClient
    PROVE  /\ Init => ProcessingInv
           /\ /\ TypeOK /\ SlotInv /\ GrantInv /\ TruncatedInv /\ ProcessingInv
              /\ [Next]_vars
              => ProcessingInv'
<1>1. Init => ProcessingInv
  BY DEF Init, JobInit, ProcessingInv, Starting, IsProcessing
<1>2. ASSUME TypeOK, SlotInv, GrantInv, TruncatedInv, ProcessingInv, [Next]_vars
      PROVE  ProcessingInv'
  <2> USE <1>2 DEF OneClient, ProcessingInv, Starting, TypeOK, SlotInv, GrantInv, Holds,
          TruncatedInv, InBegin, BeginPc, SharedPc,
          Goto, At, IsProcessing, ticket, job, device, slot, worker, client
  <2>1. CASE TakeCall
    BY <2>1 DEF TakeCall
  <2>2. CASE CompareExchange
    BY <2>2 DEF CompareExchange, ReturnCall
  <2>3. CASE OpenSession
    BY <2>3 DEF OpenSession
  <2>4. CASE StartSession
    BY <2>4 DEF StartSession, UseSession, NullSession
  <2>5. CASE Started
    BY <2>5 DEF Started
  <2>6. CASE Grant
    BY <2>6 DEF Grant, ReturnCall
  <2>7. CASE Refuse
    BY <2>7 DEF Refuse, ReturnCall
  <2>8. CASE UpdateStatus
    <3>1. /\ StatusEffect(st)[1] = "processing" => ~ClosesSession(st)
          /\ st = "EOF" /\ mKind = "adfConcat" => ~ClosesSession(st)
      BY DEF StatusEffect, ClosesSession, Status
    <3> QED BY <2>8, <3>1 DEF UpdateStatus, SetState
  <2>9. CASE Recheck
    BY <2>9 DEF Recheck
  <2>10. CASE CloseSession
    BY <2>10 DEF CloseSession, UseSession, NullSession
  <2>11. CASE MakeEncoder
    BY <2>11 DEF MakeEncoder, SetState
  <2>12. CASE SetParameters
    BY <2>12 DEF SetParameters, UseSession, NullSession, SetState
  <2>13. CASE Page
    BY <2>13 DEF Page, NullSession
  <2>14. CASE Line
    BY <2>14 DEF Line, UseSession, NullSession
  <2>15. CASE Read
    BY <2>15 DEF Read
  <2>16. CASE Write
    BY <2>16 DEF Write, SetState
  <2>17. CASE PageDone
    BY <2>17 DEF PageDone
  <2>18. CASE CheckLines
    BY <2>18 DEF CheckLines, SetState
  <2>19. CASE EndDocument
    BY <2>19 DEF EndDocument, ReturnCall
  <2>20. ASSUME NEW c \in Clients, NextDocument(c)
         PROVE  ProcessingInv'
    BY <2>20 DEF NextDocument, Answer, Move
  <2>21. ASSUME NEW c \in Clients, Cancel(c)
         PROVE  ProcessingInv'
    BY <2>21 DEF Cancel, SetState, Move
  <2>22. ASSUME NEW c \in Clients, BeginTransfer(c)
         PROVE  ProcessingInv'
    BY <2>22 DEF BeginTransfer, Execute, Move
  <2>23. ASSUME NEW c \in Clients, FinishTransfer(c)
         PROVE  ProcessingInv'
    BY <2>23 DEF FinishTransfer, Execute, Move
  <2>24. ASSUME NEW c \in Clients, BeginReturns(c)
         PROVE  ProcessingInv'
    BY <2>24 DEF BeginReturns, Move
  <2>25. ASSUME NEW c \in Clients, Refused(c)
         PROVE  ProcessingInv'
    BY <2>25 DEF Refused, Answer, Move
  <2>26. ASSUME NEW c \in Clients, FinishReturns(c)
         PROVE  ProcessingInv'
    BY <2>26 DEF FinishReturns, Answer, Move
  <2>27. ASSUME NEW c \in Clients, CancelClose(c)
         PROVE  ProcessingInv'
    BY <2>27 DEF CancelClose, NullSession, Answer, Move
  <2>28. CASE UNCHANGED vars
    BY <2>28 DEF vars
  <2> QED
    BY <1>2, <2>1, <2>2, <2>3, <2>4, <2>5, <2>6, <2>7, <2>8, <2>9, <2>10, <2>11, <2>12,
       <2>13, <2>14, <2>15, <2>16, <2>17, <2>18, <2>19, <2>20, <2>21, <2>22, <2>23, <2>24,
       <2>25, <2>26, <2>27, <2>28
       DEF Next, WorkerStep, Request, ClientStep, Dead
<1> QED BY <1>1, <1>2

(* Between requests that follow one another no job is left processing.      *)
THEOREM NotLeftProcessingHolds ==
    ASSUME OneClient
    PROVE  Safety => []NotLeftProcessing
<1>1. ProcessingInv => NotLeftProcessing
  BY DEF ProcessingInv, NotLeftProcessing, Quiet, Holds
<1>2. Init => ProcessingInv
  BY ProcessingInductive
<1>3. TypeOK /\ SlotInv /\ GrantInv /\ TruncatedInv /\ ProcessingInv /\ [Next]_vars => ProcessingInv'
  BY ProcessingInductive
<1> QED BY <1>1, <1>2, <1>3, TypeInductive, SlotInductive, GrantInductive, TruncatedInductive, PTL DEF Safety

-----------------------------------------------------------------------------
(* The session a transfer uses.                                             *)

\* A page that has been started has an open session until the job is not
\* processing any more.
SessionInv ==
    /\ fault \in {"none", "nullHandle"}
    /\ wpc \in {"start", "starting", "update"} =>
          /\ mpSession # "null"
          /\ ret = "check" => mpSession = "open"
    /\ wpc = "update" /\ st = "GOOD" => mpSession = "open"
    /\ IsProcessing /\ ~Starting => mpSession = "open"
    /\ wpc = "saneCancel" => mpSession # "null"
    /\ \A c \in Clients : cpc[c] = "saneCancel" => mpSession # "null"

(* The session is closed only when the job has stopped processing, and      *)
(* nothing starts processing again without a session.                       *)
LEMMA SessionInductive ==
    ASSUME OneClient
    PROVE  /\ Init => SessionInv
           /\ TypeOK /\ SlotInv /\ GrantInv /\ ProcessingInv /\ SessionInv /\ [Next]_vars =>
                 SessionInv'
<1>1. Init => SessionInv
  BY DEF Init, JobInit, SessionInv, Starting, IsProcessing
<1>2. ASSUME TypeOK, SlotInv, GrantInv, ProcessingInv, SessionInv, [Next]_vars
      PROVE  SessionInv'
  <2> USE <1>2 DEF OneClient, SessionInv, ProcessingInv, Starting, TypeOK, SlotInv, GrantInv, Holds,
          Goto, At, IsProcessing, ticket, job, device, slot, worker, client
  <2>1. CASE TakeCall
    BY <2>1 DEF TakeCall
  <2>2. CASE CompareExchange
    BY <2>2 DEF CompareExchange, ReturnCall
  <2>3. CASE OpenSession
    BY <2>3 DEF OpenSession
  <2>4. CASE StartSession
    BY <2>4 DEF StartSession, UseSession, NullSession
  <2>5. CASE Started
    BY <2>5 DEF Started
  <2>6. CASE Grant
    BY <2>6 DEF Grant, ReturnCall
  <2>7. CASE Refuse
    BY <2>7 DEF Refuse, ReturnCall
  <2>8. CASE UpdateStatus
    <3>1. StatusEffect(st)[1] = "processing" => st = "GOOD"
      BY DEF StatusEffect, Status
    <3> QED BY <2>8, <3>1 DEF UpdateStatus, SetState
  <2>9. CASE Recheck
    BY <2>9 DEF Recheck
  <2>10. CASE CloseSession
    BY <2>10 DEF CloseSession, UseSession, NullSession
  <2>11. CASE MakeEncoder
    BY <2>11 DEF MakeEncoder, SetState
  <2>12. CASE SetParameters
    BY <2>12 DEF SetParameters, UseSession, NullSession, SetState
  <2>13. CASE Page
    BY <2>13 DEF Page, NullSession
  <2>14. CASE Line
    BY <2>14 DEF Line, UseSession, NullSession
  <2>15. CASE Read
    BY <2>15 DEF Read
  <2>16. CASE Write
    BY <2>16 DEF Write, SetState
  <2>17. CASE PageDone
    BY <2>17 DEF PageDone
  <2>18. CASE CheckLines
    BY <2>18 DEF CheckLines, SetState
  <2>19. CASE EndDocument
    BY <2>19 DEF EndDocument, ReturnCall
  <2>20. ASSUME NEW c \in Clients, NextDocument(c)
         PROVE  SessionInv'
    BY <2>20 DEF NextDocument, Answer, Move
  <2>21. ASSUME NEW c \in Clients, Cancel(c)
         PROVE  SessionInv'
    BY <2>21 DEF Cancel, SetState, Move
  <2>22. ASSUME NEW c \in Clients, BeginTransfer(c)
         PROVE  SessionInv'
    BY <2>22 DEF BeginTransfer, Execute, Move
  <2>23. ASSUME NEW c \in Clients, FinishTransfer(c)
         PROVE  SessionInv'
    BY <2>23 DEF FinishTransfer, Execute, Move
  <2>24. ASSUME NEW c \in Clients, BeginReturns(c)
         PROVE  SessionInv'
    BY <2>24 DEF BeginReturns, Move
  <2>25. ASSUME NEW c \in Clients, Refused(c)
         PROVE  SessionInv'
    BY <2>25 DEF Refused, Answer, Move
  <2>26. ASSUME NEW c \in Clients, FinishReturns(c)
         PROVE  SessionInv'
    BY <2>26 DEF FinishReturns, Answer, Move
  <2>27. ASSUME NEW c \in Clients, CancelClose(c)
         PROVE  SessionInv'
    BY <2>27 DEF CancelClose, NullSession, Answer, Move
  <2>28. CASE UNCHANGED vars
    BY <2>28 DEF vars
  <2> QED
    BY <1>2, <2>1, <2>2, <2>3, <2>4, <2>5, <2>6, <2>7, <2>8, <2>9, <2>10, <2>11, <2>12,
       <2>13, <2>14, <2>15, <2>16, <2>17, <2>18, <2>19, <2>20, <2>21, <2>22, <2>23, <2>24,
       <2>25, <2>26, <2>27, <2>28
       DEF Next, WorkerStep, Request, ClientStep, Dead
<1> QED BY <1>1, <1>2

(* The worker never uses a session that is gone when requests follow one    *)
(* another.                                                                 *)
THEOREM SessionUsableHolds ==
    ASSUME OneClient
    PROVE  Safety => []SessionUsable
<1>1. SessionInv => SessionUsable
  BY DEF SessionInv, SessionUsable
<1>2. Init => ProcessingInv /\ SessionInv
  BY ProcessingInductive, SessionInductive
<1>3. TypeOK /\ SlotInv /\ GrantInv /\ TruncatedInv /\ ProcessingInv /\ SessionInv /\ [Next]_vars =>
          ProcessingInv' /\ SessionInv'
  BY ProcessingInductive, SessionInductive
<1> QED BY <1>1, <1>2, <1>3, TypeInductive, SlotInductive, GrantInductive, TruncatedInductive, PTL DEF Safety

-----------------------------------------------------------------------------
(* Sheets fed and images counted.                                           *)

\* While a page is transferred one sheet more has been fed than counted;
\* otherwise the numbers agree, and a status of NO_DOCS tells the truth.
CountInv ==
    /\ wpc \in {"open", "start", "starting"} => fed = mImagesCompleted
    /\ wpc = "update" =>
          /\ st = "GOOD" => fed = mImagesCompleted + 1
          /\ st \in {"EOF", "NO_DOCS"} => fed = mImagesCompleted
    /\ wpc \in {"update", "line", "pageDone"} /\ st = "NO_DOCS" => fed = feeder
    /\ wpc = "pageDone" /\ IsProcessing => st # "GOOD"
    /\ wpc = "write" \/ (wpc \in {"cancel", "saneCancel", "close"} /\ ret = "line") => st = "GOOD"
    /\ ~Starting =>
          /\ mState = "pending" => fed = mImagesCompleted
          /\ IsProcessing => fed = mImagesCompleted + 1
          /\ mState = "completed" => fed = mImagesCompleted /\ fed = feeder

(* Every step of a job on a document feeder keeps the count.                *)
LEMMA CountInductive ==
    /\ Init => (Sheets => CountInv)
    /\ /\ TypeOK /\ TruncatedInv /\ ProcessingInv /\ SessionInv /\ (Sheets => CountInv)
       /\ [Next]_vars
       => (Sheets => CountInv)'
<1>1. Init => (Sheets => CountInv)
  BY DEF Init, JobInit, CountInv, Starting, IsProcessing
<1>2. ASSUME TypeOK, TruncatedInv, ProcessingInv, SessionInv, Sheets => CountInv, [Next]_vars
      PROVE  (Sheets => CountInv)'
  <2> USE <1>2 DEF Sheets, CountInv, SessionInv, ProcessingInv, Starting, TypeOK, TruncatedInv,
          Goto, At, IsProcessing, ticket, job, device, slot, worker, client
  <2>1. CASE TakeCall
    BY <2>1 DEF TakeCall
  <2>2. CASE CompareExchange
    BY <2>2 DEF CompareExchange, ReturnCall
  <2>3. CASE OpenSession
    BY <2>3 DEF OpenSession
  <2>4. CASE StartSession
    BY <2>4 DEF StartSession, UseSession, NullSession
  <2>5. CASE Started
    <3> SUFFICES ASSUME mKind # "single", CountInv, wpc = "starting"
                 PROVE  CountInv'
      BY <2>5 DEF Started
    <3>1. fed \in Nat /\ mImagesCompleted \in Nat /\ fed = mImagesCompleted
      OBVIOUS
    <3>2. UNCHANGED <<mKind, mState, mImagesCompleted, feeder, ret>> /\ IsProcessing
      BY <2>5 DEF Started
    <3>3. CASE mpSession = "open"
      <4>1. PICK s \in StartStatus :
               /\ st' \in IF s = "GOOD" THEN Status \ {"EOF", "NO_DOCS"} ELSE {s}
               /\ fed' = IF s = "GOOD" THEN fed + 1 ELSE fed
        BY <2>5, <3>3 DEF Started
      <4>2. wpc' = "update"
        BY <2>5, <3>3 DEF Started
      <4>3. /\ st' = "GOOD" => fed' = fed + 1
            /\ st' \in {"EOF", "NO_DOCS"} => fed' = fed
            /\ st' = "NO_DOCS" => fed = feeder
        BY <4>1 DEF StartStatus
      <4> QED BY <3>1, <3>2, <4>1, <4>2, <4>3
    <3>4. CASE mpSession # "open"
      <4>1. UNCHANGED fed /\ (wpc' = "update" => st' \notin {"GOOD", "NO_DOCS"})
        BY <2>5, <3>4 DEF Started
      <4>2. wpc' \in {"starting", "update"}
        BY <2>5 DEF Started
      <4> QED BY <3>1, <3>2, <4>1, <4>2
    <3> QED BY <3>3, <3>4
  <2>6. CASE Grant
    BY <2>6 DEF Grant, ReturnCall
  <2>7. CASE Refuse
    BY <2>7 DEF Refuse, ReturnCall
  <2>8. CASE UpdateStatus
    <3>1. mKind # "single" =>
            /\ StatusEffect(st)[1] = "processing" => st = "GOOD"
            /\ StatusEffect(st)[1] = "pending" => st = "EOF"
            /\ StatusEffect(st)[1] = "completed" => st = "NO_DOCS"
      BY DEF StatusEffect, Status
    <3> QED BY <2>8, <3>1 DEF UpdateStatus, SetState
  <2>9. CASE Recheck
    BY <2>9 DEF Recheck
  <2>10. CASE CloseSession
    BY <2>10 DEF CloseSession, UseSession, NullSession
  <2>11. CASE MakeEncoder
    BY <2>11 DEF MakeEncoder, SetState
  <2>12. CASE SetParameters
    BY <2>12 DEF SetParameters, UseSession, NullSession, SetState
  <2>13. CASE Page
    BY <2>13 DEF Page, NullSession
  <2>14. CASE Line
    BY <2>14 DEF Line, UseSession, NullSession
  <2>15. CASE Read
    BY <2>15 DEF Read, ReadStatus
  <2>16. CASE Write
    BY <2>16 DEF Write, SetState
  <2>17. CASE PageDone
    BY <2>17 DEF PageDone
  <2>18. CASE CheckLines
    BY <2>18 DEF CheckLines, SetState
  <2>19. CASE EndDocument
    BY <2>19 DEF EndDocument, ReturnCall
  <2>20. ASSUME NEW c \in Clients, NextDocument(c)
         PROVE  (Sheets => CountInv)'
    BY <2>20 DEF NextDocument, Answer, Move
  <2>21. ASSUME NEW c \in Clients, Cancel(c)
         PROVE  (Sheets => CountInv)'
    BY <2>21 DEF Cancel, SetState, Move
  <2>22. ASSUME NEW c \in Clients, BeginTransfer(c)
         PROVE  (Sheets => CountInv)'
    BY <2>22 DEF BeginTransfer, Execute, Move
  <2>23. ASSUME NEW c \in Clients, FinishTransfer(c)
         PROVE  (Sheets => CountInv)'
    BY <2>23 DEF FinishTransfer, Execute, Move
  <2>24. ASSUME NEW c \in Clients, BeginReturns(c)
         PROVE  (Sheets => CountInv)'
    BY <2>24 DEF BeginReturns, Move
  <2>25. ASSUME NEW c \in Clients, Refused(c)
         PROVE  (Sheets => CountInv)'
    BY <2>25 DEF Refused, Answer, Move
  <2>26. ASSUME NEW c \in Clients, FinishReturns(c)
         PROVE  (Sheets => CountInv)'
    BY <2>26 DEF FinishReturns, Answer, Move
  <2>27. ASSUME NEW c \in Clients, CancelClose(c)
         PROVE  (Sheets => CountInv)'
    BY <2>27 DEF CancelClose, NullSession, Answer, Move
  <2>28. CASE UNCHANGED vars
    BY <2>28 DEF vars
  <2> QED
    BY <1>2, <2>1, <2>2, <2>3, <2>4, <2>5, <2>6, <2>7, <2>8, <2>9, <2>10, <2>11, <2>12,
       <2>13, <2>14, <2>15, <2>16, <2>17, <2>18, <2>19, <2>20, <2>21, <2>22, <2>23, <2>24,
       <2>25, <2>26, <2>27, <2>28
       DEF Next, WorkerStep, Request, ClientStep, Dead
<1> QED BY <1>1, <1>2

(* Every sheet the feeder has fed is counted before the next one is asked   *)
(* for, and a feeder job completes only with an empty feeder and every      *)
(* sheet transferred, for any number of sheets.                             *)
THEOREM SheetsAccountedHolds ==
    ASSUME OneClient
    PROVE  Safety => []SheetsAccounted
<1>1. (Sheets => CountInv) => SheetsAccounted
  BY DEF CountInv, SheetsAccounted, Starting
<1>2. Init => ProcessingInv /\ SessionInv /\ (Sheets => CountInv)
  BY ProcessingInductive, SessionInductive, CountInductive
<1>3. TypeOK /\ SlotInv /\ GrantInv /\ TruncatedInv /\ ProcessingInv /\ SessionInv /\ (Sheets => CountInv)
          /\ [Next]_vars =>
          ProcessingInv' /\ SessionInv' /\ (Sheets => CountInv)'
  BY ProcessingInductive, SessionInductive, CountInductive
<1> QED BY <1>1, <1>2, <1>3, TypeInductive, SlotInductive, GrantInductive, TruncatedInductive, PTL DEF Safety
==============================================================================

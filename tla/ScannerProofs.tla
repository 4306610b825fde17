---------------------------- MODULE ScannerProofs ----------------------------
(***************************************************************************)
(* Theorems about Scanner for any number of jobs and request threads, any   *)
(* time-out and any number of sheets.                                       *)
(***************************************************************************)
EXTENDS Scanner, TLAPS

USE ScannerAssumption

HandlerPc == {"idle", "init", "initDownload", "begin", "pageBegin", "open", "pageOpen",
              "start", "pageStart", "granted", "refused", "pageRefused", "transfer",
              "update", "ended", "cancel", "adfReset", "list"}
JobStates == {"none", "pending", "processing"} \cup Finished

TypeOK ==
    /\ mJobs \subseteq Jobs /\ mJobsMutex \in Handlers \cup {Purge, None}
    /\ mState \in [Jobs -> JobStates]
    /\ mKind \in [Jobs -> {"single", "adfSingle"}]
    /\ mAdfStatus \in [Jobs -> AdfStatus]
    /\ sess \in [Jobs -> {"null", "open", "dead"}]
    /\ left \in [Jobs -> 0 .. Sheets]
    /\ idle \in [Jobs -> Ticks] /\ since \in [Jobs -> Ticks]
    /\ mpSession \in Jobs \cup {None}
    /\ mTemporaryAdfStatus \in AdfStatus
    /\ openFailed \in BOOLEAN
    /\ at \in [Handlers -> [pc : HandlerPc, job : Jobs \cup {None}]]
    /\ visit \subseteq Jobs

\* A request thread has a job exactly in the places that deal with one.
JobHeld ==
    \A h \in Handlers : at[h].job = None <=> at[h].pc \in {"idle", "adfReset", "list"}

-----------------------------------------------------------------------------
(* An answered request leaves the thread idle and every value in its type;  *)
(* the arguments are what it has stored before.                             *)
LEMMA ReturnTypes ==
    ASSUME TypeOK, NEW h \in Handlers, NEW states \in [Jobs -> JobStates],
           NEW sessions \in [Jobs -> {"null", "open", "dead"}],
           ReturnWith(h, states, sessions)
    PROVE  /\ mState' \in [Jobs -> JobStates]
           /\ sess' \in [Jobs -> {"null", "open", "dead"}]
           /\ mKind' \in [Jobs -> {"single", "adfSingle"}]
           /\ mAdfStatus' \in [Jobs -> AdfStatus]
           /\ left' \in [Jobs -> 0 .. Sheets]
           /\ at' \in [Handlers -> [pc : HandlerPc, job : Jobs \cup {None}]]
BY DEF TypeOK, ReturnWith, Destroy, Nowhere, HandlerPc, JobStates, AdfStatus

(* A thread that goes on keeps its job, and the others stay where they are. *)
LEMMA GoMoves ==
    ASSUME TypeOK, NEW h \in Handlers, NEW l \in HandlerPc, Go(h, l)
    PROVE  /\ at' \in [Handlers -> [pc : HandlerPc, job : Jobs \cup {None}]]
           /\ at'[h].pc = l /\ at'[h].job = at[h].job
           /\ \A g \in Handlers \ {h} : at'[g] = at[g]
BY DEF TypeOK, Go

(* Every step of the request threads and of the purge thread keeps the      *)
(* types, and a thread has a job exactly where it deals with one.            *)
LEMMA TypeInductive ==
    /\ Init => TypeOK /\ JobHeld
    /\ TypeOK /\ JobHeld /\ [Next]_vars => TypeOK' /\ JobHeld'
<1>1. ASSUME Init
      PROVE  TypeOK /\ JobHeld
  <2>1. /\ at \in [Handlers -> [pc : HandlerPc, job : Jobs \cup {None}]]
        /\ JobHeld
    BY <1>1 DEF Init, JobHeld, Nowhere, HandlerPc
  <2>2. idle \in [Jobs -> Ticks] /\ since \in [Jobs -> Ticks] /\ left \in [Jobs -> 0 .. Sheets]
    BY <1>1 DEF Init, Ticks
  <2> QED BY <1>1, <2>1, <2>2 DEF Init, TypeOK, JobStates, AdfStatus
<1>2. ASSUME TypeOK, JobHeld, [Next]_vars
      PROVE  TypeOK' /\ JobHeld'
  <2> USE <1>2 DEF JobHeld
  <2>1. CASE Tick
    BY <2>1 DEF TypeOK, Tick, Ticks, Later, map
  <2>2. ASSUME NEW h \in Handlers, NEW j \in Jobs, CreateJob(h, j)
        PROVE  TypeOK' /\ JobHeld'
    BY <2>2 DEF TypeOK, CreateJob, At, Unlocked, JobStates, HandlerPc, Ticks
  <2>3. ASSUME NEW h \in Handlers, InitJob(h)
        PROVE  TypeOK' /\ JobHeld'
    <3>1. PICK s \in {"pending", "aborted"} :
             LET states == [mState EXCEPT ![My(h)] = s]
             IN IF At(h, "init") THEN ReturnWith(h, states, sess)
                ELSE /\ Go(h, "pageBegin") /\ mState' = states
                     /\ UNCHANGED <<mKind, mAdfStatus, sess, left>>
      BY <2>3 DEF InitJob
    <3> DEFINE states == [mState EXCEPT ![My(h)] = s]
    <3>2. states \in [Jobs -> JobStates]
      BY DEF TypeOK, JobStates, Finished
    <3>3. CASE At(h, "init")
      <4>1. ReturnWith(h, states, sess)
        BY <3>1, <3>3
      <4>2. sess \in [Jobs -> {"null", "open", "dead"}]
        BY DEF TypeOK
      <4> HIDE DEF states
      <4>3. TypeOK'
        BY <2>3, <3>2, <4>1, <4>2, ReturnTypes DEF TypeOK, InitJob, map
      <4> QED BY <4>1, <4>3 DEF ReturnWith, Nowhere, TypeOK
    <3>4. CASE ~At(h, "init")
      <4>1. Go(h, "pageBegin") /\ "pageBegin" \in HandlerPc
        BY <3>1, <3>4 DEF HandlerPc
      <4>2. /\ at' \in [Handlers -> [pc : HandlerPc, job : Jobs \cup {None}]]
            /\ JobHeld'
        BY <2>3, <3>4, <4>1, GoMoves DEF InitJob, At
      <4> QED BY <2>3, <3>1, <3>2, <3>4, <4>2 DEF TypeOK, InitJob, map
    <3> QED BY <3>3, <3>4
  <2>4. ASSUME NEW h \in Handlers, NEW j \in Jobs, NextDocument(h, j)
        PROVE  TypeOK' /\ JobHeld'
    BY <2>4 DEF TypeOK, NextDocument, At, HandlerPc, map, job
  <2>5. ASSUME NEW h \in Handlers, BeginTransfer(h)
        PROVE  TypeOK' /\ JobHeld'
    BY <2>5 DEF TypeOK, BeginTransfer, At, Go, My, JobStates, HandlerPc, map
  <2>6. ASSUME NEW h \in Handlers, Open(h)
        PROVE  TypeOK' /\ JobHeld'
    <3>1. Go(h, "start") \/ Go(h, "pageStart")
      BY <2>6 DEF Open
    <3>2. /\ at' \in [Handlers -> [pc : HandlerPc, job : Jobs \cup {None}]]
          /\ JobHeld'
      BY <2>6, <3>1, GoMoves DEF Open, At, HandlerPc
    <3>3. mpSession' \in Jobs \cup {None}
      BY <2>6 DEF TypeOK, Open, My
    <3>4. sess' \in [Jobs -> {"null", "open", "dead"}]
      BY <2>6 DEF TypeOK, Open, My
    <3>5. openFailed' \in BOOLEAN
      BY <2>6, Zenon DEF TypeOK, Open
    <3> QED BY <2>6, <3>2, <3>3, <3>4, <3>5 DEF TypeOK, Open, map
  <2>7. ASSUME NEW h \in Handlers, Start(h)
        PROVE  TypeOK' /\ JobHeld'
    <3> DEFINE j == My(h)
    <3>1. j \in Jobs
      BY <2>7 DEF TypeOK, Start, At, My
    <3>2. PICK r \in StartResult(j) :
             /\ mState' = [mState EXCEPT ![j] = r[1]]
             /\ mAdfStatus' = [mAdfStatus EXCEPT ![j] = r[2]]
             /\ IF r[1] = "processing"
                THEN /\ left' = IF mKind[j] = "single" THEN left ELSE [left EXCEPT ![j] = @ - 1]
                     /\ Go(h, "granted") /\ UNCHANGED sess
                ELSE /\ sess' = [sess EXCEPT ![j] = "null"]
                     /\ Go(h, IF At(h, "start") THEN "refused" ELSE "pageRefused")
                     /\ UNCHANGED left
      BY <2>7 DEF Start
    <3>3. /\ r[1] \in {"aborted", "completed", "processing"} /\ r[2] \in AdfStatus
          /\ r[1] = "processing" /\ mKind[j] # "single" => left[j] # 0
      BY <3>1 DEF StartResult, AdfStatus, TypeOK
    <3>4. mState' \in [Jobs -> JobStates] /\ mAdfStatus' \in [Jobs -> AdfStatus]
      BY <3>2, <3>3 DEF TypeOK, JobStates, Finished
    <3>5. left' \in [Jobs -> 0 .. Sheets] /\ sess' \in [Jobs -> {"null", "open", "dead"}]
      BY <3>1, <3>2, <3>3 DEF TypeOK
    <3>6. /\ at' \in [Handlers -> [pc : HandlerPc, job : Jobs \cup {None}]]
          /\ JobHeld'
      BY <2>7, <3>2 DEF TypeOK, Start, At, Go, HandlerPc
    <3> QED BY <2>7, <3>4, <3>5, <3>6 DEF TypeOK, Start, map
  <2>8. ASSUME NEW h \in Handlers, Refused(h)
        PROVE  TypeOK' /\ JobHeld'
    <3>1. /\ ReturnWith(h, mState, sess)
          /\ mState \in [Jobs -> JobStates] /\ sess \in [Jobs -> {"null", "open", "dead"}]
      BY <2>8 DEF Refused, TypeOK
    <3>2. mTemporaryAdfStatus' \in AdfStatus
      BY <2>8 DEF Refused, TypeOK, AdfStatus, My, At
    <3>3. TypeOK'
      BY <2>8, <3>1, <3>2, ReturnTypes DEF TypeOK, Refused, map
    <3> QED BY <3>1, <3>3 DEF ReturnWith, Nowhere, TypeOK
  <2>9. ASSUME NEW h \in Handlers, Transfer(h)
        PROVE  TypeOK' /\ JobHeld'
    BY <2>9 DEF TypeOK, Transfer, At, Go, My, HandlerPc, Ticks, map
  <2>10. ASSUME NEW h \in Handlers, TransferEnds(h)
         PROVE  TypeOK' /\ JobHeld'
    <3>1. /\ ReturnWith(h, mState, sess)
          /\ mState \in [Jobs -> JobStates] /\ sess \in [Jobs -> {"null", "open", "dead"}]
      BY <2>10 DEF TransferEnds, TypeOK
    <3>2. idle' \in [Jobs -> Ticks] /\ since' \in [Jobs -> Ticks]
      <4>1. /\ idle' = [idle EXCEPT ![My(h)] = 0]
            /\ since' = since \/ since' = [since EXCEPT ![My(h)] = 0]
        BY <2>10 DEF TransferEnds
      <4>2. 0 \in Ticks /\ idle \in [Jobs -> Ticks] /\ since \in [Jobs -> Ticks]
        BY DEF TypeOK, Ticks
      <4> QED BY <4>1, <4>2
    <3>3. UNCHANGED <<mJobs, mJobsMutex, mpSession, mTemporaryAdfStatus, openFailed, visit>>
      BY <2>10 DEF TransferEnds, map
    <3>4. TypeOK'
      BY <3>1, <3>2, <3>3, ReturnTypes DEF TypeOK
    <3> QED BY <3>1, <3>4 DEF ReturnWith, Nowhere, TypeOK
  <2>10a. ASSUME NEW h \in Handlers, PageEnds(h)
         PROVE  TypeOK' /\ JobHeld'
    <3>1. Go(h, "update") \/ Go(h, "ended")
      BY <2>10a DEF PageEnds
    <3>2. /\ at' \in [Handlers -> [pc : HandlerPc, job : Jobs \cup {None}]]
          /\ JobHeld'
      BY <2>10a, <3>1, GoMoves DEF PageEnds, At, HandlerPc
    <3>3. mState' \in [Jobs -> JobStates] /\ sess' \in [Jobs -> {"null", "open", "dead"}]
      BY <2>10a DEF PageEnds, TypeOK, JobStates, Finished
    <3> QED BY <2>10a, <3>2, <3>3 DEF PageEnds, TypeOK, map
  <2>10b. ASSUME NEW h \in Handlers, UpdateStatus(h)
         PROVE  TypeOK' /\ JobHeld'
    <3> DEFINE j == My(h)
    <3>1. j \in Jobs
      BY <2>10b DEF TypeOK, UpdateStatus, At, My
    <3>2. PICK r \in PageResult(j) :
             /\ mState' = [mState EXCEPT ![j] = r[1]]
             /\ mAdfStatus' = [mAdfStatus EXCEPT ![j] = r[2]]
             /\ sess' = [sess EXCEPT ![j] = r[3]]
      BY <2>10b DEF UpdateStatus
    <3>3. r[1] \in JobStates /\ r[2] \in AdfStatus /\ r[3] \in {"null", "open", "dead"}
      BY <3>1 DEF PageResult, TypeOK, JobStates, Finished, AdfStatus
    <3>4. /\ at' \in [Handlers -> [pc : HandlerPc, job : Jobs \cup {None}]]
          /\ JobHeld'
      BY <2>10b, GoMoves DEF UpdateStatus, At, HandlerPc
    <3> QED BY <2>10b, <3>2, <3>3, <3>4 DEF UpdateStatus, TypeOK, map
  <2>11. ASSUME NEW h \in Handlers, NEW j \in Jobs, CancelJob(h, j)
         PROVE  TypeOK' /\ JobHeld'
    BY <2>11 DEF TypeOK, CancelJob, At, JobStates, Finished, HandlerPc
  <2>12. ASSUME NEW h \in Handlers, CancelCloses(h)
         PROVE  TypeOK' /\ JobHeld'
    BY <2>12 DEF TypeOK, CancelCloses, At, My, Nowhere, HandlerPc
  <2>13. ASSUME NEW h \in Handlers, Status(h) \/ StatusReset(h) \/ StatusList(h)
         PROVE  TypeOK' /\ JobHeld'
    BY <2>13 DEF TypeOK, Status, StatusReset, StatusList, At, Go, Nowhere, HandlerPc,
                 AdfStatus, map, job
  <2>14. CASE PurgeBegins \/ PurgeEnds
    BY <2>14 DEF TypeOK, PurgeBegins, PurgeEnds, job
  <2>15. ASSUME NEW j \in Jobs, PurgeVisits(j)
         PROVE  TypeOK' /\ JobHeld'
    BY <2>15 DEF TypeOK, PurgeVisits, Destroy, JobStates, AdfStatus
  <2>16. CASE UNCHANGED vars
    BY <2>16 DEF TypeOK, vars, map, job
  <2> QED
    BY <1>2, <2>1, <2>2, <2>3, <2>4, <2>5, <2>6, <2>7, <2>8, <2>9, <2>10, <2>11, <2>12,
       <2>13, <2>14, <2>15, <2>16, <2>10a, <2>10b DEF Next, PurgeStep, Request, HandlerStep
<1> QED BY <1>1, <1>2

(* Type correctness of the scanner, its jobs and its threads.               *)
THEOREM TypeCorrect == Safety => []TypeOK
BY TypeInductive, PTL DEF Safety

-----------------------------------------------------------------------------
(* The mutex of the map, and references to jobs.                            *)

\* cancelJob and purgeJobs are the only ones that keep the mutex over more than
\* one step.  What either of them is looking at stays in the map meanwhile.
LockInv ==
    /\ \A h \in Handlers : mJobsMutex = h <=> at[h].pc = "cancel"
    /\ \A h \in Handlers : at[h].pc = "cancel" => at[h].job \in mJobs
    /\ visit \subseteq mJobs
    /\ mJobsMutex # Purge => visit = {}

\* RefsExact, for each place of a job.
RefsInv ==
    \A j \in Jobs : /\ mState[j] # "none" <=> j \in mJobs \/ \E h \in Handlers : at[h].job = j
                    /\ sess[j] # "null" => mState[j] # "none"

(* The mutex is held by at most one thread, and the map does not change     *)
(* under it.                                                                *)
LEMMA LockInductive ==
    /\ Init => LockInv
    /\ TypeOK /\ JobHeld /\ LockInv /\ [Next]_vars => LockInv'
<1>1. Init => LockInv
  BY DEF Init, LockInv, Nowhere
<1>2. ASSUME TypeOK, JobHeld, LockInv, [Next]_vars
      PROVE  LockInv'
  <2> USE <1>2 DEF LockInv, At
  <2>1. CASE Tick
    BY <2>1 DEF Tick, map
  <2>2. ASSUME NEW h \in Handlers, NEW j \in Jobs, CreateJob(h, j)
        PROVE  LockInv'
    BY <2>2 DEF TypeOK, CreateJob, Unlocked
  <2>3. ASSUME NEW h \in Handlers, InitJob(h)
        PROVE  LockInv'
    <3>1. \/ at' = [at EXCEPT ![h] = Nowhere]
          \/ Go(h, "pageBegin") /\ "pageBegin" \in HandlerPc
      BY <2>3 DEF InitJob, ReturnWith, HandlerPc
    <3>2. at'[h].pc # "cancel" /\ \A g \in Handlers \ {h} : at'[g] = at[g]
      BY <3>1, GoMoves DEF TypeOK, Nowhere
    <3> QED BY <2>3, <3>2 DEF InitJob, map
  <2>4. ASSUME NEW h \in Handlers, NEW j \in Jobs, NextDocument(h, j)
        PROVE  LockInv'
    BY <2>4 DEF TypeOK, NextDocument, map
  <2>5. ASSUME NEW h \in Handlers, BeginTransfer(h)
        PROVE  LockInv'
    BY <2>5 DEF TypeOK, BeginTransfer, Go, map
  <2>6. ASSUME NEW h \in Handlers, Open(h)
        PROVE  LockInv'
    BY <2>6 DEF TypeOK, Open, Go, map
  <2>7. ASSUME NEW h \in Handlers, Start(h)
        PROVE  LockInv'
    BY <2>7 DEF TypeOK, Start, Go, map
  <2>8. ASSUME NEW h \in Handlers, Refused(h) \/ TransferEnds(h)
        PROVE  LockInv'
    <3>1. at' = [at EXCEPT ![h] = Nowhere] /\ UNCHANGED <<mJobs, mJobsMutex, visit>>
      BY <2>8 DEF Refused, TransferEnds, ReturnWith, map
    <3> QED BY <2>8, <3>1 DEF TypeOK, Refused, TransferEnds, Nowhere
  <2>9. ASSUME NEW h \in Handlers, Transfer(h) \/ PageEnds(h) \/ UpdateStatus(h)
        PROVE  LockInv'
    BY <2>9 DEF TypeOK, Transfer, PageEnds, UpdateStatus, Go, map
  <2>10. ASSUME NEW h \in Handlers, NEW j \in Jobs, CancelJob(h, j)
         PROVE  LockInv'
    BY <2>10 DEF TypeOK, CancelJob, Unlocked
  <2>11. ASSUME NEW h \in Handlers, CancelCloses(h)
         PROVE  LockInv'
    BY <2>11 DEF TypeOK, CancelCloses, Nowhere
  <2>12. ASSUME NEW h \in Handlers, Status(h) \/ StatusReset(h) \/ StatusList(h)
         PROVE  LockInv'
    BY <2>12 DEF TypeOK, Status, StatusReset, StatusList, Go, Nowhere, map
  <2>13. CASE PurgeBegins \/ PurgeEnds
    BY <2>13 DEF TypeOK, PurgeBegins, PurgeEnds, Unlocked
  <2>14. ASSUME NEW j \in Jobs, PurgeVisits(j)
         PROVE  LockInv'
    <3>1. /\ visit' = visit \ {j} /\ mJobs \ {j} \subseteq mJobs' /\ mJobs' \subseteq mJobs
          /\ UNCHANGED <<mJobsMutex, at>> /\ mJobsMutex = Purge
      BY <2>14 DEF PurgeVisits
    <3>2. \A h \in Handlers : at[h].pc # "cancel"
      BY <3>1
    <3> QED BY <3>1, <3>2
  <2>15. CASE UNCHANGED vars
    BY <2>15 DEF vars, map
  <2> QED
    BY <1>2, <2>1, <2>2, <2>3, <2>4, <2>5, <2>6, <2>7, <2>8, <2>9, <2>10, <2>11, <2>12,
       <2>13, <2>14, <2>15 DEF Next, PurgeStep, Request, HandlerStep
<1> QED BY <1>1, <1>2

(* An answered request gives up its reference: its job is destroyed exactly *)
(* when that was the last one.                                              *)
LEMMA ReturnRefs ==
    ASSUME TypeOK, RefsInv, NEW h \in Handlers, My(h) \in Jobs,
           NEW states \in [Jobs -> JobStates], NEW sessions \in [Jobs -> {"null", "open", "dead"}],
           \A j \in Jobs : states[j] = "none" <=> mState[j] = "none",
           \A j \in Jobs : sess[j] = "null" => sessions[j] = "null",
           ReturnWith(h, states, sessions), mJobs' = mJobs
    PROVE  RefsInv'
<1>1. ASSUME NEW j \in Jobs
      PROVE  /\ mState'[j] # "none" <=> j \in mJobs' \/ \E g \in Handlers : at'[g].job = j
             /\ sess'[j] # "null" => mState'[j] # "none"
  <2> DEFINE gone == {My(h)} \ (mJobs \cup {My(g) : g \in Handlers \ {h}})
  <2>1. /\ mState'[j] = IF j \in gone THEN "none" ELSE states[j]
        /\ sess'[j] = IF j \in gone THEN "null" ELSE sessions[j]
    BY DEF ReturnWith, Destroy
  <2>2. /\ at'[h].job = None /\ \A g \in Handlers \ {h} : at'[g].job = at[g].job
    BY DEF ReturnWith, Nowhere, TypeOK
  <2>3. (\E g \in Handlers : at'[g].job = j) <=> \E g \in Handlers \ {h} : at[g].job = j
    BY <2>2
  <2>4. j \in gone <=> j = at[h].job /\ j \notin mJobs /\ \A g \in Handlers \ {h} : at[g].job # j
    BY DEF My
  <2>5. mState[j] # "none" <=> j \in mJobs \/ \E g \in Handlers : at[g].job = j
    BY DEF RefsInv
  <2>6. sess[j] # "null" => mState[j] # "none"
    BY DEF RefsInv
  <2> QED BY <2>1, <2>3, <2>4, <2>5, <2>6
<1> QED BY <1>1 DEF RefsInv

(* Every step keeps references and jobs in agreement.                       *)
LEMMA RefsInductive ==
    /\ Init => RefsInv
    /\ TypeOK /\ JobHeld /\ LockInv /\ RefsInv /\ [Next]_vars => RefsInv'
<1>1. Init => RefsInv
  BY DEF Init, RefsInv, Nowhere
<1>2. ASSUME TypeOK, JobHeld, LockInv, RefsInv, [Next]_vars
      PROVE  RefsInv'
  <2> USE <1>2
  <2>1. CASE Tick
    BY <2>1 DEF RefsInv, Tick, map
  <2>2. ASSUME NEW h \in Handlers, NEW j \in Jobs, CreateJob(h, j)
        PROVE  RefsInv'
    BY <2>2 DEF RefsInv, TypeOK, JobHeld, CreateJob, At
  <2>3. ASSUME NEW h \in Handlers, InitJob(h)
        PROVE  RefsInv'
    <3>1. My(h) \in Jobs
      BY <2>3 DEF InitJob, TypeOK, JobHeld, At, My
    <3>2. PICK s \in {"pending", "aborted"} :
             LET states == [mState EXCEPT ![My(h)] = s]
             IN IF At(h, "init") THEN ReturnWith(h, states, sess)
                ELSE /\ Go(h, "pageBegin") /\ mState' = states
                     /\ UNCHANGED <<mKind, mAdfStatus, sess, left>>
      BY <2>3 DEF InitJob
    <3> DEFINE states == [mState EXCEPT ![My(h)] = s]
    <3>3. /\ states \in [Jobs -> JobStates] /\ sess \in [Jobs -> {"null", "open", "dead"}]
          /\ \A j \in Jobs : states[j] = "none" <=> mState[j] = "none"
      BY <3>1 DEF TypeOK, JobStates, Finished, RefsInv, My
    <3>4. mJobs' = mJobs
      BY <2>3 DEF InitJob, map
    <3>5. CASE At(h, "init")
      <4>1. ReturnWith(h, states, sess)
        BY <3>2, <3>5
      <4> HIDE DEF states
      <4> QED BY <3>1, <3>3, <3>4, <4>1, ReturnRefs
    <3>6. CASE ~At(h, "init")
      <4>1. \A g \in Handlers : at'[g].job = at[g].job
        BY <3>2, <3>6, GoMoves DEF HandlerPc
      <4>2. mState' = states /\ sess' = sess
        BY <3>2, <3>6
      <4> HIDE DEF states
      <4> QED BY <3>3, <3>4, <4>1, <4>2 DEF RefsInv
    <3> QED BY <3>5, <3>6
  <2>4. ASSUME NEW h \in Handlers, NEW j \in Jobs, NextDocument(h, j)
        PROVE  RefsInv'
    BY <2>4 DEF RefsInv, TypeOK, JobHeld, NextDocument, At, map, job
  <2>5. ASSUME NEW h \in Handlers, BeginTransfer(h)
        PROVE  RefsInv'
    <3>1. \A g \in Handlers : at'[g].job = at[g].job
      BY <2>5 DEF BeginTransfer, TypeOK, Go
    <3>2. \A j \in Jobs : mState'[j] = "none" <=> mState[j] = "none"
      BY <2>5 DEF BeginTransfer, TypeOK
    <3> QED BY <2>5, <3>1, <3>2 DEF RefsInv, BeginTransfer, map
  <2>6. ASSUME NEW h \in Handlers, Open(h)
        PROVE  RefsInv'
    <3>1. \A g \in Handlers : at'[g].job = at[g].job
      BY <2>6 DEF Open, TypeOK, Go
    <3>2. My(h) \in Jobs /\ mState[My(h)] # "none"
      BY <2>6 DEF Open, TypeOK, JobHeld, At, My, RefsInv
    <3>3. \A j \in Jobs : sess'[j] = sess[j] \/ j = My(h)
      BY <2>6 DEF Open, TypeOK
    <3> QED BY <2>6, <3>1, <3>2, <3>3 DEF RefsInv, Open, map
  <2>7. ASSUME NEW h \in Handlers, Start(h)
        PROVE  RefsInv'
    <3>1. \A g \in Handlers : at'[g].job = at[g].job
      BY <2>7 DEF Start, TypeOK, Go
    <3>2. My(h) \in Jobs /\ mState[My(h)] # "none"
      BY <2>7 DEF Start, TypeOK, JobHeld, At, My, RefsInv
    <3>3. \A j \in Jobs : (mState'[j] = "none" <=> mState[j] = "none")
                          /\ (sess'[j] = sess[j] \/ sess'[j] = "null")
      BY <2>7, <3>2 DEF Start, StartResult, TypeOK
    <3> QED BY <2>7, <3>1, <3>3 DEF RefsInv, Start, map
  <2>8. ASSUME NEW h \in Handlers, Refused(h)
        PROVE  RefsInv'
    <3>1. My(h) \in Jobs
      BY <2>8 DEF Refused, TypeOK, JobHeld, At, My
    <3> QED BY <2>8, <3>1, ReturnRefs DEF Refused, TypeOK, map
  <2>9. ASSUME NEW h \in Handlers, Transfer(h)
        PROVE  RefsInv'
    <3>1. \A g \in Handlers : at'[g].job = at[g].job
      BY <2>9 DEF Transfer, TypeOK, Go
    <3> QED BY <2>9, <3>1 DEF RefsInv, Transfer, map
  <2>10. ASSUME NEW h \in Handlers, TransferEnds(h)
         PROVE  RefsInv'
    <3>1. My(h) \in Jobs
      BY <2>10 DEF TransferEnds, TypeOK, JobHeld, At, My
    <3> QED BY <2>10, <3>1, ReturnRefs DEF TransferEnds, TypeOK, map
  <2>10a. ASSUME NEW h \in Handlers, PageEnds(h) \/ UpdateStatus(h)
         PROVE  RefsInv'
    <3>1. \A g \in Handlers : at'[g].job = at[g].job
      BY <2>10a DEF PageEnds, UpdateStatus, TypeOK, Go
    <3>2. My(h) \in Jobs /\ mState[My(h)] # "none"
      BY <2>10a DEF PageEnds, UpdateStatus, TypeOK, JobHeld, At, My, RefsInv
    <3>3. \A r \in PageResult(My(h)) : r[1] # "none" /\ r[3] \in {"null", sess[My(h)]}
      BY DEF PageResult
    <3>4. \A j \in Jobs : (mState'[j] = "none" <=> mState[j] = "none")
                          /\ (sess'[j] = sess[j] \/ sess'[j] = "null")
      BY <2>10a, <3>2, <3>3 DEF PageEnds, UpdateStatus, TypeOK
    <3> QED BY <2>10a, <3>1, <3>4 DEF RefsInv, PageEnds, UpdateStatus, map
  <2>11. ASSUME NEW h \in Handlers, NEW j \in Jobs, CancelJob(h, j)
         PROVE  RefsInv'
    BY <2>11 DEF RefsInv, TypeOK, JobHeld, CancelJob, At
  <2>12. ASSUME NEW h \in Handlers, CancelCloses(h)
         PROVE  RefsInv'
    <3>1. at[h].job \in mJobs
      BY <2>12 DEF CancelCloses, At, LockInv
    <3>2. /\ at'[h].job = None /\ \A g \in Handlers \ {h} : at'[g] = at[g]
          /\ \A j \in Jobs : sess'[j] \in {sess[j], "null"}
          /\ UNCHANGED <<mJobs, mState>>
      BY <2>12 DEF CancelCloses, TypeOK, Nowhere
    <3> QED BY <3>1, <3>2 DEF RefsInv, TypeOK
  <2>13. ASSUME NEW h \in Handlers, Status(h) \/ StatusReset(h) \/ StatusList(h)
         PROVE  RefsInv'
    <3>1. \A g \in Handlers : at'[g].job = at[g].job
      BY <2>13 DEF Status, StatusReset, StatusList, TypeOK, JobHeld, At, Go, Nowhere
    <3> QED BY <2>13, <3>1 DEF RefsInv, Status, StatusReset, StatusList, map, job
  <2>14. CASE PurgeBegins \/ PurgeEnds
    BY <2>14 DEF RefsInv, PurgeBegins, PurgeEnds, job
  <2>15. ASSUME NEW j \in Jobs, PurgeVisits(j)
         PROVE  RefsInv'
    BY <2>15 DEF RefsInv, TypeOK, PurgeVisits, Destroy, Users, My
  <2>16. CASE UNCHANGED vars
    BY <2>16 DEF RefsInv, vars, map, job
  <2> QED
    BY <1>2, <2>1, <2>2, <2>3, <2>4, <2>5, <2>6, <2>7, <2>8, <2>9, <2>10, <2>11, <2>12,
       <2>13, <2>14, <2>15, <2>16, <2>10a DEF Next, PurgeStep, Request, HandlerStep
<1> QED BY <1>1, <1>2

(* Any number of requests and jobs: a job lives exactly as long as the map  *)
(* or a request refers to it, and no session outlives its job.              *)
THEOREM RefsExactHolds == Safety => []RefsExact
<1>1. TypeOK /\ RefsInv => RefsExact
  BY DEF TypeOK, RefsInv, RefsExact, Alive, My
<1> QED BY <1>1, TypeInductive, LockInductive, RefsInductive, PTL DEF Safety

-----------------------------------------------------------------------------
(* The idle time-out.                                                       *)

\* finishTransfer takes the time when it returns, and the clock is the same for
\* both, so that no job has been idle for longer than its client has been away.
FreshInv == \A j \in Jobs : idle[j] <= since[j] /\ (since[j] <= MaxIdle => j \in mJobs)

(* Every step keeps it; the purge thread drops only jobs that have been idle *)
(* for too long, whatever has happened since it began its round.            *)
LEMMA FreshInductive ==
    /\ Init => FreshInv
    /\ TypeOK /\ FreshInv /\ [Next]_vars => FreshInv'
<1>1. Init => FreshInv
  BY DEF Init, FreshInv
<1>2. ASSUME TypeOK, FreshInv, [Next]_vars
      PROVE  FreshInv'
  <2> USE <1>2
  <2>1. CASE Tick
    BY <2>1 DEF FreshInv, TypeOK, Ticks, Tick, Later, map
  <2>2. ASSUME NEW h \in Handlers, NEW j \in Jobs, CreateJob(h, j)
        PROVE  FreshInv'
    BY <2>2 DEF FreshInv, TypeOK, Ticks, CreateJob
  <2>3. ASSUME NEW h \in Handlers, Transfer(h)
        PROVE  FreshInv'
    BY <2>3 DEF FreshInv, TypeOK, Ticks, Transfer, map
  <2>4. ASSUME NEW h \in Handlers, TransferEnds(h)
        PROVE  FreshInv'
    <3>1. /\ mJobs' = mJobs
          /\ idle' = [idle EXCEPT ![My(h)] = 0]
          /\ since' = since \/ (My(h) \in mJobs /\ since' = [since EXCEPT ![My(h)] = 0])
      BY <2>4 DEF TransferEnds, map
    <3> QED BY <3>1 DEF FreshInv, TypeOK, Ticks
  <2>5. ASSUME NEW j \in Jobs, PurgeVisits(j)
        PROVE  FreshInv'
    <3>1. /\ UNCHANGED <<idle, since>>
          /\ mJobs' = mJobs \/ (idle[j] > MaxIdle /\ mJobs' = mJobs \ {j})
      BY <2>5 DEF PurgeVisits
    <3> QED BY <3>1 DEF FreshInv, TypeOK, Ticks
  <2>6. ASSUME UNCHANGED <<mJobs, idle, since>>
        PROVE  FreshInv'
    BY <2>6 DEF FreshInv
  <2>7. ASSUME NEW h \in Handlers,
               InitJob(h) \/ BeginTransfer(h) \/ Open(h) \/ Start(h) \/ Refused(h)
               \/ PageEnds(h) \/ UpdateStatus(h) \/ CancelCloses(h) \/ Status(h) \/ StatusReset(h) \/ StatusList(h)
        PROVE  UNCHANGED <<mJobs, idle, since>>
    BY <2>7 DEF InitJob, BeginTransfer, Open, Start, Refused, PageEnds, UpdateStatus,
                CancelCloses, Status, StatusReset, StatusList, map, job
  <2>8. ASSUME NEW h \in Handlers, NEW j \in Jobs, NextDocument(h, j) \/ CancelJob(h, j)
        PROVE  UNCHANGED <<mJobs, idle, since>>
    BY <2>8 DEF NextDocument, CancelJob, map, job
  <2>9. CASE PurgeBegins \/ PurgeEnds \/ UNCHANGED vars
    BY <2>6, <2>9 DEF PurgeBegins, PurgeEnds, vars, map, job
  <2> QED
    BY <1>2, <2>1, <2>2, <2>3, <2>4, <2>5, <2>6, <2>7, <2>8, <2>9
       DEF Next, PurgeStep, Request, HandlerStep
<1> QED BY <1>1, <1>2

(* For every time-out: a client that comes back in time finds its job.      *)
THEOREM FreshJobFoundHolds == Safety => []FreshJobFound
<1>1. FreshInv => FreshJobFound
  BY DEF FreshInv, FreshJobFound
<1> QED BY <1>1, TypeInductive, FreshInductive, PTL DEF Safety

-----------------------------------------------------------------------------
(* The weak reference to the session.                                       *)

\* As long as no opening has failed, the weak reference is to the one session
\* there is.
SessionInv ==
    ~openFailed => \A j \in Jobs : sess[j] # "dead" /\ (sess[j] = "open" => mpSession = j)

(* Every step keeps it: a session is opened only when there is no other open *)
(* one, and the weak reference follows it.                                   *)
LEMMA SessionInductive ==
    /\ Init => SessionInv
    /\ TypeOK /\ JobHeld /\ SessionInv /\ [Next]_vars => SessionInv'
<1>1. Init => SessionInv
  BY DEF Init, SessionInv
<1>2. ASSUME TypeOK, JobHeld, SessionInv, [Next]_vars
      PROVE  SessionInv'
  <2> USE <1>2
  <2>1. ASSUME UNCHANGED <<mpSession, openFailed>>,
               \A j \in Jobs : sess'[j] \in {sess[j], "null"}
        PROVE  SessionInv'
    BY <2>1 DEF SessionInv
  <2>2. ASSUME NEW h \in Handlers, Open(h)
        PROVE  SessionInv'
    <3>1. My(h) \in Jobs
      BY <2>2 DEF Open, TypeOK, JobHeld, At, My
    <3>2. CASE sess[My(h)] # "null"
      BY <2>1, <2>2, <3>2 DEF Open
    <3>3. CASE sess[My(h)] = "null"
      <4>1. PICK s \in {"dead"} \cup (IF DeviceFree THEN {"open"} ELSE {}) :
               /\ sess' = [sess EXCEPT ![My(h)] = s]
               /\ openFailed' = (s = "dead" \/ (openFailed /\ ~Unused))
        BY <2>2, <3>3 DEF Open
      <4>2. mpSession' = My(h)
        BY <2>2, <3>3 DEF Open
      <4>3. CASE s = "dead"
        BY <4>1, <4>3 DEF SessionInv
      <4>4. CASE s = "open" /\ DeviceFree
        <5>1. ASSUME ~openFailed'
              PROVE  \A j \in Jobs : sess[j] = "null"
          <6>1. ~openFailed \/ Unused
            BY <4>1, <4>4, <5>1
          <6> QED BY <4>4, <6>1 DEF SessionInv, Unused, DeviceFree, TypeOK
        <5> QED BY <3>1, <4>1, <4>2, <4>4, <5>1 DEF SessionInv, TypeOK
      <4> QED BY <4>1, <4>3, <4>4
    <3> QED BY <3>2, <3>3
  <2>3. ASSUME NEW h \in Handlers, Start(h) \/ CancelCloses(h)
        PROVE  SessionInv'
    BY <2>1, <2>3 DEF Start, CancelCloses, TypeOK
  <2>4. ASSUME NEW h \in Handlers, PageEnds(h) \/ UpdateStatus(h)
        PROVE  SessionInv'
    <3>1. My(h) \in Jobs
      BY <2>4 DEF PageEnds, UpdateStatus, TypeOK, JobHeld, At, My
    <3>2. \A r \in PageResult(My(h)) : r[3] \in {"null", sess[My(h)]}
      BY DEF PageResult
    <3>3. \A j \in Jobs : sess'[j] \in {sess[j], "null"}
      BY <2>4, <3>1, <3>2 DEF PageEnds, UpdateStatus, TypeOK
    <3> QED BY <2>1, <2>4, <3>3 DEF PageEnds, UpdateStatus
  <2>5. ASSUME NEW h \in Handlers, InitJob(h) \/ Refused(h) \/ TransferEnds(h)
        PROVE  SessionInv'
    <3>1. \A j \in Jobs : sess'[j] \in {sess[j], "null"}
      BY <2>5 DEF InitJob, Refused, TransferEnds, ReturnWith, Destroy, TypeOK
    <3> QED BY <2>1, <2>5, <3>1 DEF InitJob, Refused, TransferEnds
  <2>6. ASSUME NEW j \in Jobs, PurgeVisits(j)
        PROVE  SessionInv'
    <3>1. \A i \in Jobs : sess'[i] \in {sess[i], "null"}
      BY <2>6 DEF PurgeVisits, Destroy, TypeOK
    <3> QED BY <2>1, <2>6, <3>1 DEF PurgeVisits
  <2>7. ASSUME UNCHANGED <<mpSession, openFailed, sess>>
        PROVE  SessionInv'
    BY <2>7 DEF SessionInv
  <2>8. ASSUME NEW h \in Handlers, NEW j \in Jobs,
               CreateJob(h, j) \/ NextDocument(h, j) \/ CancelJob(h, j)
        PROVE  SessionInv'
    BY <2>7, <2>8 DEF CreateJob, NextDocument, CancelJob, job
  <2>9. ASSUME NEW h \in Handlers,
               BeginTransfer(h) \/ Transfer(h) \/ Status(h) \/ StatusReset(h) \/ StatusList(h)
        PROVE  SessionInv'
    BY <2>7, <2>9 DEF BeginTransfer, Transfer, Status, StatusReset, StatusList, job
  <2>10. CASE Tick \/ PurgeBegins \/ PurgeEnds \/ UNCHANGED vars
    BY <2>7, <2>10 DEF Tick, PurgeBegins, PurgeEnds, vars, job
  <2> QED
    BY <1>2, <2>2, <2>3, <2>4, <2>5, <2>6, <2>8, <2>9, <2>10
       DEF Next, PurgeStep, Request, HandlerStep
<1> QED BY <1>1, <1>2

(* Any number of jobs: the status says Processing exactly while some job    *)
(* has the device open, unless an opening has failed meanwhile.             *)
THEOREM StatusTruthfulHolds == Safety => []StatusTruthful
<1>1. TypeOK /\ SessionInv => StatusTruthful
  BY DEF TypeOK, SessionInv, StatusTruthful, IsOpen, DeviceFree
<1> QED BY <1>1, TypeInductive, SessionInductive, PTL DEF Safety
=============================================================================

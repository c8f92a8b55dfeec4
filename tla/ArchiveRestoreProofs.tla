------------------------ MODULE ArchiveRestoreProofs ------------------------
(***************************************************************************)
(* Theorems about ArchiveRestore for any number of files, deliveries,      *)
(* overlapping checks, callers, faults and crashes: types, the single      *)
(* executor, the single mail and the implementation of RequestLifecycle;   *)
(* and, for checks that begin after the plan and do not crash, that no     *)
(* file waits for a job nobody polls.                                      *)
(***************************************************************************)
EXTENDS ArchiveRestore, RestoreStoreProofs

(***************************************************************************)
(* The inductive invariant.  Nothing of a request exists before its claim, *)
(* so whoever can end it finds it claimed; and a mail records that the     *)
(* status is final, so nobody can end the request again.                   *)
(***************************************************************************)

\* The request was claimed, or is over.
Begun == req.status \notin {"None", "Pending"}

\* A delivery past its claim, not yet at its catch.
Executing(d) == pc[d] \notin {"idle", "abort", "done", "crashed"}

\* Nothing runs before the client's calls.
ClientFirst ==
    /\ client = "new" <=> req.status = "None"
    /\ client = "new" => \A c \in Callers : pc[c] = "idle"
    /\ client # "sent" => \A d \in Deliveries : pc[d] = "idle"

\* No delivery plans, no job exists and no check works before the claim.
ClaimFirst ==
    ~Begun =>
       /\ \A d \in Deliveries : ~Executing(d)
       /\ \A f \in Files : job[f] = "Absent"
       /\ \A k \in Checks : pc[k] = "idle"
       /\ \A t \in JobThreads : pc[t] = "idle"

\* However often the message is delivered, one delivery plans and restores.
SingleExecution ==
    \A d, e \in Deliveries : Executing(d) /\ Executing(e) => d = e

\* Deliveries and hydrated files finish side by side, and one of them made the
\* transition.
OneMailer ==
    \A t, u \in Finishers : pc[t] = "finMail" /\ pc[u] = "finMail" => t = u

\* The finisher that made the transition is the one that mails, once.
MailFollowsEnd ==
    /\ \A t \in Finishers : pc[t] = "finMail" =>
          /\ mails = <<>>
          /\ IsTerminal(req.status)
          /\ req.status \in {snap[t].status, "Failed"}
    /\ mails # <<>> =>
          /\ Len(mails) = 1
          /\ IsTerminal(req.status)
          /\ req.status \in {mails[1], "Failed"}

\* UpdateFileRequestStatus computes an outcome, never Cancelled.
SnapIsOutcome ==
    \A t \in Finishers : snap[t].status \in {"Completed", "PartialSuccess", "Failed"}

IInv ==
    /\ TypeOK
    /\ ClientFirst
    /\ ClaimFirst
    /\ SingleExecution
    /\ OneMailer
    /\ MailFollowsEnd
    /\ SnapIsOutcome

-----------------------------------------------------------------------------
(* Types.                                                                  *)

LEMMA ArchiveThreads ==
    /\ \A d \in Deliveries :
          /\ d \in Threads /\ d \in Loops /\ d \in Finishers
          /\ d \notin Callers /\ d \notin Checks /\ d \notin FileThreads /\ d \notin JobThreads
    /\ \A d \in Deliveries, f \in Files :
          /\ <<d, f>> \in FileThreads /\ <<d, f>> \in Threads
          /\ <<d, f>> \notin Finishers /\ <<d, f>> \notin JobThreads
          /\ <<d, f>> \notin Callers /\ <<d, f>> \notin Loops
    /\ \A k \in Checks :
          /\ k \in Threads /\ k \in Loops
          /\ k \notin Callers /\ k \notin Deliveries /\ k \notin FileThreads
          /\ k \notin JobThreads /\ k \notin Finishers
    /\ \A t \in JobThreads :
          /\ t \in FileThreads /\ t \in Threads /\ t \in Finishers /\ t[2] \in Files
          /\ t \notin Callers /\ t \notin Loops /\ t \notin Deliveries /\ t \notin Checks
    /\ \A c \in Callers :
          /\ c \in Threads
          /\ c \notin Loops /\ c \notin FileThreads /\ c \notin Finishers /\ c \notin JobThreads
    /\ Finishers = Deliveries \cup JobThreads
    /\ \A k \in Checks, f \in Files : <<k, f>> \in JobThreads
BY ThreadAssumption DEF Loops, Finishers, FileThreads, Threads, JobThreads

Places == Labels \cup JobLabels

LEMMA PlaceNames ==
    /\ Labels \subseteq Places
    /\ {"planRow", "restored", "tier", "wait", "progress", "orphan", "already", "failJob",
        "failRead", "failRow", "failCount", "notRestored"} \subseteq Places
BY DEF Places, JobLabels, Handled, HandledByToken

LEMMA StoreStepType ==
    ASSUME TypeOK, StoreTypeOK(Places)', UNCHANGED pollVars
    PROVE  TypeOK'
BY DEF TypeOK, pollVars, Places

LEMMA PlanFileType ==
    ASSUME TypeOK, NEW d \in Deliveries, PlanFile(d)
    PROVE  TypeOK'
<1>1. next' \in [Deliveries -> Nat \ {0}]
  BY DEF TypeOK, StoreTypeOK, PlanFile
<1>2. file' \in [Files -> FileStatuses]
  BY DEF TypeOK, StoreTypeOK, PlanFile, FileStatuses
<1>3. job' \in [Files -> JobStatuses]
  BY DEF TypeOK, StoreTypeOK, PlanFile, JobStatuses
<1>4. pc' \in [Threads -> Places]
  <2>1. pc' = pc \/ Goto(d, "planRow")
    BY DEF PlanFile
  <2> QED
    BY <2>1, GotoType, ArchiveThreads, PlaceNames DEF TypeOK, StoreTypeOK, Places
<1>5. hydrate' \in [Files -> BOOLEAN]
  BY DEF TypeOK, PlanFile
<1>6. UNCHANGED <<req, mails, reported, rows, blob, client, faults, crashes, sent, snap,
                  overdue, caught>>
  BY DEF PlanFile, requestVars, worldVars
<1> QED
  BY <1>1, <1>2, <1>3, <1>4, <1>5, <1>6 DEF TypeOK, StoreTypeOK, Places

LEMMA PlanRowType ==
    ASSUME TypeOK, NEW d \in Deliveries, PlanArchivedRow(d)
    PROVE  TypeOK'
<1>1. next' \in [Deliveries -> Nat \ {0}]
  BY DEF TypeOK, StoreTypeOK, PlanArchivedRow
<1>2. file' \in [Files -> FileStatuses]
  BY DEF TypeOK, StoreTypeOK, PlanArchivedRow, FileStatuses
<1>3. pc' \in [Threads -> Places]
  BY GotoType, ArchiveThreads, PlaceNames, LabelNames
     DEF TypeOK, StoreTypeOK, Places, PlanArchivedRow
<1>4. hydrate' \in [Files -> BOOLEAN]
  BY DEF TypeOK, PlanArchivedRow
<1>5. UNCHANGED <<req, mails, reported, rows, job, blob, client, faults, crashes, sent, snap,
                  overdue, caught>>
  BY DEF PlanArchivedRow, requestVars, dataVars, worldVars
<1> QED
  BY <1>1, <1>2, <1>3, <1>4, <1>5 DEF TypeOK, StoreTypeOK, Places

LEMMA DeliverType ==
    ASSUME TypeOK, NEW d \in Deliveries, Deliver(d)
    PROVE  TypeOK'
<1> USE ArchiveThreads, LabelNames, PlaceNames
<1>0. StoreTypeOK(Places)
  BY DEF TypeOK, Places
<1>1. CASE PlanFile(d) \/ PlanArchivedRow(d)
  BY <1>1, PlanFileType, PlanRowType
<1>2. CASE (Claim(d) \/ ResetStuck(d) \/ UpdateTotal(d) \/ AbortRequest(d)) /\ UNCHANGED pollVars
  BY <1>0, <1>2, DeliveryType, StoreStepType
<1>3. CASE LoadReadable(d) /\ UNCHANGED pollVars
  <2>1. StoreTypeOK(Places)'
    BY <1>0, <1>3, LoopType DEF LoadReadable
  <2> QED
    BY <1>3, <2>1, StoreStepType
<1>4. CASE EndLoop(d) /\ UNCHANGED pollVars
  <2> DEFINE after == IF BodyThrew(d) THEN "abort" ELSE "finRead"
  <2>1. after \in Places
    OBVIOUS
  <2>2. StoreTypeOK(Places)'
    BY <1>0, <1>4, <2>1, LoopType DEF EndLoop
  <2> QED
    BY <1>4, <2>2, StoreStepType
<1>5. CASE Finalize(d) /\ UNCHANGED pollVars
  <2>1. StoreTypeOK(Places)'
    BY <1>0, <1>5, FinalizeType
  <2> QED
    BY <1>5, <2>1, StoreStepType
<1> QED
  BY <1>1, <1>2, <1>3, <1>4, <1>5 DEF Deliver

LEMMA HydratedType ==
    ASSUME TypeOK, StoreTypeOK(Places)', NEW t, Hydrated(t), UNCHANGED <<overdue, caught>>
    PROVE  TypeOK'
BY DEF TypeOK, Hydrated, Places

LEMMA RestoreFileType ==
    ASSUME TypeOK, NEW d \in Deliveries, NEW f \in Files, RestoreFile(d, f)
    PROVE  TypeOK'
<1> DEFINE t == <<d, f>>
<1> USE ArchiveThreads, LabelNames, PlaceNames
<1>0. StoreTypeOK(Places)
  BY DEF TypeOK, Places
<1>1. CASE (StartFile(d, f) \/ CheckCancelled(d, f)) /\ UNCHANGED pollVars
  <2>1. StoreTypeOK(Places)'
    BY <1>0, <1>1, StartType DEF StartFile
  <2> QED
    BY <1>1, <2>1, StoreStepType
<1>2. CASE (MarkProcessing(t) \/ CompleteFile(t) \/ RecordFailure(t))
           /\ Hydrated(t) /\ UNCHANGED <<overdue, caught>>
  <2>1. StoreTypeOK(Places)'
    BY <1>0, <1>2, BodyType
  <2> QED
    BY <1>2, <2>1, HydratedType
<1>3. CASE (\/ OpenBlob(t, "notFound") \/ PurgeStale(t) \/ InsertBatch(t) \/ CountFile(t, "done")
            \/ CountFailed(t, "countFailed", "done")) /\ UNCHANGED pollVars
  <2>1. StoreTypeOK(Places)'
    BY <1>0, <1>3, BodyType
  <2> QED
    BY <1>3, <2>1, StoreStepType
<1> QED
  BY <1>1, <1>2, <1>3 DEF RestoreFile

LEMMA CheckType ==
    ASSUME TypeOK, NEW k \in Checks, Check(k), UNCHANGED pollVars
    PROVE  TypeOK'
<1>1. StoreTypeOK(Places)'
  BY LoopType, ArchiveThreads, LabelNames, PlaceNames DEF Check, LoadJobs, TypeOK, Places
<1> QED
  BY <1>1, StoreStepType

LEMMA WriteJobType ==
    ASSUME StoreTypeOK(Places), NEW t \in JobThreads, NEW at, NEW status \in JobStatuses,
           NEW after \in Places, WriteJob(t, at, status, after)
    PROVE  StoreTypeOK(Places)'
<1>1. job' \in [Files -> JobStatuses]
  BY DEF StoreTypeOK, WriteJob
<1>2. pc' \in [Threads -> Places]
  BY GotoType, ArchiveThreads DEF StoreTypeOK, WriteJob
<1> QED
  BY <1>1, <1>2 DEF StoreTypeOK, WriteJob, requestVars, fileVars, worldVars, localVars

LEMMA ReadType ==
    ASSUME StoreTypeOK(Places), NEW t \in JobThreads,
           ReadTier(t) \/ ReadProgress(t) \/ ReadFailedRow(t)
    PROVE  StoreTypeOK(Places)'
<1> USE LabelNames, PlaceNames
<1>0. t[2] \in Files
  BY ArchiveThreads
<1>1. \E label \in Places : Goto(t, label)
  <2>1. CASE ReadTier(t)
    <3>1. blob[t[2]] \in {"missing", "readable", "archived"}
      BY <1>0 DEF StoreTypeOK, Tiers
    <3>2. Goto(t, "progress") \/ Goto(t, "wait") \/ Goto(t, "failJob")
      BY <2>1, <3>1 DEF ReadTier
    <3> QED
      BY <3>2
  <2>2. CASE ReadProgress(t)
    <3>1. Goto(t, "orphan") \/ Goto(t, "already") \/ Goto(t, "mark")
      BY <2>2 DEF ReadProgress
    <3> QED
      BY <3>1
  <2>3. CASE ReadFailedRow(t)
    <3>1. Goto(t, "finRead") \/ Goto(t, "failRow")
      BY <2>3 DEF ReadFailedRow
    <3> QED
      BY <3>1
  <2> QED
    BY <2>1, <2>2, <2>3
<1>2. pc' \in [Threads -> Places]
  BY <1>1, GotoType, ArchiveThreads DEF StoreTypeOK
<1>3. UNCHANGED <<requestVars, fileVars, dataVars, worldVars, localVars>>
  BY DEF ReadTier, ReadProgress, ReadFailedRow
<1> QED
  BY <1>2, <1>3 DEF StoreTypeOK, requestVars, fileVars, dataVars, worldVars, localVars

LEMMA ProcessJobType ==
    ASSUME TypeOK, NEW k \in Checks, NEW f \in Files, ProcessJob(k, f)
    PROVE  TypeOK'
<1> DEFINE t == <<k, f>>
<1> USE ArchiveThreads, LabelNames, PlaceNames
<1>0. StoreTypeOK(Places)
  BY DEF TypeOK, Places
<1>1. CASE StartJob(k, f)
  <2>1. StoreTypeOK(Places)'
    BY <1>0, <1>1, StartType DEF StartJob
  <2> QED
    BY <1>1, <2>1 DEF StartJob, TypeOK, Places
<1>2. CASE FailRow(t)
  <2>1. file' \in [Files -> FileStatuses] /\ reported' \in [Files -> Nat]
    BY <1>0, <1>2, WriteFileType DEF FailRow, StoreTypeOK, FileStatuses, TerminalFileStatuses
  <2>2. pc' \in [Threads -> Places]
    BY <1>0, <1>2, GotoType DEF FailRow, StoreTypeOK
  <2>3. StoreTypeOK(Places)'
    BY <1>0, <1>2, <2>1, <2>2 DEF FailRow, StoreTypeOK, requestVars, dataVars, worldVars, localVars
  <2> QED
    BY <1>2, <2>3 DEF FailRow, TypeOK, Places
<1>3. CASE (MarkProcessing(t) \/ CompleteFile(t) \/ RecordFailure(t))
           /\ Hydrated(t) /\ UNCHANGED <<overdue, caught>>
  <2>1. StoreTypeOK(Places)'
    BY <1>0, <1>3, BodyType
  <2> QED
    BY <1>3, <2>1, HydratedType
<1>4. CASE (ReadTier(t) \/ ReadProgress(t) \/ ReadFailedRow(t)) /\ UNCHANGED pollVars
  BY <1>0, <1>4, ReadType, StoreStepType
<1>5. CASE (\/ WriteJob(t, "wait", "RehydrationRequested", "done")
            \/ WriteJob(t, "orphan", "Failed", "finRead")
            \/ WriteJob(t, "already", "Ready", "finRead")
            \/ WriteJob(t, "restored", "Ready", "finRead")
            \/ WriteJob(t, "notRestored", "Failed", "finRead")
            \/ WriteJob(t, "failJob", "Failed", "failRead")) /\ UNCHANGED pollVars
  <2>1. {"RehydrationRequested", "Ready", "Failed"} \subseteq JobStatuses
    BY DEF JobStatuses
  <2>2. StoreTypeOK(Places)'
    BY <1>0, <1>5, <2>1, WriteJobType
  <2> QED
    BY <1>5, <2>2, StoreStepType
<1>6. CASE (\/ OpenBlob(t, "failing") \/ PurgeStale(t) \/ InsertBatch(t) \/ CountFile(t, "restored")
            \/ CountFailed(t, "countFailed", "notRestored")
            \/ CountFailed(t, "failCount", "finRead")) /\ UNCHANGED pollVars
  <2>1. StoreTypeOK(Places)'
    BY <1>0, <1>6, BodyType
  <2> QED
    BY <1>6, <2>1, StoreStepType
<1>7. CASE Finalize(t) /\ UNCHANGED pollVars
  BY <1>0, <1>7, FinalizeType, StoreStepType
<1> QED
  BY <1>1, <1>2, <1>3, <1>4, <1>5, <1>6, <1>7 DEF ProcessJob

LEMMA JobThrowsType ==
    ASSUME TypeOK, NEW k \in Checks, NEW f \in Files, JobThrows(k, f)
    PROVE  TypeOK'
<1> DEFINE t == <<k, f>>
<1>1. StoreTypeOK(Places)'
  BY ThrowType, ArchiveThreads, LabelNames, PlaceNames DEF JobThrows, LoseEmail, TypeOK, Places
<1>2. UNCHANGED <<hydrate, overdue>> /\ caught' \in [JobThreads -> BOOLEAN]
  BY DEF JobThrows, pollVars, TypeOK
<1> QED
  BY <1>1, <1>2 DEF TypeOK, Places

LEMMA FailureType ==
    ASSUME TypeOK, UNCHANGED pollVars, NEW d \in Deliveries,
           DeliveryThrows(d) \/ \E f \in Files : FileThrows(d, f)
    PROVE  TypeOK'
<1> USE ArchiveThreads, LabelNames, PlaceNames
<1>0. StoreTypeOK(Places)
  BY DEF TypeOK, Places
<1>1. StoreTypeOK(Places)'
  BY <1>0, ThrowType DEF DeliveryThrows, FileThrows, LoseEmail
<1> QED
  BY <1>1, StoreStepType

LEMMA TypeStep == TypeOK /\ [Next]_vars => TypeOK'
<1> SUFFICES ASSUME TypeOK, [Next]_vars PROVE TypeOK'
  OBVIOUS
<1> USE ArchiveThreads, ThreadKinds, LabelNames, PlaceNames
<1>0. StoreTypeOK(Places)
  BY DEF TypeOK, Places
<1>1. CASE (CreateRequest \/ SendMessage) /\ UNCHANGED pollVars
  BY <1>0, <1>1, ClientType, StoreStepType
<1>2. ASSUME NEW d \in Deliveries, Deliver(d) PROVE TypeOK'
  BY <1>2, DeliverType
<1>3. ASSUME NEW d \in Deliveries, DeliveryThrows(d) \/ \E f \in Files : FileThrows(d, f),
             UNCHANGED pollVars
      PROVE TypeOK'
  BY <1>3, FailureType
<1>4. ASSUME NEW d \in Deliveries, NEW f \in Files, RestoreFile(d, f)
      PROVE TypeOK'
  BY <1>4, RestoreFileType
<1>5. ASSUME NEW k \in Checks, Check(k), UNCHANGED pollVars PROVE TypeOK'
  BY <1>5, CheckType
<1>6. ASSUME NEW k \in Checks, NEW f \in Files, ProcessJob(k, f) \/ JobThrows(k, f)
      PROVE TypeOK'
  BY <1>6, ProcessJobType, JobThrowsType
<1>7. ASSUME NEW c \in Callers, CancelRestore(c) \/ CancelThrows(c), UNCHANGED pollVars
      PROVE TypeOK'
  <2>1. StoreTypeOK(Places)'
    BY <1>0, <1>7, CancelType, ThrowType DEF CancelThrows
  <2> QED
    BY <1>7, <2>1, StoreStepType
<1>8. ASSUME NEW p \in Loops \cup Callers, Crash(p), UNCHANGED pollVars PROVE TypeOK'
  BY <1>0, <1>8, CrashType, StoreStepType
<1>9. ASSUME NEW f \in Files, BlobMoves(f) \/ TimePasses(f) PROVE TypeOK'
  <2>1. CASE BlobMoves(f)
    BY <2>1 DEF TypeOK, StoreTypeOK, BlobMoves, Tiers, requestVars, fileVars, dataVars, localVars,
       pollVars
  <2>2. CASE TimePasses(f)
    BY <2>2 DEF TypeOK, StoreTypeOK, TimePasses, storeVars, requestVars, fileVars, dataVars,
       worldVars, localVars
  <2> QED
    BY <1>9, <2>1, <2>2
<1>10. CASE UNCHANGED vars
  BY <1>10 DEF vars, storeVars, pollVars, requestVars, fileVars, dataVars, worldVars, localVars,
     TypeOK, StoreTypeOK
<1> QED
  BY <1>1, <1>2, <1>3, <1>4, <1>5, <1>6, <1>7, <1>8, <1>9, <1>10 DEF Next, Terminating

\* Every document keeps its fields and every thread is at a place of the code.
THEOREM TypeCorrect == Spec => []TypeOK
<1>1. Init => TypeOK
  BY InitType, PlaceNames DEF Init, TypeOK, Places
<1> QED
  BY <1>1, TypeStep, PTL DEF Spec

-----------------------------------------------------------------------------
(* Safety.  Most steps are quiet: they leave the status, the mails and the *)
(* client alone, start nothing before the claim and bring no finisher to   *)
(* its mail.                                                               *)

StillIdle ==
    /\ \A f \in Files : job'[f] = job[f]
    /\ \A k \in Checks : pc'[k] = pc[k]
    /\ \A t \in JobThreads : pc'[t] = pc[t]

Quiet ==
    /\ req'.status = req.status
    /\ UNCHANGED <<mails, client>>
    /\ \A d \in Deliveries :
          /\ Executing(d)' => Executing(d)
          /\ client # "sent" => pc'[d] = pc[d]
    /\ \A t \in Finishers : pc'[t] = "finMail" => pc[t] = "finMail" /\ snap'[t] = snap[t]
    /\ client = "new" => \A c \in Callers : pc'[c] = pc[c]
    /\ ~Begun => StillIdle

LEMMA QuietKeeps ==
    ASSUME IInv, Quiet, SnapIsOutcome', TypeOK'
    PROVE  IInv'
<1>1. ClientFirst'
  BY DEF IInv, ClientFirst, Quiet
<1>2. ClaimFirst'
  BY DEF IInv, ClaimFirst, Quiet, StillIdle, Begun
<1>3. SingleExecution' /\ OneMailer'
  BY DEF IInv, SingleExecution, OneMailer, Quiet
<1>4. MailFollowsEnd'
  BY DEF IInv, MailFollowsEnd, Quiet, IsTerminal
<1> QED
  BY <1>1, <1>2, <1>3, <1>4 DEF IInv

LEMMA GotoPlaces ==
    ASSUME TypeOK, NEW t \in Threads, NEW label, Goto(t, label)
    PROVE  \A u \in Threads : pc'[u] = IF u = t THEN label ELSE pc[u]
BY DEF TypeOK, StoreTypeOK, Goto

\* A delivery moves on from a place where it was executing, anywhere but to
\* its mail; rows, jobs and counters may change.
LEMMA DeliveryQuiet ==
    ASSUME IInv, NEW d \in Deliveries, NEW label, Goto(d, label),
           Executing(d), label # "finMail",
           req'.status = req.status, UNCHANGED <<mails, client>>,
           \A t \in Finishers : t # d => snap'[t] = snap[t]
    PROVE  Quiet
<1>1. client = "sent" /\ Begun
  BY DEF IInv, ClientFirst, ClaimFirst, Executing
<1>2. \A u \in Threads : pc'[u] = IF u = d THEN label ELSE pc[u]
  BY ArchiveThreads, GotoPlaces DEF IInv
<1>3. \A e \in Deliveries : Executing(e)' => Executing(e)
  BY <1>2, ArchiveThreads DEF Executing
<1>4. \A t \in Finishers : pc'[t] = "finMail" => pc[t] = "finMail" /\ snap'[t] = snap[t]
  BY <1>2, ArchiveThreads, ThreadKinds
<1> QED
  BY <1>1, <1>3, <1>4 DEF Quiet

\* So does the body of a delivery's loop, wherever it goes.
LEMMA BodyQuiet ==
    ASSUME IInv, NEW d \in Deliveries, NEW f \in Files, NEW label, Goto(<<d, f>>, label),
           req'.status = req.status, UNCHANGED <<mails, client, snap, job>>
    PROVE  Quiet
<1>1. \A u \in Threads : u # <<d, f>> => pc'[u] = pc[u]
  BY ArchiveThreads, GotoPlaces DEF IInv
<1>2. \A u \in Loops \cup Callers \cup Finishers \cup JobThreads : pc'[u] = pc[u]
  BY <1>1, ArchiveThreads, ThreadKinds
<1>3. \A e \in Deliveries : Executing(e)' => Executing(e)
  BY <1>2, ArchiveThreads DEF Executing
<1> QED
  BY <1>2, <1>3, ArchiveThreads DEF Quiet, StillIdle

\* And the iteration of a check, which works only after the claim.
LEMMA JobQuiet ==
    ASSUME IInv, NEW t \in JobThreads, NEW label, Goto(t, label),
           pc[t] # "idle", label # "finMail",
           req'.status = req.status, UNCHANGED <<mails, client>>,
           \A u \in Finishers : u # t => snap'[u] = snap[u]
    PROVE  Quiet
<1>1. Begun
  BY DEF IInv, ClaimFirst
<1>2. \A u \in Threads : pc'[u] = IF u = t THEN label ELSE pc[u]
  BY ArchiveThreads, GotoPlaces DEF IInv
<1>3. \A e \in Deliveries : pc'[e] = pc[e]
  BY <1>2, ArchiveThreads
<1>4. \A e \in Deliveries : Executing(e)' => Executing(e)
  BY <1>3 DEF Executing
<1>5. \A u \in Finishers : pc'[u] = "finMail" => pc[u] = "finMail" /\ snap'[u] = snap[u]
  BY <1>2, ArchiveThreads, ThreadKinds
<1>6. \A c \in Callers : pc'[c] = pc[c]
  BY <1>2, ArchiveThreads
<1> QED
  BY <1>1, <1>3, <1>4, <1>5, <1>6 DEF Quiet

\* And a call of the cancel endpoint, once there is a request.
LEMMA CallerQuiet ==
    ASSUME IInv, NEW c \in Callers, NEW label, Goto(c, label), client # "new",
           req'.status = req.status, UNCHANGED <<mails, client, snap>>,
           ~Begun => \A f \in Files : job'[f] = job[f]
    PROVE  Quiet
<1>1. \A u \in Threads : u # c => pc'[u] = pc[u]
  BY ArchiveThreads, GotoPlaces DEF IInv
<1>2. \A u \in Loops \cup Finishers \cup JobThreads : pc'[u] = pc[u]
  BY <1>1, ArchiveThreads, ThreadKinds
<1>3. \A e \in Deliveries : Executing(e)' => Executing(e)
  BY <1>2, ArchiveThreads DEF Executing
<1> QED
  BY <1>2, <1>3, ArchiveThreads DEF Quiet, StillIdle

\* A step that moves no thread.
LEMMA StillQuiet ==
    ASSUME req'.status = req.status, UNCHANGED <<mails, client, snap, job, pc>>
    PROVE  Quiet
BY DEF Quiet, StillIdle, Executing

\* The steps of a delivery that decide nothing.
LEMMA DeliverQuiet ==
    ASSUME IInv, NEW d \in Deliveries,
           \/ ResetStuck(d) \/ PlanFile(d) \/ PlanArchivedRow(d) \/ UpdateTotal(d)
           \/ LoadReadable(d) \/ EndLoop(d)
           \/ ReadRequest(d) \/ ReadFiles(d) \/ WriteCounters(d)
    PROVE  Quiet
<1> USE DEF requestVars, fileVars, dataVars, worldVars, localVars
<1>0. req \in [status : RequestStatuses, total : Nat, processed : Nat, failed : Nat]
  BY DEF IInv, TypeOK, StoreTypeOK
<1>1. CASE ResetStuck(d) \/ PlanArchivedRow(d) \/ ReadRequest(d)
  <2>1. \E label \in {"plan", "done", "finFiles"} : Goto(d, label)
    BY <1>1 DEF ResetStuck, PlanArchivedRow, ReadRequest
  <2>2. Executing(d) /\ UNCHANGED <<req, mails, client, snap>>
    BY <1>1 DEF ResetStuck, PlanArchivedRow, ReadRequest, Executing
  <2> QED
    BY <2>1, <2>2, DeliveryQuiet
<1>2. CASE PlanFile(d)
  <2>1. Executing(d) /\ UNCHANGED <<req, mails, client, snap>>
    BY <1>2 DEF PlanFile, Executing
  <2>2. CASE Goto(d, "planRow")
    BY <2>1, <2>2, DeliveryQuiet
  <2>3. CASE pc' = pc /\ job' = job
    BY <2>1, <2>3, StillQuiet
  <2> QED
    BY <1>2, <2>2, <2>3 DEF PlanFile
<1>3. CASE UpdateTotal(d) \/ WriteCounters(d)
  <2>1. req'.status = req.status
    BY <1>0, <1>3 DEF UpdateTotal, WriteCounters
  <2>2. \E label \in {"load", "finTry"} : Goto(d, label)
    BY <1>3 DEF UpdateTotal, WriteCounters
  <2>3. Executing(d) /\ UNCHANGED <<mails, client, snap>>
    BY <1>3 DEF UpdateTotal, WriteCounters, Executing
  <2> QED
    BY <2>1, <2>2, <2>3, DeliveryQuiet
<1>4. CASE LoadReadable(d)
  <2>0. PICK work : LoadWork(d, work)
    BY <1>4 DEF LoadReadable
  <2>1. \A u \in Threads : u # d /\ u \notin {d} \X Files => pc'[u] = pc[u]
    BY <2>0 DEF LoadWork
  <2>2. \A u \in Deliveries \cup Callers \cup Finishers \cup Checks \cup JobThreads :
           u # d => pc'[u] = pc[u]
    <3>1. \A u \in {d} \X Files : u \notin Deliveries /\ u \notin Callers /\ u \notin Finishers
                                  /\ u \notin Checks /\ u \notin JobThreads
      BY ArchiveThreads
    <3> QED
      BY <2>1, <3>1, ArchiveThreads
  <2>3. pc'[d] = "loop" /\ pc[d] = "load"
    BY <1>4, <2>0, ArchiveThreads DEF LoadReadable, LoadWork
  <2>4. client = "sent" /\ Begun
    BY <2>3 DEF IInv, ClientFirst, ClaimFirst, Executing
  <2>5. \A e \in Deliveries : Executing(e)' => Executing(e)
    BY <2>2, <2>3 DEF Executing
  <2>6. UNCHANGED <<req, mails, client, snap>>
    BY <2>0 DEF LoadWork
  <2>7. \A t \in Finishers : pc'[t] = "finMail" => pc[t] = "finMail"
    BY <2>2, <2>3
  <2> QED
    BY <2>4, <2>5, <2>6, <2>7 DEF Quiet
<1>5. CASE EndLoop(d)
  <2>1. \E label \in {"abort", "finRead"} : Goto(d, label)
    BY <1>5 DEF EndLoop, JoinLoop
  <2>2. Executing(d) /\ UNCHANGED <<req, mails, client, snap>>
    BY <1>5 DEF EndLoop, JoinLoop, LoopEnded, Executing
  <2> QED
    BY <2>1, <2>2, DeliveryQuiet
<1>6. CASE ReadFiles(d)
  <2>1. \E label \in {"finCount", "done"} : Goto(d, label)
    BY <1>6 DEF ReadFiles
  <2>2. \A t \in Finishers : t # d => snap'[t] = snap[t]
    BY <1>6 DEF ReadFiles, IInv, TypeOK, StoreTypeOK
  <2>3. Executing(d) /\ UNCHANGED <<req, mails, client>>
    BY <1>6 DEF ReadFiles, Executing
  <2> QED
    BY <2>1, <2>2, <2>3, DeliveryQuiet
<1> QED
  BY <1>1, <1>2, <1>3, <1>4, <1>5, <1>6

LEMMA CountsStatus ==
    ASSUME IInv, NEW t, NEW at, NEW after, CountFile(t, after) \/ CountFailed(t, at, after)
    PROVE  req'.status = req.status
BY DEF CountFile, CountFailed, IInv, TypeOK, StoreTypeOK

LEMMA RestoreFileQuiet ==
    ASSUME IInv, NEW d \in Deliveries, NEW f \in Files,
           RestoreFile(d, f) \/ FileThrows(d, f)
    PROVE  Quiet
<1> DEFINE t == <<d, f>>
<1>0. RestoreFile(d, f) =>
         \/ StartFile(d, f) \/ CheckCancelled(d, f) \/ OpenBlob(t, "notFound")
         \/ MarkProcessing(t) \/ CompleteFile(t) \/ RecordFailure(t)
         \/ PurgeStale(t) \/ InsertBatch(t)
         \/ CountFile(t, "done") \/ CountFailed(t, "countFailed", "done")
  BY Zenon DEF RestoreFile
<1> USE DEF requestVars, fileVars, dataVars, worldVars, localVars
<1>1. CASE StartFile(d, f) \/ OpenBlob(t, "notFound")
  BY <1>1, BodyQuiet DEF StartFile, StartBody, OpenBlob
<1>2. CASE CheckCancelled(d, f)
  <2>1. \E label \in {"done", "sawCancel", "mark"} : Goto(t, label)
    BY <1>2 DEF CheckCancelled
  <2> QED
    BY <1>2, <2>1, BodyQuiet DEF CheckCancelled
<1>3. CASE MarkProcessing(t) \/ PurgeStale(t) \/ InsertBatch(t) \/ CompleteFile(t) \/ RecordFailure(t)
  BY <1>3, BodyQuiet DEF MarkProcessing, PurgeStale, InsertBatch, CompleteFile, RecordFailure
<1>4. CASE CountFile(t, "done") \/ CountFailed(t, "countFailed", "done")
  <2>1. req'.status = req.status
    BY <1>4, CountsStatus
  <2> QED
    BY <1>4, <2>1, BodyQuiet DEF CountFile, CountFailed
<1>5. CASE FileThrows(d, f)
  BY <1>5, BodyQuiet DEF FileThrows, Throw
<1> QED
  BY <1>0, <1>1, <1>2, <1>3, <1>4, <1>5

LEMMA FailureQuiet ==
    ASSUME IInv, NEW d \in Deliveries, DeliveryThrows(d)
    PROVE  Quiet
<1> USE DEF requestVars, fileVars, dataVars, worldVars, localVars
<1>1. PICK label \in {"abort", "done"} : Goto(d, label)
  BY DEF DeliveryThrows, LoseEmail, Throw
<1>2. client = "sent"
  BY DEF DeliveryThrows, LoseEmail, IInv, ClientFirst, Finalizing
<1>3. \A u \in Threads : pc'[u] = IF u = d THEN label ELSE pc[u]
  BY <1>1, ArchiveThreads, GotoPlaces DEF IInv
<1>4. UNCHANGED <<req, mails, client, snap, job>>
  BY DEF DeliveryThrows, LoseEmail, Throw
<1>5. \A e \in Deliveries : Executing(e)' => Executing(e)
  BY <1>3, ArchiveThreads DEF Executing
<1>6. \A t \in Finishers : pc'[t] = "finMail" => pc[t] = "finMail"
  BY <1>3, ThreadKinds
<1>7. StillIdle
  BY <1>3, <1>4, ArchiveThreads DEF StillIdle
<1> QED
  BY <1>2, <1>4, <1>5, <1>6, <1>7 DEF Quiet

\* A check loads jobs, of a request that was claimed, or joins its loop.
LEMMA CheckQuiet ==
    ASSUME IInv, NEW k \in Checks, Check(k)
    PROVE  Quiet
<1> USE DEF requestVars, fileVars, dataVars, worldVars, localVars
<1>1. UNCHANGED <<req, mails, client, snap>>
  BY DEF Check, LoadJobs, LoadWork, JoinLoop
<1>2. Begun
  <2>1. CASE LoadJobs(k)
    BY <2>1 DEF LoadJobs, IInv, ClaimFirst
  <2>2. CASE JoinLoop(k, "idle")
    BY <2>2 DEF JoinLoop, LoopEnded, IInv, ClaimFirst
  <2> QED
    BY <2>1, <2>2 DEF Check
<1>3. \A u \in Deliveries \cup Callers : pc'[u] = pc[u]
  <2>1. \A u \in {k} \X Files : u \in JobThreads
    BY ArchiveThreads
  <2>2. \A u \in Deliveries \cup Callers : u \in Threads /\ u # k /\ u \notin {k} \X Files
    BY <2>1, ArchiveThreads
  <2>3. CASE LoadJobs(k)
    BY <2>2, <2>3 DEF LoadJobs, LoadWork
  <2>4. CASE JoinLoop(k, "idle")
    BY <2>2, <2>4, ArchiveThreads, GotoPlaces DEF JoinLoop, IInv
  <2> QED
    BY <2>3, <2>4 DEF Check
<1>4. \A t \in Finishers : pc'[t] = "finMail" => pc[t] = "finMail"
  <2>1. \A t \in Finishers : t \in Threads /\ t # k
    BY ArchiveThreads
  <2>2. CASE LoadJobs(k)
    BY <2>1, <2>2 DEF LoadJobs, LoadWork
  <2>3. CASE JoinLoop(k, "idle")
    BY <2>1, <2>3, ArchiveThreads, GotoPlaces DEF JoinLoop, IInv
  <2> QED
    BY <2>2, <2>3 DEF Check
<1>5. \A e \in Deliveries : Executing(e)' => Executing(e)
  BY <1>3 DEF Executing
<1> QED
  BY <1>1, <1>2, <1>3, <1>4, <1>5 DEF Quiet

\* The steps of a check's iteration that decide nothing.
LEMMA JobWorkQuiet ==
    ASSUME IInv, NEW k \in Checks, NEW f \in Files,
           \/ StartJob(k, f) \/ FailRow(<<k, f>>)
           \/ MarkProcessing(<<k, f>>) \/ CompleteFile(<<k, f>>) \/ RecordFailure(<<k, f>>)
           \/ OpenBlob(<<k, f>>, "failing") \/ PurgeStale(<<k, f>>) \/ InsertBatch(<<k, f>>)
           \/ CountFile(<<k, f>>, "restored") \/ CountFailed(<<k, f>>, "countFailed", "notRestored")
           \/ CountFailed(<<k, f>>, "failCount", "finRead")
    PROVE  Quiet
<1> DEFINE t == <<k, f>>
<1> USE DEF requestVars, fileVars, dataVars, worldVars, localVars
<1>0. t \in JobThreads
  BY ArchiveThreads
<1>1. CASE StartJob(k, f) \/ OpenBlob(t, "failing")
  <2>1. \E label \in {"tier", "purge", "failing"} : Goto(t, label)
    BY <1>1 DEF StartJob, StartBody, OpenBlob
  <2>2. pc[t] # "idle" /\ UNCHANGED <<req, mails, client, snap>>
    BY <1>1 DEF StartJob, StartBody, OpenBlob
  <2> QED
    BY <1>0, <2>1, <2>2, JobQuiet
<1>2. CASE FailRow(t) \/ MarkProcessing(t) \/ CompleteFile(t) \/ RecordFailure(t)
  <2>1. \E label \in {"failCount", "open", "count", "countFailed"} : Goto(t, label)
    BY <1>2 DEF FailRow, MarkProcessing, CompleteFile, RecordFailure
  <2>2. pc[t] # "idle" /\ UNCHANGED <<req, mails, client, snap>>
    BY <1>2 DEF FailRow, MarkProcessing, CompleteFile, RecordFailure
  <2> QED
    BY <1>0, <2>1, <2>2, JobQuiet
<1>3. CASE PurgeStale(t) \/ InsertBatch(t)
  <2>1. \E label \in {"insert", "complete"} : Goto(t, label)
    BY <1>3 DEF PurgeStale, InsertBatch
  <2>2. pc[t] # "idle" /\ UNCHANGED <<req, mails, client, snap>>
    BY <1>3 DEF PurgeStale, InsertBatch
  <2> QED
    BY <1>0, <2>1, <2>2, JobQuiet
<1>4. CASE \/ CountFile(t, "restored") \/ CountFailed(t, "countFailed", "notRestored")
           \/ CountFailed(t, "failCount", "finRead")
  <2>1. \E label \in {"restored", "notRestored", "finRead"} : Goto(t, label)
    BY <1>4 DEF CountFile, CountFailed
  <2>2. pc[t] # "idle" /\ UNCHANGED <<mails, client, snap>>
    BY <1>4 DEF CountFile, CountFailed
  <2>3. req'.status = req.status
    BY <1>4, CountsStatus
  <2> QED
    BY <1>0, <2>1, <2>2, <2>3, JobQuiet
<1> QED
  BY <1>1, <1>2, <1>3, <1>4

LEMMA JobDecisionQuiet ==
    ASSUME IInv, NEW t \in JobThreads,
           \/ ReadTier(t) \/ ReadProgress(t) \/ ReadFailedRow(t)
           \/ \E at \in Places, status \in JobStatuses, after \in {"done", "finRead", "failRead"} :
                 at # "idle" /\ WriteJob(t, at, status, after)
    PROVE  Quiet
<1> USE DEF requestVars, fileVars, dataVars, worldVars, localVars
<1>0. blob[t[2]] \in {"missing", "readable", "archived"}
  BY ArchiveThreads DEF IInv, TypeOK, StoreTypeOK, Tiers
<1>1. pc[t] # "idle" /\ UNCHANGED <<req, mails, client, snap>>
  BY DEF ReadTier, ReadProgress, ReadFailedRow, WriteJob
<1>2. \E label : label # "finMail" /\ Goto(t, label)
  <2>1. CASE ReadTier(t)
    <3>1. Goto(t, "progress") \/ Goto(t, "wait") \/ Goto(t, "failJob")
      BY <1>0, <2>1 DEF ReadTier
    <3> QED
      BY <3>1
  <2>2. CASE ReadProgress(t)
    <3>1. Goto(t, "orphan") \/ Goto(t, "already") \/ Goto(t, "mark")
      BY <2>2 DEF ReadProgress
    <3> QED
      BY <3>1
  <2>3. CASE ReadFailedRow(t)
    <3>1. Goto(t, "finRead") \/ Goto(t, "failRow")
      BY <2>3 DEF ReadFailedRow
    <3> QED
      BY <3>1
  <2>4. CASE \E at \in Places, status \in JobStatuses, after \in {"done", "finRead", "failRead"} :
                at # "idle" /\ WriteJob(t, at, status, after)
    BY <2>4 DEF WriteJob
  <2> QED
    BY <2>1, <2>2, <2>3, <2>4
<1> QED
  BY <1>1, <1>2, JobQuiet

LEMMA JobFinalizeQuiet ==
    ASSUME IInv, NEW t \in JobThreads, ReadRequest(t) \/ ReadFiles(t) \/ WriteCounters(t)
    PROVE  Quiet
<1> USE DEF requestVars, fileVars, dataVars, worldVars, localVars
<1>0. t \in Finishers
  BY ArchiveThreads
<1>1. \E label \in {"done", "finFiles", "finCount", "finTry"} : Goto(t, label)
  BY DEF ReadRequest, ReadFiles, WriteCounters
<1>2. pc[t] # "idle" /\ UNCHANGED <<mails, client>>
  BY DEF ReadRequest, ReadFiles, WriteCounters
<1>3. req'.status = req.status
  BY DEF ReadRequest, ReadFiles, WriteCounters, IInv, TypeOK, StoreTypeOK
<1>4. \A u \in Finishers : u # t => snap'[u] = snap[u]
  BY <1>0 DEF ReadRequest, ReadFiles, WriteCounters, IInv, TypeOK, StoreTypeOK
<1> QED
  BY <1>1, <1>2, <1>3, <1>4, JobQuiet

LEMMA ProcessJobQuiet ==
    ASSUME IInv, NEW k \in Checks, NEW f \in Files, ProcessJob(k, f),
           ~TryComplete(<<k, f>>), ~SendEmail(<<k, f>>)
    PROVE  Quiet
<1> DEFINE t == <<k, f>>
<1>0. t \in JobThreads
  BY ArchiveThreads
<1>1. CASE \/ StartJob(k, f) \/ FailRow(t)
           \/ MarkProcessing(t) \/ CompleteFile(t) \/ RecordFailure(t)
           \/ OpenBlob(t, "failing") \/ PurgeStale(t) \/ InsertBatch(t)
           \/ CountFile(t, "restored") \/ CountFailed(t, "countFailed", "notRestored")
           \/ CountFailed(t, "failCount", "finRead")
  BY <1>1, JobWorkQuiet
<1>2. CASE ReadTier(t) \/ ReadProgress(t) \/ ReadFailedRow(t)
  BY <1>0, <1>2, JobDecisionQuiet
<1>3. CASE \/ WriteJob(t, "wait", "RehydrationRequested", "done")
           \/ WriteJob(t, "orphan", "Failed", "finRead")
           \/ WriteJob(t, "already", "Ready", "finRead")
           \/ WriteJob(t, "restored", "Ready", "finRead")
           \/ WriteJob(t, "notRestored", "Failed", "finRead")
           \/ WriteJob(t, "failJob", "Failed", "failRead")
  <2>1. {"RehydrationRequested", "Ready", "Failed"} \subseteq JobStatuses
    BY DEF JobStatuses
  <2>2. \E at \in Places, status \in JobStatuses, after \in {"done", "finRead", "failRead"} :
           at # "idle" /\ WriteJob(t, at, status, after)
    BY <1>3, <2>1, PlaceNames
  <2> QED
    BY <1>0, <2>2, JobDecisionQuiet
<1>4. CASE ReadRequest(t) \/ ReadFiles(t) \/ WriteCounters(t)
  BY <1>0, <1>4, JobFinalizeQuiet
<1> QED
  BY <1>1, <1>2, <1>3, <1>4 DEF ProcessJob, Finalize

LEMMA JobThrowsQuiet ==
    ASSUME IInv, NEW k \in Checks, NEW f \in Files, JobThrows(k, f)
    PROVE  Quiet
<1> DEFINE t == <<k, f>>
<1> USE DEF requestVars, fileVars, dataVars, worldVars, localVars
<1>1. \E label \in {"failing", "failJob", "thrown", "done"} : Goto(t, label)
  BY DEF JobThrows, LoseEmail, Throw
<1>2. pc[t] # "idle"
  BY DEF JobThrows, LoseEmail, RestoringFile, Handled, HandledByToken, Finalizing, RecordingFault
<1>3. UNCHANGED <<req, mails, client, snap>>
  BY DEF JobThrows, LoseEmail, Throw
<1>4. t \in JobThreads
  BY ArchiveThreads
<1> QED
  BY <1>1, <1>2, <1>3, <1>4, JobQuiet

\* A crash takes a loop and its iterations, or a call, out of work.
LEMMA CrashQuiet ==
    ASSUME IInv, NEW p \in Loops \cup Callers, Crash(p)
    PROVE  Quiet
<1> USE DEF requestVars, fileVars, dataVars, worldVars, localVars
<1>1. \A u \in Threads : pc'[u] = "crashed" \/ pc'[u] = pc[u]
  BY DEF Crash
<1>2. \A u \in Loops \cup Callers : u # p => pc'[u] = pc[u]
  <2>1. \A u \in Loops \cup Callers : u \notin {p} \X Files
    BY ThreadAssumption DEF Loops
  <2> QED
    BY <2>1, ThreadKinds DEF Crash
<1>3. pc[p] # "idle"
  BY DEF Crash, Settled
<1>4. UNCHANGED <<req, mails, client, snap, job>>
  BY DEF Crash
<1>5. \A e \in Deliveries : Executing(e)' => Executing(e)
  BY <1>1, ArchiveThreads DEF Executing
<1>6. \A t \in Finishers : pc'[t] = "finMail" => pc[t] = "finMail"
  BY <1>1, ThreadKinds
<1>7. client # "sent" => \A e \in Deliveries : pc'[e] = pc[e]
  BY <1>2, <1>3, ArchiveThreads DEF IInv, ClientFirst
<1>8. client = "new" => \A c \in Callers : pc'[c] = pc[c]
  BY <1>2, <1>3, ArchiveThreads DEF IInv, ClientFirst
<1>9. ~Begun => StillIdle
  <2> SUFFICES ASSUME ~Begun PROVE StillIdle
    OBVIOUS
  <2>1. p \notin Checks
    BY <1>3 DEF IInv, ClaimFirst
  <2>2. \A t \in JobThreads : t \in Threads /\ t # p /\ t \notin {p} \X Files
    BY <2>1, ArchiveThreads DEF JobThreads
  <2>3. \A t \in JobThreads : pc'[t] = pc[t]
    BY <2>2 DEF Crash
  <2>4. \A k \in Checks : pc'[k] = pc[k]
    BY <1>2, <2>1, ArchiveThreads
  <2> QED
    BY <1>4, <2>3, <2>4 DEF StillIdle
<1> QED
  BY <1>4, <1>5, <1>6, <1>7, <1>8, <1>9 DEF Quiet

\* The steps of a cancellation but the transition to Cancelled.
LEMMA CancelQuiet ==
    ASSUME IInv, NEW c \in Callers, CancelRestore(c) \/ CancelThrows(c), ~TryCancel(c)
    PROVE  Quiet
<1> USE DEF requestVars, fileVars, dataVars, worldVars, localVars
<1>1. client # "new"
  BY DEF CancelRestore, ReadBeforeCancel, CancelFiles, CancelJobs, DropTraces, DropLogs,
     CancelThrows, Settled, IInv, ClientFirst
<1>2. PICK label : Goto(c, label)
  BY DEF CancelRestore, ReadBeforeCancel, CancelFiles, CancelJobs, DropTraces, DropLogs,
     CancelThrows, Throw
<1>3. UNCHANGED <<req, mails, client, snap>>
  BY DEF CancelRestore, ReadBeforeCancel, CancelFiles, CancelJobs, DropTraces, DropLogs,
     CancelThrows, Throw
<1>4. ~Begun => \A f \in Files : job'[f] = job[f]
  <2>1. CASE CancelJobs(c)
    BY <2>1 DEF CancelJobs, IInv, ClaimFirst
  <2>2. CASE ~CancelJobs(c)
    BY <2>2 DEF CancelRestore, ReadBeforeCancel, CancelFiles, DropTraces, DropLogs,
       CancelThrows, Throw
  <2> QED
    BY <2>1, <2>2
<1> QED
  BY <1>1, <1>2, <1>3, <1>4, CallerQuiet

-----------------------------------------------------------------------------
(* The steps that decide: who executes, how the request ends, who mails.   *)

LEMMA ClientKeeps ==
    ASSUME IInv, CreateRequest \/ SendMessage, TypeOK'
    PROVE  IInv'
<1> USE DEF requestVars, fileVars, dataVars, worldVars, localVars
<1>1. /\ UNCHANGED <<mails, pc, snap, job>>
      /\ \A d \in Deliveries : pc[d] = "idle"
      /\ client' # "new" /\ (client' = "sent" => client = "created")
  BY DEF CreateRequest, SendMessage, IInv, ClientFirst
<1>2. req'.status = IF client = "new" THEN "Pending" ELSE req.status
  BY DEF CreateRequest, SendMessage, IInv, TypeOK, StoreTypeOK
<1>3. ClientFirst'
  BY <1>1, <1>2 DEF IInv, ClientFirst
<1>4. ClaimFirst'
  BY <1>1, <1>2 DEF IInv, ClientFirst, ClaimFirst, Begun, Executing
<1>5. SingleExecution' /\ OneMailer' /\ SnapIsOutcome'
  BY <1>1 DEF IInv, SingleExecution, Executing, OneMailer, SnapIsOutcome
<1>6. MailFollowsEnd'
  BY <1>1, <1>2 DEF IInv, ClientFirst, MailFollowsEnd, IsTerminal, TerminalRequestStatuses
<1> QED
  BY <1>3, <1>4, <1>5, <1>6 DEF IInv

LEMMA ClaimKeeps ==
    ASSUME IInv, NEW d \in Deliveries, Claim(d), TypeOK'
    PROVE  IInv'
<1> USE DEF requestVars, fileVars, dataVars, worldVars, localVars
<1>1. /\ client = "sent" /\ UNCHANGED <<mails, client, snap, job>>
      /\ pc[d] = "idle"
  BY DEF Claim
<1>2. CASE ~Claimable
  <2>1. req' = req /\ Goto(d, "done")
    BY <1>2 DEF Claim
  <2>2. \A t \in Threads : pc'[t] = IF t = d THEN "done" ELSE pc[t]
    BY <2>1, ArchiveThreads, GotoPlaces DEF IInv
  <2>3. \A e \in Deliveries : Executing(e)' => Executing(e)
    BY <2>2, ArchiveThreads DEF Executing
  <2>4. \A t \in Finishers : pc'[t] = "finMail" => pc[t] = "finMail"
    BY <2>2, ArchiveThreads
  <2>5. StillIdle
    BY <1>1, <2>2, ArchiveThreads DEF StillIdle
  <2>6. Quiet
    BY <1>1, <2>1, <2>3, <2>4, <2>5 DEF Quiet
  <2> QED
    BY <1>1, <2>6, QuietKeeps DEF IInv, SnapIsOutcome
<1>3. CASE Claimable
  <2>1. /\ req'.status = "InProgress" /\ req.status \in {"None", "Pending"}
        /\ Goto(d, "reset")
    BY <1>3 DEF Claim, Claimable, IInv, TypeOK, StoreTypeOK, RequestStatuses
  <2>2. \A t \in Threads : pc'[t] = IF t = d THEN "reset" ELSE pc[t]
    BY <2>1, ArchiveThreads, GotoPlaces DEF IInv
  <2>3. \A e \in Deliveries : Executing(e)' => e = d
    <3>1. \A e \in Deliveries : ~Executing(e)
      BY <2>1 DEF IInv, ClaimFirst, Begun
    <3> QED
      BY <2>2, <3>1, ArchiveThreads DEF Executing
  <2>4. mails = <<>> /\ \A t \in Finishers : pc'[t] # "finMail"
    BY <2>1, <2>2, ArchiveThreads DEF IInv, MailFollowsEnd, IsTerminal, TerminalRequestStatuses
  <2>5. ClientFirst'
    BY <1>1, <2>1, <2>2 DEF IInv, ClientFirst
  <2>6. ClaimFirst' /\ SingleExecution'
    BY <2>1, <2>3 DEF ClaimFirst, SingleExecution, Begun
  <2>7. OneMailer' /\ MailFollowsEnd' /\ SnapIsOutcome'
    BY <1>1, <2>4 DEF IInv, OneMailer, MailFollowsEnd, SnapIsOutcome
  <2> QED
    BY <2>5, <2>6, <2>7 DEF IInv
<1> QED
  BY <1>2, <1>3

\* AbortRequest and TryCancel: a final status that no mail of this step tells.
LEMMA EndKeeps ==
    ASSUME IInv, TypeOK', req.status # "None",
           \/ req'.status = "Failed"
           \/ ~IsTerminal(req.status) /\ req'.status = "Cancelled",
           UNCHANGED <<mails, client, snap>>,
           client # "new",
           \A e \in Deliveries :
              /\ Executing(e)' => Executing(e)
              /\ pc[e] = "idle" => pc'[e] = "idle",
           \A t \in Finishers : pc'[t] = "finMail" => pc[t] = "finMail"
    PROVE  IInv'
<1>1. ClientFirst'
  BY DEF IInv, ClientFirst
<1>2. ClaimFirst'
  BY DEF ClaimFirst, Begun
<1>3. SingleExecution' /\ OneMailer' /\ SnapIsOutcome'
  BY DEF IInv, SingleExecution, OneMailer, SnapIsOutcome
<1>4. MailFollowsEnd'
  BY DEF IInv, MailFollowsEnd, IsTerminal, TerminalRequestStatuses
<1> QED
  BY <1>1, <1>2, <1>3, <1>4 DEF IInv

LEMMA AbortKeeps ==
    ASSUME IInv, NEW d \in Deliveries, AbortRequest(d), TypeOK'
    PROVE  IInv'
<1> USE DEF requestVars, fileVars, dataVars, worldVars, localVars
<1>1. client = "sent" /\ req.status # "None"
  BY DEF AbortRequest, IInv, ClientFirst
<1>2. /\ req'.status = "Failed"
      /\ pc[d] = "abort" /\ UNCHANGED <<mails, client, snap>>
  BY DEF AbortRequest, IInv, TypeOK, StoreTypeOK
<1>3. \A t \in Threads : pc'[t] = IF t = d THEN "done" ELSE pc[t]
  BY ArchiveThreads, GotoPlaces DEF AbortRequest, IInv
<1>4. \A e \in Deliveries :
         /\ Executing(e)' => Executing(e)
         /\ pc[e] = "idle" => pc'[e] = "idle"
  BY <1>2, <1>3, ArchiveThreads DEF Executing
<1>5. \A t \in Finishers : pc'[t] = "finMail" => pc[t] = "finMail"
  BY <1>3, ArchiveThreads
<1> QED
  BY <1>1, <1>2, <1>4, <1>5, EndKeeps

LEMMA TryCancelKeeps ==
    ASSUME IInv, NEW c \in Callers, TryCancel(c), TypeOK'
    PROVE  IInv'
<1> USE DEF requestVars, fileVars, dataVars, worldVars, localVars
<1>1. client # "new" /\ req.status # "None" /\ UNCHANGED <<mails, client, snap, job>>
  BY DEF TryCancel, IInv, ClientFirst
<1>2. PICK label : Goto(c, label)
  BY DEF TryCancel
<1>3. \A u \in Deliveries \cup Finishers : pc'[u] = pc[u]
  BY <1>2, ArchiveThreads, GotoPlaces DEF IInv
<1>4. CASE req' = req
  <2>1. Quiet
    BY <1>1, <1>2, <1>4, CallerQuiet
  <2> QED
    BY <1>1, <2>1, QuietKeeps DEF IInv, SnapIsOutcome
<1>5. CASE req' # req
  <2>1. ~IsTerminal(req.status) /\ req'.status = "Cancelled"
    BY <1>5 DEF TryCancel, IInv, TypeOK, StoreTypeOK
  <2> QED
    BY <1>1, <1>3, <2>1, EndKeeps DEF Executing
<1> QED
  BY <1>4, <1>5

\* A finisher at work has found the request claimed.
LEMMA FinisherBegun ==
    ASSUME IInv, NEW t \in Finishers, pc[t] \in {"finTry", "finMail"}
    PROVE  /\ Begun /\ client # "new"
           /\ t \in Deliveries => Executing(t) /\ client = "sent"
<1>1. t \in Deliveries \/ t \in JobThreads
  BY ArchiveThreads
<1>2. t \in Deliveries => Executing(t) /\ client = "sent"
  BY DEF Executing, IInv, ClientFirst
<1>3. Begun
  BY <1>1, <1>2 DEF IInv, ClaimFirst
<1>4. client # "new"
  BY <1>3 DEF IInv, ClientFirst, Begun
<1> QED
  BY <1>2, <1>3, <1>4

LEMMA TryCompleteKeeps ==
    ASSUME IInv, NEW t \in Finishers, TryComplete(t), TypeOK'
    PROVE  IInv'
<1> USE DEF requestVars, fileVars, dataVars, worldVars, localVars
<1>0. /\ pc[t] = "finTry" /\ UNCHANGED <<mails, client, snap, job>>
      /\ Begun /\ client # "new" /\ (t \in Deliveries => Executing(t) /\ client = "sent")
  <2>1. pc[t] = "finTry" /\ UNCHANGED <<mails, client, snap, job>>
    BY DEF TryComplete
  <2> QED
    BY <2>1, FinisherBegun
<1>1. CASE IsTerminal(req.status)
  <2>1. Goto(t, "done") /\ req' = req
    BY <1>1 DEF TryComplete
  <2>2. t \in Deliveries => Quiet
    BY <1>0, <2>1, DeliveryQuiet
  <2>3. t \in JobThreads => Quiet
    BY <1>0, <2>1, JobQuiet
  <2>4. Quiet
    BY <2>2, <2>3, ArchiveThreads
  <2> QED
    BY <1>0, <2>4, QuietKeeps DEF IInv, SnapIsOutcome
<1>2. CASE ~IsTerminal(req.status)
  <2>1. req'.status = snap[t].status /\ Goto(t, "finMail")
    BY <1>2 DEF TryComplete, IInv, TypeOK, StoreTypeOK
  <2>2. \A u \in Threads : pc'[u] = IF u = t THEN "finMail" ELSE pc[u]
    BY <2>1, ThreadKinds, GotoPlaces DEF IInv
  <2>3. \A e \in Deliveries : Executing(e)' => Executing(e)
    BY <1>0, <2>2, ArchiveThreads DEF Executing
  <2>4. mails = <<>> /\ \A u \in Finishers : pc[u] # "finMail"
    BY <1>2 DEF IInv, MailFollowsEnd
  <2>5. \A u \in Finishers : pc'[u] = "finMail" => u = t
    BY <2>2, <2>4, ThreadKinds
  <2>6. req'.status \in {"Completed", "PartialSuccess", "Failed"}
    BY <2>1 DEF IInv, SnapIsOutcome
  <2>7. ClientFirst'
    <3>1. client # "sent" => \A d \in Deliveries : pc'[d] = pc[d]
      BY <1>0, <2>2, ArchiveThreads
    <3> QED
      BY <1>0, <2>6, <3>1 DEF IInv, ClientFirst
  <2>8. ClaimFirst' /\ SingleExecution' /\ OneMailer' /\ SnapIsOutcome'
    BY <1>0, <2>3, <2>5, <2>6 DEF IInv, ClaimFirst, Begun, SingleExecution, OneMailer, SnapIsOutcome
  <2>9. MailFollowsEnd'
    BY <1>0, <2>1, <2>4, <2>5, <2>6 DEF MailFollowsEnd, IsTerminal, TerminalRequestStatuses
  <2> QED
    BY <2>7, <2>8, <2>9 DEF IInv
<1> QED
  BY <1>1, <1>2

LEMMA SendEmailKeeps ==
    ASSUME IInv, NEW t \in Finishers, SendEmail(t), TypeOK'
    PROVE  IInv'
<1> USE DEF requestVars, fileVars, dataVars, worldVars, localVars
<1>0. /\ pc[t] = "finMail" /\ UNCHANGED <<req, client, snap, job>>
      /\ Begun /\ client # "new" /\ (t \in Deliveries => Executing(t) /\ client = "sent")
  <2>1. pc[t] = "finMail" /\ UNCHANGED <<req, client, snap, job>>
    BY DEF SendEmail
  <2> QED
    BY <2>1, FinisherBegun
<1>1. \A u \in Threads : pc'[u] = IF u = t THEN "done" ELSE pc[u]
  BY ThreadKinds, GotoPlaces DEF SendEmail, IInv
<1>2. \A u \in Finishers : pc'[u] # "finMail"
  BY <1>0, <1>1, ThreadKinds DEF IInv, OneMailer
<1>3. \A e \in Deliveries : Executing(e)' => Executing(e)
  BY <1>0, <1>1, ArchiveThreads DEF Executing
<1>4. mails' = <<snap[t].status>>
  <2>1. mails = <<>>
    BY <1>0 DEF IInv, MailFollowsEnd
  <2>2. mails' = Append(<<>>, snap[t].status)
    BY <2>1 DEF SendEmail
  <2> QED
    BY <2>2
<1>5. ClientFirst'
  <2>1. client # "sent" => \A d \in Deliveries : pc'[d] = pc[d]
    BY <1>0, <1>1, ArchiveThreads
  <2> QED
    BY <1>0, <2>1 DEF IInv, ClientFirst
<1>6. ClaimFirst' /\ SingleExecution' /\ OneMailer' /\ SnapIsOutcome'
  BY <1>0, <1>2, <1>3 DEF IInv, ClaimFirst, Begun, SingleExecution, OneMailer, SnapIsOutcome
<1>7. MailFollowsEnd'
  <2>1. IsTerminal(req.status) /\ req.status \in {snap[t].status, "Failed"}
    BY <1>0 DEF IInv, MailFollowsEnd
  <2>2. Len(mails') = 1 /\ mails'[1] = snap[t].status
    BY <1>4
  <2> QED
    BY <1>0, <1>2, <2>1, <2>2 DEF MailFollowsEnd, IsTerminal
<1> QED
  BY <1>5, <1>6, <1>7 DEF IInv

\* ReadFiles computes an outcome and no other step writes one.
LEMMA SnapStep == IInv /\ [Next]_vars => SnapIsOutcome'
<1> SUFFICES ASSUME IInv, [Next]_vars PROVE SnapIsOutcome'
  OBVIOUS
<1> USE DEF requestVars, fileVars, dataVars, worldVars, localVars
<1>1. CASE UNCHANGED snap
  BY <1>1 DEF IInv, SnapIsOutcome
<1>2. ASSUME NEW t \in Finishers, Finalize(t) PROVE SnapIsOutcome'
  <2>1. CASE ReadFiles(t)
    <3> DEFINE total == Cardinality(Planned)
               failed == Cardinality(FailedFiles)
               read == [processed |-> total, failed |-> failed,
                        status |-> FinalStatus(total, failed)]
    <3>1. read.status \in {"Completed", "PartialSuccess", "Failed"}
      BY DEF FinalStatus
    <3>2. snap' = snap \/ snap' = [snap EXCEPT ![t] = read]
      BY <2>1 DEF ReadFiles
    <3> HIDE DEF read
    <3> QED
      BY <3>1, <3>2 DEF IInv, TypeOK, StoreTypeOK, SnapIsOutcome
  <2>2. CASE ReadRequest(t) \/ WriteCounters(t) \/ TryComplete(t) \/ SendEmail(t)
    BY <1>1, <2>2 DEF ReadRequest, WriteCounters, TryComplete, SendEmail
  <2> QED
    BY <1>2, <2>1, <2>2 DEF Finalize
<1>3. CASE UNCHANGED vars
  BY <1>1, <1>3 DEF vars, storeVars
<1>4. CASE CreateRequest \/ SendMessage \/ \E f \in Files : BlobMoves(f) \/ TimePasses(f)
  BY <1>1, <1>4 DEF CreateRequest, SendMessage, BlobMoves, TimePasses, storeVars
<1>5. ASSUME NEW d \in Deliveries, Deliver(d) PROVE SnapIsOutcome'
  <2>1. CASE Finalize(d)
    BY <1>2, <2>1, ArchiveThreads
  <2>2. CASE ~Finalize(d)
    <3>1. UNCHANGED snap
      BY <1>5, <2>2 DEF Deliver, Claim, ResetStuck, PlanFile, PlanArchivedRow, UpdateTotal,
         LoadReadable, LoadWork, EndLoop, JoinLoop, AbortRequest
    <3> QED
      BY <1>1, <3>1
  <2> QED
    BY <2>1, <2>2
<1>6. ASSUME NEW d \in Deliveries, DeliveryThrows(d) PROVE SnapIsOutcome'
  BY <1>1, <1>6 DEF DeliveryThrows, LoseEmail, Throw
<1>7. ASSUME NEW d \in Deliveries, NEW f \in Files, RestoreFile(d, f) \/ FileThrows(d, f)
      PROVE SnapIsOutcome'
  BY <1>1, <1>7 DEF RestoreFile, FileThrows, Throw, StartFile, StartBody, CheckCancelled,
     MarkProcessing, OpenBlob, PurgeStale, InsertBatch, CompleteFile, CountFile, RecordFailure,
     CountFailed
<1>8. ASSUME NEW k \in Checks, Check(k) PROVE SnapIsOutcome'
  BY <1>1, <1>8 DEF Check, LoadJobs, LoadWork, JoinLoop
<1>9. ASSUME NEW k \in Checks, NEW f \in Files, ProcessJob(k, f) \/ JobThrows(k, f)
      PROVE SnapIsOutcome'
  <2>1. CASE Finalize(<<k, f>>)
    BY <1>2, <2>1, ArchiveThreads
  <2>2. CASE JobThrows(k, f)
    BY <1>1, <2>2 DEF JobThrows, LoseEmail, Throw
  <2>3. CASE ProcessJob(k, f) /\ ~Finalize(<<k, f>>)
    <3>1. UNCHANGED snap
      BY <2>3 DEF ProcessJob, StartJob, StartBody, FailRow, MarkProcessing, CompleteFile,
         RecordFailure, ReadTier, WriteJob, ReadProgress, OpenBlob, PurgeStale, InsertBatch,
         CountFile, CountFailed, ReadFailedRow
    <3> QED
      BY <1>1, <3>1
  <2> QED
    BY <1>9, <2>1, <2>2, <2>3
<1>10. ASSUME NEW c \in Callers, CancelRestore(c) \/ CancelThrows(c) PROVE SnapIsOutcome'
  BY <1>1, <1>10 DEF CancelRestore, CancelThrows, Throw, ReadBeforeCancel, TryCancel, CancelFiles,
     CancelJobs, DropTraces, DropLogs
<1>11. ASSUME NEW p \in Loops \cup Callers, Crash(p) PROVE SnapIsOutcome'
  BY <1>1, <1>11 DEF Crash
<1> QED
  BY <1>3, <1>4, <1>5, <1>6, <1>7, <1>8, <1>9, <1>10, <1>11 DEF Next, Terminating

\* A step is quiet, or one of those that decide.
LEMMA QuietOrDecides ==
    ASSUME IInv, [Next]_vars
    PROVE  \/ Quiet
           \/ CreateRequest \/ SendMessage
           \/ \E d \in Deliveries : Claim(d) \/ AbortRequest(d)
           \/ \E t \in Finishers : TryComplete(t) \/ SendEmail(t)
           \/ \E c \in Callers : TryCancel(c)
<1>1. ASSUME NEW d \in Deliveries, Deliver(d)
      PROVE  Quiet \/ Claim(d) \/ AbortRequest(d) \/ TryComplete(d) \/ SendEmail(d)
  BY <1>1, DeliverQuiet DEF Deliver, Finalize
<1>2. ASSUME NEW d \in Deliveries, DeliveryThrows(d) PROVE Quiet
  BY <1>2, FailureQuiet
<1>3. ASSUME NEW d \in Deliveries, NEW f \in Files, RestoreFile(d, f) \/ FileThrows(d, f)
      PROVE Quiet
  BY <1>3, RestoreFileQuiet
<1>4. ASSUME NEW k \in Checks, Check(k) PROVE Quiet
  BY <1>4, CheckQuiet
<1>5. ASSUME NEW k \in Checks, NEW f \in Files, ProcessJob(k, f)
      PROVE Quiet \/ TryComplete(<<k, f>>) \/ SendEmail(<<k, f>>)
  BY <1>5, ProcessJobQuiet
<1>6. ASSUME NEW k \in Checks, NEW f \in Files, JobThrows(k, f) PROVE Quiet
  BY <1>6, JobThrowsQuiet
<1>7. ASSUME NEW c \in Callers, CancelRestore(c) \/ CancelThrows(c) PROVE Quiet \/ TryCancel(c)
  BY <1>7, CancelQuiet
<1>8. ASSUME NEW p \in Loops \cup Callers, Crash(p) PROVE Quiet
  BY <1>8, CrashQuiet
<1>9. ASSUME NEW f \in Files, BlobMoves(f) \/ TimePasses(f) PROVE Quiet
  BY <1>9, StillQuiet DEF BlobMoves, TimePasses, storeVars, requestVars, fileVars, dataVars,
     worldVars, localVars
<1>10. CASE UNCHANGED vars
  BY <1>10, StillQuiet DEF vars, storeVars, requestVars, fileVars, dataVars, worldVars, localVars
<1>11. \A d \in Deliveries : d \in Finishers
  BY ArchiveThreads
<1>12. \A k \in Checks, f \in Files : <<k, f>> \in Finishers
  BY ArchiveThreads
<1> QED
  BY <1>1, <1>2, <1>3, <1>4, <1>5, <1>6, <1>7, <1>8, <1>9, <1>10, <1>11, <1>12
     DEF Next, Terminating

LEMMA IInvStep == IInv /\ [Next]_vars => IInv'
<1> SUFFICES ASSUME IInv, [Next]_vars PROVE IInv'
  OBVIOUS
<1>0. TypeOK' /\ SnapIsOutcome'
  BY TypeStep, SnapStep DEF IInv
<1>1. CASE Quiet
  BY <1>0, <1>1, QuietKeeps
<1>2. CASE CreateRequest \/ SendMessage
  BY <1>0, <1>2, ClientKeeps
<1>3. ASSUME NEW d \in Deliveries, Claim(d) \/ AbortRequest(d) PROVE IInv'
  BY <1>0, <1>3, ClaimKeeps, AbortKeeps
<1>4. ASSUME NEW t \in Finishers, TryComplete(t) \/ SendEmail(t) PROVE IInv'
  BY <1>0, <1>4, TryCompleteKeeps, SendEmailKeeps
<1>5. ASSUME NEW c \in Callers, TryCancel(c) PROVE IInv'
  BY <1>0, <1>5, TryCancelKeeps
<1> QED
  BY <1>1, <1>2, <1>3, <1>4, <1>5, QuietOrDecides

LEMMA IInvInit == Init => IInv
<1> SUFFICES ASSUME Init PROVE IInv
  OBVIOUS
<1>1. TypeOK
  BY InitType, PlaceNames DEF Init, TypeOK, Places
<1>2. /\ req.status = "None" /\ client = "new" /\ mails = <<>>
      /\ \A t \in Threads : pc[t] = "idle"
      /\ \A t \in Finishers : snap[t].status = "Completed"
      /\ \A f \in Files : job[f] = "Absent"
  BY DEF Init, StoreInit, NoSnap
<1>3. \A t \in Loops \cup Finishers \cup JobThreads \cup Callers : pc[t] = "idle"
  BY <1>2, ArchiveThreads, ThreadKinds
<1>4. ClientFirst /\ ClaimFirst /\ SingleExecution
  BY <1>2, <1>3, ArchiveThreads DEF ClientFirst, ClaimFirst, SingleExecution, Executing
<1>5. OneMailer /\ MailFollowsEnd /\ SnapIsOutcome
  BY <1>2, <1>3 DEF OneMailer, MailFollowsEnd, SnapIsOutcome
<1> QED
  BY <1>1, <1>4, <1>5 DEF IInv

\* The inductive invariant holds for ever: what claims, jobs, finishers and
\* mails have to do with the status of the request.
THEOREM Invariance == Spec => []IInv
BY IInvInit, IInvStep, PTL DEF Spec

\* However often the message is delivered, one delivery plans and restores
\* (TryBeginProcessingAsync).
THEOREM OneExecutor == Spec => []SingleExecution
<1>1. IInv => SingleExecution
  BY DEF IInv
<1> QED
  BY <1>1, Invariance, PTL

\* However many jobs and deliveries see the last file finish, the user gets at
\* most one completion mail (TryCompleteRequestAsync).
THEOREM OneMail == Spec => []NotifiedAtMostOnce
<1>1. IInv => (mails = <<>> \/ Len(mails) = 1)
  BY DEF IInv, MailFollowsEnd
<1>2. mails = <<>> => Len(mails) = 0
  OBVIOUS
<1>3. IInv => NotifiedAtMostOnce
  <2>1. \A n : n \in {0, 1} => n <= 1
    OBVIOUS
  <2> QED
    BY <1>1, <1>2, <2>1, Zenon DEF NotifiedAtMostOnce
<1> QED
  BY <1>3, Invariance, PTL

\* A mail tells the outcome the request has, unless a delivery failed since.
THEOREM HonestMail == Spec => []MailTellsOutcome
<1>1. IInv => MailTellsOutcome
  BY DEF IInv, MailFollowsEnd, MailTellsOutcome
<1> QED
  BY <1>1, Invariance, PTL

-----------------------------------------------------------------------------
(* ArchiveRestore implements RequestLifecycle.                             *)

\* What the refinement mapping says is owed: nothing, or the outcome of the
\* one finisher that is at its mail.
LEMMA OwedNothing ==
    ASSUME \A t \in Finishers : pc[t] # "finMail"
    PROVE  Owed = "none"
BY DEF Owed

LEMMA OwedOutcome ==
    ASSUME OneMailer, NEW t \in Finishers, pc[t] = "finMail"
    PROVE  Owed = snap[t].status
<1>1. \A u \in Finishers : pc[u] = "finMail" => u = t
  BY DEF OneMailer
<1>2. (CHOOSE u \in Finishers : pc[u] = "finMail") = t
  BY <1>1
<1> QED
  BY <1>2 DEF Owed

LEMMA OwedNothing2 ==
    ASSUME \A t \in Finishers : pc'[t] # "finMail"
    PROVE  Owed' = "none"
BY DEF Owed

LEMMA OwedOutcome2 ==
    ASSUME OneMailer', NEW t \in Finishers, pc'[t] = "finMail"
    PROVE  Owed' = snap'[t].status
<1>1. \A u \in Finishers : pc'[u] = "finMail" => u = t
  BY DEF OneMailer
<1>2. (CHOOSE u \in Finishers : pc'[u] = "finMail") = t
  BY <1>1
<1> QED
  BY <1>2 DEF Owed

LEMMA QuietMaps ==
    ASSUME IInv, IInv', Quiet
    PROVE  [Lifecycle!Next]_<<req.status, Owed, mails>>
<1>1. CASE \E t \in Finishers : pc'[t] = "finMail"
  <2>1. PICK t \in Finishers : pc'[t] = "finMail"
    BY <1>1
  <2>2. pc[t] = "finMail" /\ snap'[t] = snap[t]
    BY <2>1 DEF Quiet
  <2>3. Owed' = Owed
    BY <2>1, <2>2, OwedOutcome, OwedOutcome2 DEF IInv
  <2> QED
    BY <2>3 DEF Quiet
<1>2. CASE \A t \in Finishers : pc'[t] # "finMail"
  <2>1. Owed' = "none"
    BY <1>2, OwedNothing2
  <2>2. CASE Owed = "none"
    BY <2>1, <2>2 DEF Quiet
  <2>3. CASE Owed # "none"
    BY <2>1, <2>3 DEF Quiet, Lifecycle!Next, Lifecycle!LoseMail
  <2> QED
    BY <2>2, <2>3
<1> QED
  BY <1>1, <1>2

\* A status written by a step after which the same mail is owed.
LEMMA SameOwed ==
    ASSUME IInv, IInv', UNCHANGED snap,
           \A t \in Finishers : pc'[t] = "finMail" <=> pc[t] = "finMail"
    PROVE  Owed' = Owed
<1>1. CASE \E t \in Finishers : pc[t] = "finMail"
  BY <1>1, OwedOutcome, OwedOutcome2 DEF IInv
<1>2. CASE \A t \in Finishers : pc[t] # "finMail"
  BY <1>2, OwedNothing, OwedNothing2
<1> QED
  BY <1>1, <1>2

LEMMA ClientMaps ==
    ASSUME IInv, IInv', CreateRequest \/ SendMessage
    PROVE  [Lifecycle!Next]_<<req.status, Owed, mails>>
<1>1. Owed' = Owed
  BY SameOwed DEF CreateRequest, SendMessage, localVars
<1>2. CASE CreateRequest
  BY <1>1, <1>2 DEF CreateRequest, IInv, ClientFirst, TypeOK, StoreTypeOK,
     Lifecycle!Next, Lifecycle!Submit
<1>3. CASE SendMessage
  BY <1>1, <1>3 DEF SendMessage, requestVars
<1> QED
  BY <1>2, <1>3

LEMMA ClaimMaps ==
    ASSUME IInv, IInv', NEW d \in Deliveries, Claim(d)
    PROVE  [Lifecycle!Next]_<<req.status, Owed, mails>>
<1>1. Owed' = Owed
  <2>1. PICK label \in {"reset", "done"} : Goto(d, label)
    BY DEF Claim
  <2>2. \A t \in Finishers : pc'[t] = "finMail" <=> pc[t] = "finMail"
    BY <2>1, ArchiveThreads, ThreadKinds, GotoPlaces DEF Claim, IInv
  <2> QED
    BY <2>2, SameOwed DEF Claim, localVars
<1>2. CASE Claimable
  BY <1>1, <1>2 DEF Claim, Claimable, IInv, ClientFirst, TypeOK, StoreTypeOK, RequestStatuses,
     Lifecycle!Next, Lifecycle!Begin
<1>3. CASE ~Claimable
  BY <1>1, <1>3 DEF Claim
<1> QED
  BY <1>2, <1>3

LEMMA TryCompleteMaps ==
    ASSUME IInv, IInv', NEW t \in Finishers, TryComplete(t)
    PROVE  [Lifecycle!Next]_<<req.status, Owed, mails>>
<1>0. pc[t] = "finTry" /\ UNCHANGED <<mails, snap>>
  BY DEF TryComplete, localVars
<1>1. CASE IsTerminal(req.status)
  <2>1. Goto(t, "done") /\ req' = req
    BY <1>1 DEF TryComplete
  <2>2. \A u \in Finishers : pc'[u] = "finMail" <=> pc[u] = "finMail"
    BY <1>0, <2>1, ThreadKinds, GotoPlaces DEF IInv
  <2> QED
    BY <1>0, <2>1, <2>2, SameOwed
<1>2. CASE ~IsTerminal(req.status)
  <2>1. req.status = "InProgress"
    BY <1>0, <1>2, FinisherBegun DEF Begun, IsTerminal, RequestStatuses, IInv, TypeOK, StoreTypeOK
  <2>2. req'.status = snap[t].status /\ pc'[t] = "finMail"
    BY <1>2, ThreadKinds, GotoPlaces DEF TryComplete, IInv, TypeOK, StoreTypeOK
  <2>3. Owed' = req'.status
    BY <1>0, <2>2, OwedOutcome2 DEF IInv
  <2>4. req'.status \in Lifecycle!Outcomes
    BY <2>2 DEF IInv, SnapIsOutcome, Lifecycle!Outcomes
  <2> QED
    BY <1>0, <2>1, <2>3, <2>4 DEF Lifecycle!Next, Lifecycle!Finish
<1> QED
  BY <1>1, <1>2

LEMMA SendEmailMaps ==
    ASSUME IInv, IInv', NEW t \in Finishers, SendEmail(t)
    PROVE  [Lifecycle!Next]_<<req.status, Owed, mails>>
<1>1. Owed = snap[t].status /\ Owed # "none"
  BY OwedOutcome DEF SendEmail, IInv, SnapIsOutcome
<1>2. \A u \in Finishers : pc'[u] # "finMail"
  <2>1. \A u \in Finishers : pc[u] = "finMail" => u = t
    BY DEF SendEmail, IInv, OneMailer
  <2> QED
    BY <2>1, ThreadKinds, GotoPlaces DEF SendEmail, IInv
<1>3. Owed' = "none"
  BY <1>2, OwedNothing2
<1> QED
  BY <1>1, <1>3 DEF SendEmail, Lifecycle!Next, Lifecycle!SendMail

LEMMA AbortMaps ==
    ASSUME IInv, IInv', NEW d \in Deliveries, AbortRequest(d)
    PROVE  [Lifecycle!Next]_<<req.status, Owed, mails>>
<1>1. \A t \in Finishers : pc'[t] = "finMail" <=> pc[t] = "finMail"
  BY ArchiveThreads, ThreadKinds, GotoPlaces DEF AbortRequest, IInv
<1>2. Owed' = Owed
  BY <1>1, SameOwed DEF AbortRequest, localVars
<1>3. req.status # "None"
  BY DEF AbortRequest, IInv, ClientFirst
<1> QED
  BY <1>2, <1>3 DEF AbortRequest, IInv, TypeOK, StoreTypeOK, Lifecycle!Next, Lifecycle!Fail

LEMMA TryCancelMaps ==
    ASSUME IInv, IInv', NEW c \in Callers, TryCancel(c)
    PROVE  [Lifecycle!Next]_<<req.status, Owed, mails>>
<1>1. Owed' = Owed
  <2>1. PICK label : Goto(c, label)
    BY DEF TryCancel
  <2>2. \A t \in Finishers : pc'[t] = pc[t]
    BY <2>1, ArchiveThreads, ThreadKinds, GotoPlaces DEF IInv
  <2> QED
    BY <2>2, SameOwed DEF TryCancel, localVars
<1>2. CASE IsTerminal(req.status)
  BY <1>1, <1>2 DEF TryCancel
<1>3. CASE ~IsTerminal(req.status)
  <2>1. req.status \in {"Pending", "InProgress"}
    BY <1>3 DEF TryCancel, IsTerminal, RequestStatuses, IInv, ClientFirst, TypeOK, StoreTypeOK
  <2> QED
    BY <1>1, <1>3, <2>1 DEF TryCancel, IInv, TypeOK, StoreTypeOK,
       Lifecycle!Next, Lifecycle!Cancel
<1> QED
  BY <1>2, <1>3

LEMMA StepMaps ==
    IInv /\ IInv' /\ [Next]_vars => [Lifecycle!Next]_<<req.status, Owed, mails>>
<1> SUFFICES ASSUME IInv, IInv', [Next]_vars
             PROVE  [Lifecycle!Next]_<<req.status, Owed, mails>>
  OBVIOUS
<1>1. CASE Quiet
  BY <1>1, QuietMaps
<1>2. CASE CreateRequest \/ SendMessage
  BY <1>2, ClientMaps
<1>3. ASSUME NEW d \in Deliveries, Claim(d) \/ AbortRequest(d)
      PROVE  [Lifecycle!Next]_<<req.status, Owed, mails>>
  BY <1>3, ClaimMaps, AbortMaps
<1>4. ASSUME NEW t \in Finishers, TryComplete(t) \/ SendEmail(t)
      PROVE  [Lifecycle!Next]_<<req.status, Owed, mails>>
  BY <1>4, TryCompleteMaps, SendEmailMaps
<1>5. ASSUME NEW c \in Callers, TryCancel(c)
      PROVE  [Lifecycle!Next]_<<req.status, Owed, mails>>
  BY <1>5, TryCancelMaps
<1> QED
  BY <1>1, <1>2, <1>3, <1>4, <1>5, QuietOrDecides

\* The archive restore is an implementation of the life a request has for its
\* user, checks and all: each step of it is a step of RequestLifecycle or
\* changes nothing there.
THEOREM Refinement == Spec => ImplementsLifecycle
<1>1. Init => Lifecycle!Init
  <2> SUFFICES ASSUME Init PROVE Lifecycle!Init
    OBVIOUS
  <2>1. \A t \in Finishers : pc[t] # "finMail"
    BY ThreadKinds DEF Init, StoreInit
  <2> QED
    BY <2>1, OwedNothing DEF Init, StoreInit, Lifecycle!Init
<1> QED
  BY <1>1, StepMaps, Invariance, PTL DEF Spec, ImplementsLifecycle, Lifecycle!Spec

\* A request that is over is not reopened; a failing delivery is the only
\* writer its outcome still has.
THEOREM NotReopened == Spec => NeverReopened
<1>1. IInv /\ IInv' /\ [Next]_vars
        => [IsTerminal(req.status) => req.status' \in {req.status, "Failed"}]_storeVars
  BY StepMaps DEF IsTerminal, TerminalRequestStatuses, Lifecycle!Next, Lifecycle!Submit,
     Lifecycle!Begin, Lifecycle!Finish, Lifecycle!Cancel, Lifecycle!Fail, Lifecycle!SendMail,
     Lifecycle!LoseMail
<1> QED
  BY <1>1, Invariance, PTL DEF Spec, NeverReopened

-----------------------------------------------------------------------------
(* No file is forgotten, when checks begin after the plan and no process   *)
(* stops: a row that waits for its hydration has a pending job, or a job   *)
(* that is about to fail it.                                               *)

\* A second call that fails is needed to throw out of a job's iteration.
FaultsTold ==
    \A t \in JobThreads : /\ caught[t] => faults >= 1
                          /\ pc[t] = "thrown" => faults >= 2

\* Checks begin when the plan is written.
PlanFirst ==
    (\E d \in Deliveries : Planning(d)) =>
       /\ \A k \in Checks : pc[k] = "idle"
       /\ \A t \in JobThreads : pc[t] = "idle"

\* Until then jobs are pending, and the row that is next is one a job was made
\* for.
PlannedJobs ==
    ~IsTerminal(req.status) =>
       \A d \in Deliveries :
          /\ Planning(d) => \A f \in Files : job[f] \in {"Absent", "RehydrationRequested"}
          /\ pc[d] = "planRow" => next[d] \in Files /\ job[next[d]] = "RehydrationRequested"

\* Rows and jobs are cancelled after the transition to Cancelled.
CancelledOver ==
    \A c \in Callers : pc[c] \in {"cancelFiles", "cancelJobs"} => IsTerminal(req.status)

\* An iteration runs inside the loop of its check.
JobPlaced ==
    faults <= 1 =>
       \A k \in Checks, f \in Files :
          pc[<<k, f>>] \notin Settled => pc[k] = "loop"

\* A job that began, failed or skipped its row finds it not waiting.
Begins == {"orphan", "already", "open", "purge", "insert", "complete", "count", "restored",
           "countFailed", "notRestored", "failCount"}
RowTaken ==
    \A k \in Checks, f \in Files : pc[<<k, f>>] \in Begins => file[f] # "Pending"

RowBegun == \A f \in Files : file[f] = "Processing" => ~hydrate[f]

\* A job that fails takes its row with it.
Fails == {"failJob", "failRead", "failRow"}
Covered ==
    ~IsTerminal(req.status) /\ faults <= 1 =>
       \A f \in Files :
          file[f] = "Pending" /\ hydrate[f] =>
             \/ job[f] = "RehydrationRequested"
             \/ \E k \in Checks : pc[<<k, f>>] \in Fails

WInv ==
    /\ FaultsTold
    /\ PlanFirst
    /\ PlannedJobs
    /\ CancelledOver
    /\ JobPlaced
    /\ RowTaken
    /\ RowBegun
    /\ Covered

\* The setting of these theorems.
Orderly == EarlyChecks = FALSE /\ MaxCrashes = 0

LEMMA NoCrash == ASSUME Orderly, TypeOK, NEW p PROVE ~Crash(p)
BY DEF Orderly, Crash, TypeOK, StoreTypeOK

LEMMA StaysOver ==
    ASSUME IInv, IInv', [Next]_vars, IsTerminal(req.status)
    PROVE  IsTerminal(req.status')
BY StepMaps DEF IsTerminal, TerminalRequestStatuses, Lifecycle!Next, Lifecycle!Submit,
     Lifecycle!Begin, Lifecycle!Finish, Lifecycle!Cancel, Lifecycle!Fail, Lifecycle!SendMail,
     Lifecycle!LoseMail

\* A step beside the checks: it moves none of their threads.
JobsStill ==
    /\ caught' = caught /\ faults' \in Nat /\ faults' >= faults
    /\ \A k \in Checks : pc'[k] = pc[k]
    /\ \A t \in JobThreads : pc'[t] = pc[t]

\* It makes a row wait only while planning, with a job.
RowAside(f) ==
    /\ file'[f] = "Pending" => file[f] = "Pending" \/ \E d \in Deliveries : Planning(d)
    /\ file'[f] = "Processing" => ~hydrate'[f]
    /\ ~IsTerminal(req.status') =>
          /\ job[f] = "RehydrationRequested" => job'[f] = "RehydrationRequested"
          /\ file'[f] = "Pending" /\ hydrate'[f] =>
                (file[f] = "Pending" /\ hydrate[f]) \/ job'[f] = "RehydrationRequested"

Aside ==
    /\ JobsStill
    /\ \A f \in Files : RowAside(f)
    /\ \A d \in Deliveries : Planning(d)' => Planning(d) \/ ~Begun

LEMMA AsideKeeps ==
    ASSUME IInv, WInv, Aside, PlannedJobs', CancelledOver', TypeOK,
           IsTerminal(req.status) => IsTerminal(req.status')
    PROVE  WInv'
<1>0. faults \in Nat
  BY DEF TypeOK, StoreTypeOK
<1>1. FaultsTold'
  BY <1>0 DEF WInv, FaultsTold, Aside, JobsStill
<1>2. PlanFirst'
  BY DEF WInv, PlanFirst, Aside, JobsStill, IInv, ClaimFirst
<1>3. JobPlaced'
  <2>1. faults' <= 1 => faults <= 1
    BY <1>0 DEF Aside, JobsStill
  <2>2. \A k \in Checks, f \in Files : pc'[k] = pc[k] /\ pc'[<<k, f>>] = pc[<<k, f>>]
    BY ArchiveThreads DEF Aside, JobsStill
  <2> QED
    BY <2>1, <2>2 DEF WInv, JobPlaced
<1>4. RowTaken'
  <2> SUFFICES ASSUME NEW k \in Checks, NEW f \in Files, pc'[<<k, f>>] \in Begins
               PROVE  file'[f] # "Pending"
    BY DEF RowTaken
  <2>1. pc[<<k, f>>] \in Begins /\ <<k, f>> \in JobThreads
    BY ArchiveThreads DEF Aside, JobsStill
  <2>2. file[f] # "Pending" /\ ~\E d \in Deliveries : Planning(d)
    BY <2>1 DEF WInv, RowTaken, PlanFirst, Begins
  <2> QED
    BY <2>2 DEF Aside, RowAside
<1>5. RowBegun'
  BY DEF RowBegun, Aside, RowAside
<1>6. Covered'
  <2> SUFFICES ASSUME ~IsTerminal(req.status'), faults' <= 1, NEW f \in Files,
                      file'[f] = "Pending", hydrate'[f]
               PROVE  \/ job'[f] = "RehydrationRequested"
                      \/ \E k \in Checks : pc'[<<k, f>>] \in Fails
    BY DEF Covered, IsTerminal
  <2>1. ~IsTerminal(req.status) /\ faults <= 1
    BY <1>0 DEF Aside, JobsStill
  <2>2. CASE file[f] = "Pending" /\ hydrate[f]
    <3>1. job[f] = "RehydrationRequested" \/ \E k \in Checks : pc[<<k, f>>] \in Fails
      BY <2>1, <2>2 DEF WInv, Covered
    <3>2. \A k \in Checks : pc'[<<k, f>>] = pc[<<k, f>>]
      BY ArchiveThreads DEF Aside, JobsStill
    <3> QED
      BY <3>1, <3>2 DEF Aside, RowAside
  <2> QED
    BY <2>2 DEF Aside, RowAside
<1> QED
  BY <1>1, <1>2, <1>3, <1>4, <1>5, <1>6 DEF WInv

\* Threads other than those of checks leave these alone.
LEMMA OthersStill ==
    ASSUME TypeOK, NEW t \in Deliveries \cup Callers \cup (Deliveries \X Files), NEW label,
           Goto(t, label) \/ UNCHANGED pc,
           UNCHANGED caught, faults' = faults \/ faults' = faults + 1
    PROVE  JobsStill
<1>1. t \in Threads /\ t \notin Checks /\ t \notin JobThreads
  BY ArchiveThreads
<1>2. \A u \in Threads : u # t => pc'[u] = pc[u]
  BY <1>1, GotoPlaces
<1>3. faults \in Nat
  BY DEF TypeOK, StoreTypeOK
<1> QED
  BY <1>1, <1>2, <1>3, ArchiveThreads DEF JobsStill

\* A step that leaves rows, jobs, deliveries and calls where they are.
LEMMA StillPlanned ==
    ASSUME IInv, WInv, IsTerminal(req.status) => IsTerminal(req.status'),
           \A d \in Deliveries : pc'[d] = pc[d],
           next' = next,
           ~IsTerminal(req.status') => job' = job
    PROVE  PlannedJobs' /\ \A d \in Deliveries : Planning(d)' => Planning(d)
<1>1. \A d \in Deliveries : Planning(d)' <=> Planning(d)
  BY DEF Planning
<1>2. ASSUME ~IsTerminal(req.status') PROVE job' = job /\ ~IsTerminal(req.status)
  BY <1>2
<1>3. PlannedJobs'
  BY <1>1, <1>2 DEF WInv, PlannedJobs, IsTerminal
<1> QED
  BY <1>1, <1>3

LEMMA CallersStill ==
    ASSUME WInv, IsTerminal(req.status) => IsTerminal(req.status'),
           \A c \in Callers : pc'[c] = pc[c]
    PROVE  CancelledOver'
BY DEF WInv, CancelledOver, IsTerminal

\* The client, blobs and time.
LEMMA WorldAside ==
    ASSUME IInv, WInv, IsTerminal(req.status) => IsTerminal(req.status'),
           UNCHANGED <<file, hydrate, job, pc, caught, faults, next>>
    PROVE  Aside /\ PlannedJobs' /\ CancelledOver'
<1>1. faults \in Nat
  BY DEF IInv, TypeOK, StoreTypeOK
<1>2. \A f \in Files : RowAside(f)
  BY DEF RowAside, WInv, RowBegun
<1>3. JobsStill
  BY <1>1 DEF JobsStill
<1> QED
  BY <1>2, <1>3, StillPlanned, CallersStill DEF Aside

\* The steps of a delivery that write no row and no job.
LEMMA DeliverAside ==
    ASSUME IInv, WInv, IsTerminal(req.status) => IsTerminal(req.status'),
           NEW d \in Deliveries,
           \/ Claim(d) \/ UpdateTotal(d) \/ LoadReadable(d) \/ EndLoop(d) \/ Finalize(d)
           \/ AbortRequest(d) \/ DeliveryThrows(d),
           UNCHANGED pollVars
    PROVE  Aside /\ PlannedJobs' /\ CancelledOver'
<1> USE DEF requestVars, fileVars, dataVars, worldVars, localVars, pollVars
<1>0. faults \in Nat /\ TypeOK
  BY DEF IInv, TypeOK, StoreTypeOK
<1>1. UNCHANGED <<file, hydrate, job, caught, next>>
  BY DEF Claim, UpdateTotal, LoadReadable, LoadWork, EndLoop, JoinLoop, Finalize, ReadRequest,
     ReadFiles, WriteCounters, TryComplete, SendEmail, AbortRequest, DeliveryThrows, LoseEmail,
     Throw
<1>2. faults' = faults \/ faults' = faults + 1
  BY DEF Claim, UpdateTotal, LoadReadable, LoadWork, EndLoop, JoinLoop, Finalize, ReadRequest,
     ReadFiles, WriteCounters, TryComplete, SendEmail, AbortRequest, DeliveryThrows, LoseEmail,
     Throw
<1>3. \A f \in Files : RowAside(f)
  BY <1>1 DEF RowAside, WInv, RowBegun
<1>4. /\ \A u \in Threads : u # d /\ u \notin {d} \X Files => pc'[u] = pc[u]
      /\ Planning(d)' => Planning(d) \/ ~Begun
      /\ pc'[d] # "planRow"
  <2>1. CASE LoadReadable(d)
    <3>1. pc'[d] = "loop"
      BY <2>1, ArchiveThreads DEF LoadReadable, LoadWork
    <3>2. \A u \in Threads : u # d /\ u \notin {d} \X Files => pc'[u] = pc[u]
      BY <2>1 DEF LoadReadable, LoadWork
    <3>3. ~Planning(d)'
      BY <3>1 DEF Planning
    <3> QED
      BY <3>1, <3>2, <3>3
  <2>2. CASE Claim(d)
    <3>1. Goto(d, "done") \/ (Goto(d, "reset") /\ Claimable)
      BY <2>2 DEF Claim
    <3>2. Claimable => ~Begun
      BY DEF Claimable, Begun, IInv, TypeOK, StoreTypeOK, RequestStatuses
    <3>3. \A u \in Threads : u # d => pc'[u] = pc[u]
      BY <1>0, <3>1, GotoPlaces, ArchiveThreads
    <3>4. pc'[d] = "done" \/ (pc'[d] = "reset" /\ ~Begun)
      BY <1>0, <3>1, <3>2, GotoPlaces, ArchiveThreads
    <3> QED
      BY <3>3, <3>4 DEF Planning
  <2>3. CASE ~LoadReadable(d) /\ ~Claim(d)
    <3>1. PICK label \in {"load", "abort", "finRead", "done", "finFiles", "finCount", "finTry",
                          "finMail"} : Goto(d, label)
      BY <2>3 DEF UpdateTotal, EndLoop, JoinLoop, Finalize, ReadRequest, ReadFiles, WriteCounters,
         TryComplete, SendEmail, AbortRequest, DeliveryThrows, LoseEmail, Throw
    <3>2. \A u \in Threads : pc'[u] = IF u = d THEN label ELSE pc[u]
      BY <1>0, <3>1, GotoPlaces, ArchiveThreads
    <3> QED
      BY <3>2, ArchiveThreads DEF Planning
  <2> QED
    BY <2>1, <2>2, <2>3
<1>5. \A u \in {d} \X Files : /\ u \notin Deliveries /\ u \notin Checks
                              /\ u \notin JobThreads /\ u \notin Callers
  BY ArchiveThreads
<1>6. JobsStill
  BY <1>0, <1>1, <1>2, <1>4, <1>5, ArchiveThreads DEF JobsStill
<1>7. \A e \in Deliveries : e # d => pc'[e] = pc[e]
  BY <1>4, <1>5, ArchiveThreads
<1>8. \A e \in Deliveries : Planning(e)' => Planning(e) \/ ~Begun
  BY <1>4, <1>7 DEF Planning
<1>9. PlannedJobs'
  <2> SUFFICES ASSUME ~IsTerminal(req.status'), NEW e \in Deliveries
               PROVE  /\ Planning(e)' => \A f \in Files : job'[f] \in {"Absent", "RehydrationRequested"}
                      /\ pc'[e] = "planRow" => next'[e] \in Files /\ job'[next'[e]] = "RehydrationRequested"
    BY DEF PlannedJobs, IsTerminal
  <2>1. ~IsTerminal(req.status)
    OBVIOUS
  <2>2. Planning(e)' => \A f \in Files : job'[f] \in {"Absent", "RehydrationRequested"}
    <3>1. Planning(e) => \A f \in Files : job[f] \in {"Absent", "RehydrationRequested"}
      BY <2>1 DEF WInv, PlannedJobs
    <3>2. ~Begun => \A f \in Files : job[f] = "Absent"
      BY DEF IInv, ClaimFirst
    <3> QED
      BY <1>1, <1>8, <3>1, <3>2
  <2>3. pc'[e] = "planRow" => pc[e] = "planRow"
    BY <1>4, <1>7
  <2>4. pc[e] = "planRow" => next[e] \in Files /\ job[next[e]] = "RehydrationRequested"
    BY <2>1 DEF WInv, PlannedJobs
  <2> QED
    BY <1>1, <2>2, <2>3, <2>4
<1>10. CancelledOver'
  <2>1. \A c \in Callers : pc'[c] = pc[c]
    BY <1>4, <1>5, ArchiveThreads
  <2> QED
    BY <2>1, CallersStill
<1> QED
  BY <1>3, <1>6, <1>8, <1>9, <1>10 DEF Aside

\* The steps of the plan.
LEMMA PlanAside ==
    ASSUME IInv, WInv, IsTerminal(req.status) => IsTerminal(req.status'),
           NEW d \in Deliveries,
           \/ ResetStuck(d) /\ UNCHANGED pollVars
           \/ PlanFile(d) \/ PlanArchivedRow(d)
    PROVE  Aside /\ PlannedJobs' /\ CancelledOver'
<1> USE DEF requestVars, fileVars, dataVars, worldVars, localVars, pollVars
<1> DEFINE g == next[d]
<1>0. /\ TypeOK /\ file \in [Files -> FileStatuses] /\ job \in [Files -> JobStatuses]
      /\ hydrate \in [Files -> BOOLEAN] /\ next \in [Deliveries -> Nat \ {0}]
  BY DEF IInv, TypeOK, StoreTypeOK
<1>1. Planning(d) /\ Executing(d) /\ UNCHANGED <<req, caught, faults>>
  BY DEF ResetStuck, PlanFile, PlanArchivedRow, Planning, Executing
<1>2. PICK label : Goto(d, label) \/ UNCHANGED pc
  BY DEF ResetStuck, PlanFile, PlanArchivedRow
<1>3. JobsStill
  BY <1>0, <1>1, <1>2, OthersStill
<1>4. \A u \in Threads : u # d => pc'[u] = pc[u]
  BY <1>0, <1>2, GotoPlaces, ArchiveThreads
<1>5. \A e \in Deliveries : Planning(e)' => Planning(e)
  BY <1>1, <1>4, ArchiveThreads DEF Planning
<1>6. PlanFile(d) => g \in Files
  BY <1>0, StoreAssumption DEF PlanFile, Files
<1>7. ~IsTerminal(req.status) => \A f \in Files : job[f] \in {"Absent", "RehydrationRequested"}
  BY <1>1 DEF WInv, PlannedJobs
<1>8. ~IsTerminal(req.status) /\ PlanArchivedRow(d) => job[g] = "RehydrationRequested" /\ g \in Files
  BY DEF WInv, PlannedJobs, PlanArchivedRow
<1>9. \A f \in Files : RowAside(f)
  <2> SUFFICES ASSUME NEW f \in Files PROVE RowAside(f)
    OBVIOUS
  <2>1. CASE ResetStuck(d) /\ UNCHANGED pollVars
    <3>1. file'[f] = (IF file[f] = "Processing" THEN "Pending" ELSE file[f])
          /\ hydrate' = hydrate /\ job' = job
      BY <2>1 DEF ResetStuck
    <3>2. file[f] = "Processing" => ~hydrate[f]
      BY DEF WInv, RowBegun
    <3> QED
      BY <1>1, <3>1, <3>2 DEF RowAside
  <2>2. CASE PlanFile(d)
    <3>1. \/ file' = file /\ hydrate' = hydrate /\ job' = job
          \/ /\ file' = [file EXCEPT ![g] = "Pending"] /\ hydrate' = [hydrate EXCEPT ![g] = FALSE]
             /\ job' = job
          \/ /\ file' = file /\ hydrate' = hydrate
             /\ job' = [job EXCEPT ![g] = IF @ = "Absent" THEN "RehydrationRequested" ELSE @]
      BY <2>2 DEF PlanFile
    <3>2. file[f] = "Processing" => ~hydrate[f]
      BY DEF WInv, RowBegun
    <3>3. job[f] = "RehydrationRequested" => job'[f] = "RehydrationRequested"
      BY <1>0, <3>1
    <3>4. /\ file'[f] = "Processing" => ~hydrate'[f]
          /\ file'[f] = "Pending" /\ hydrate'[f] => file[f] = "Pending" /\ hydrate[f]
      BY <1>0, <1>6, <2>2, <3>1, <3>2
    <3> QED
      BY <1>1, <3>3, <3>4 DEF RowAside
  <2>3. CASE PlanArchivedRow(d)
    <3>1. /\ file' = [file EXCEPT ![g] = "Pending"] /\ hydrate' = [hydrate EXCEPT ![g] = TRUE]
          /\ job' = job
      BY <2>3 DEF PlanArchivedRow
    <3>2. file[f] = "Processing" => ~hydrate[f]
      BY DEF WInv, RowBegun
    <3>3. CASE f = g
      BY <1>0, <1>1, <1>8, <2>3, <3>1, <3>3 DEF RowAside
    <3>4. CASE f # g
      BY <1>0, <1>1, <3>1, <3>2, <3>4 DEF RowAside
    <3> QED
      BY <3>3, <3>4
  <2> QED
    BY <2>1, <2>2, <2>3
<1>10. PlannedJobs'
  <2> SUFFICES ASSUME ~IsTerminal(req.status'), NEW e \in Deliveries
               PROVE  /\ Planning(e)' => \A f \in Files : job'[f] \in {"Absent", "RehydrationRequested"}
                      /\ pc'[e] = "planRow" => next'[e] \in Files /\ job'[next'[e]] = "RehydrationRequested"
    BY DEF PlannedJobs, IsTerminal
  <2>1. ~IsTerminal(req.status)
    OBVIOUS
  <2>2. \A f \in Files : job'[f] \in {"Absent", "RehydrationRequested"}
    <3>1. job' = job \/ job' = [job EXCEPT ![g] = IF @ = "Absent" THEN "RehydrationRequested" ELSE @]
      BY DEF ResetStuck, PlanFile, PlanArchivedRow
    <3> QED
      BY <1>0, <1>7, <2>1, <3>1
  <2>3. ASSUME pc'[e] = "planRow"
        PROVE  next'[e] \in Files /\ job'[next'[e]] = "RehydrationRequested"
    <3>1. e = d
      <4>1. Executing(e)' => e = d \/ Executing(e)
        BY <1>4, ArchiveThreads DEF Executing
      <4>2. Executing(e)'
        BY <2>3 DEF Executing
      <4> QED
        BY <1>1, <4>1, <4>2 DEF IInv, SingleExecution
    <3>2. pc[d] \in {"reset", "plan", "planRow"} /\ d \in Threads
      BY <1>1, ArchiveThreads DEF Planning
    <3>3. CASE ResetStuck(d) \/ PlanArchivedRow(d)
      <4>1. pc'[d] = "plan"
        BY <1>0, <3>2, <3>3, GotoPlaces DEF ResetStuck, PlanArchivedRow
      <4> QED
        BY <2>3, <3>1, <4>1
    <3>4. CASE PlanFile(d)
      <4>1. pc[d] = "plan"
        BY <3>4 DEF PlanFile
      <4>2. next' = next /\ job' = [job EXCEPT ![g] = IF @ = "Absent" THEN "RehydrationRequested" ELSE @]
        BY <2>3, <3>1, <3>4, <4>1 DEF PlanFile
      <4>3. job'[g] = "RehydrationRequested"
        BY <1>0, <1>6, <1>7, <2>1, <3>4, <4>2
      <4> QED
        BY <1>6, <3>1, <3>4, <4>2, <4>3
    <3> QED
      BY <3>3, <3>4
  <2> QED
    BY <2>2, <2>3
<1>11. CancelledOver'
  BY <1>4, ArchiveThreads, CallersStill
<1> QED
  BY <1>3, <1>5, <1>9, <1>10, <1>11 DEF Aside

\* The body of a delivery's loop.
LEMMA BodyAside ==
    ASSUME IInv, WInv, IsTerminal(req.status) => IsTerminal(req.status'),
           NEW d \in Deliveries, NEW f \in Files,
           RestoreFile(d, f) \/ (FileThrows(d, f) /\ UNCHANGED pollVars)
    PROVE  Aside /\ PlannedJobs' /\ CancelledOver'
<1> DEFINE t == <<d, f>>
<1>0. RestoreFile(d, f) =>
         \/ /\ MarkProcessing(t) \/ CompleteFile(t) \/ RecordFailure(t)
            /\ Hydrated(t) /\ UNCHANGED <<overdue, caught>>
         \/ /\ \/ StartFile(d, f) \/ CheckCancelled(d, f) \/ OpenBlob(t, "notFound")
               \/ PurgeStale(t) \/ InsertBatch(t)
               \/ CountFile(t, "done") \/ CountFailed(t, "countFailed", "done")
            /\ UNCHANGED pollVars
  BY Zenon DEF RestoreFile
<1> USE DEF requestVars, fileVars, dataVars, worldVars, localVars, pollVars
<1>1. UNCHANGED <<job, next, caught>> /\ (faults' = faults \/ faults' = faults + 1)
  BY <1>0 DEF StartFile, StartBody, CheckCancelled, MarkProcessing, OpenBlob, PurgeStale,
     InsertBatch, CompleteFile, CountFile, RecordFailure, CountFailed, FileThrows, Throw
<1>2. PICK label : Goto(t, label)
  BY <1>0 DEF StartFile, StartBody, CheckCancelled, MarkProcessing, OpenBlob, PurgeStale,
     InsertBatch, CompleteFile, CountFile, RecordFailure, CountFailed, FileThrows, Throw
<1>3. /\ TypeOK /\ file \in [Files -> FileStatuses] /\ hydrate \in [Files -> BOOLEAN]
  BY DEF IInv, TypeOK, StoreTypeOK
<1>4. JobsStill
  BY <1>1, <1>2, <1>3, OthersStill
<1>5. \A u \in Threads : u # t => pc'[u] = pc[u]
  BY <1>2, <1>3, GotoPlaces, ArchiveThreads
<1>6. \/ UNCHANGED <<file, hydrate>>
      \/ /\ \E status \in {"Processing", "Completed", "Failed", "FileNotFound"} :
               file' = [file EXCEPT ![f] = status]
         /\ hydrate' = [hydrate EXCEPT ![f] = FALSE]
  <2>1. CASE (MarkProcessing(t) \/ CompleteFile(t) \/ RecordFailure(t)) /\ Hydrated(t)
    BY <2>1 DEF MarkProcessing, CompleteFile, RecordFailure, WriteFile, Hydrated
  <2>2. CASE (\/ StartFile(d, f) \/ CheckCancelled(d, f) \/ OpenBlob(t, "notFound")
              \/ PurgeStale(t) \/ InsertBatch(t)
              \/ CountFile(t, "done") \/ CountFailed(t, "countFailed", "done"))
             /\ UNCHANGED pollVars
    BY <2>2 DEF StartFile, StartBody, CheckCancelled, OpenBlob, PurgeStale,
       InsertBatch, CountFile, CountFailed
  <2>3. CASE FileThrows(d, f) /\ UNCHANGED pollVars
    BY <2>3 DEF FileThrows, Throw
  <2> QED
    BY <1>0, <2>1, <2>2, <2>3
<1>7. \A g \in Files : RowAside(g)
  <2> SUFFICES ASSUME NEW g \in Files PROVE RowAside(g)
    OBVIOUS
  <2>1. file[g] = "Processing" => ~hydrate[g]
    BY DEF WInv, RowBegun
  <2>2. \/ file'[g] = file[g] /\ hydrate'[g] = hydrate[g]
        \/ file'[g] # "Pending" /\ hydrate'[g] = FALSE
    BY <1>3, <1>6
  <2> QED
    BY <1>1, <2>1, <2>2 DEF RowAside
<1>8. \A u \in Deliveries \cup Callers : pc'[u] = pc[u]
  BY <1>5, ArchiveThreads
<1> QED
  BY <1>1, <1>4, <1>7, <1>8, StillPlanned, CallersStill DEF Aside

\* A call of the cancel endpoint.
LEMMA CancelAside ==
    ASSUME IInv, WInv, IsTerminal(req.status) => IsTerminal(req.status'),
           NEW c \in Callers, CancelRestore(c) \/ CancelThrows(c), UNCHANGED pollVars
    PROVE  Aside /\ PlannedJobs' /\ CancelledOver'
<1> USE DEF requestVars, fileVars, dataVars, worldVars, localVars, pollVars
<1>1. UNCHANGED <<next, caught, hydrate>> /\ (faults' = faults \/ faults' = faults + 1)
  BY DEF CancelRestore, ReadBeforeCancel, TryCancel, CancelFiles, CancelJobs, DropTraces, DropLogs,
     CancelThrows, Throw
<1>2. PICK label : Goto(c, label)
  BY DEF CancelRestore, ReadBeforeCancel, TryCancel, CancelFiles, CancelJobs, DropTraces, DropLogs,
     CancelThrows, Throw
<1>3. TypeOK
  BY DEF IInv
<1>4. JobsStill
  BY <1>1, <1>2, <1>3, OthersStill
<1>5. \A u \in Threads : pc'[u] = IF u = c THEN label ELSE pc[u]
  BY <1>2, <1>3, GotoPlaces, ArchiveThreads
<1>6. ~IsTerminal(req.status') => job' = job
  BY DEF CancelRestore, ReadBeforeCancel, TryCancel, CancelFiles, CancelJobs, DropTraces, DropLogs,
     CancelThrows, Throw, WInv, CancelledOver
<1>7. \A f \in Files : file'[f] = file[f] \/ file'[f] = "Cancelled"
  BY DEF CancelRestore, ReadBeforeCancel, TryCancel, CancelFiles, CancelJobs, DropTraces, DropLogs,
     CancelThrows, Throw
<1>8. \A f \in Files : RowAside(f)
  BY <1>1, <1>6, <1>7 DEF RowAside, WInv, RowBegun
<1>9. \A d \in Deliveries : pc'[d] = pc[d]
  BY <1>5, ArchiveThreads
<1>10. CancelledOver'
  <2>1. CASE TryCancel(c)
    <3>1. IsTerminal(req.status') \/ label = "refused"
      <4>1. CASE ~IsTerminal(req.status)
        <5>1. req'.status = "Cancelled"
          BY <2>1, <4>1, <1>3 DEF TryCancel, TypeOK, StoreTypeOK
        <5> QED
          BY <5>1 DEF IsTerminal, TerminalRequestStatuses
      <4> QED
        BY <4>1
    <3>2. CASE IsTerminal(req.status')
      BY <3>2 DEF CancelledOver, IsTerminal
    <3>3. CASE label = "refused"
      BY <1>5, <3>3, ArchiveThreads DEF WInv, CancelledOver, IsTerminal
    <3> QED
      BY <3>1, <3>2, <3>3
  <2>2. CASE CancelFiles(c) \/ CancelJobs(c)
    <3>1. IsTerminal(req.status')
      BY <2>2 DEF CancelFiles, CancelJobs, WInv, CancelledOver
    <3> QED
      BY <3>1 DEF CancelledOver, IsTerminal
  <2>3. CASE ~TryCancel(c) /\ ~CancelFiles(c) /\ ~CancelJobs(c)
    <3>1. \E place \in {"refused", "tryCancel", "dropLogs", "cancelled", "thrown"} : Goto(c, place)
      BY <2>3 DEF CancelRestore, ReadBeforeCancel, DropTraces, DropLogs, CancelThrows, Throw
    <3>2. pc'[c] \notin {"cancelFiles", "cancelJobs"}
      BY <1>3, <3>1, GotoPlaces, ArchiveThreads
    <3>3. \A b \in Callers : b # c => pc'[b] = pc[b]
      BY <1>5, ArchiveThreads
    <3> QED
      BY <3>2, <3>3 DEF WInv, CancelledOver, IsTerminal
  <2> QED
    BY <2>1, <2>2, <2>3
<1> QED
  BY <1>1, <1>4, <1>6, <1>8, <1>9, <1>10, StillPlanned DEF Aside


\* A check begins when the plan is written, and ends when its iterations have.
LEMMA CheckKeeps ==
    ASSUME IInv, WInv, Orderly, IsTerminal(req.status) => IsTerminal(req.status'),
           NEW k \in Checks, Check(k), UNCHANGED pollVars
    PROVE  WInv'
<1> USE DEF requestVars, fileVars, dataVars, worldVars, localVars, pollVars
<1>0. faults \in Nat /\ TypeOK
  BY DEF IInv, TypeOK, StoreTypeOK
<1>1. UNCHANGED <<req, file, hydrate, job, caught, faults, next>>
  BY DEF Check, LoadJobs, LoadWork, JoinLoop
<1>2. ~\E d \in Deliveries : Planning(d)
  <2>1. CASE LoadJobs(k)
    BY <2>1 DEF LoadJobs, Orderly
  <2>2. CASE JoinLoop(k, "idle")
    BY <2>2 DEF JoinLoop, LoopEnded, WInv, PlanFirst
  <2> QED
    BY <2>1, <2>2 DEF Check
<1>3. \A u \in Threads : u # k /\ u \notin {k} \X Files => pc'[u] = pc[u]
  <2>1. CASE LoadJobs(k)
    BY <2>1 DEF LoadJobs, LoadWork
  <2>2. CASE JoinLoop(k, "idle")
    BY <1>0, <2>2, GotoPlaces, ArchiveThreads DEF JoinLoop
  <2> QED
    BY <2>1, <2>2 DEF Check
<1>4. \A u \in Deliveries \cup Callers : u # k /\ u \notin {k} \X Files /\ u \in Threads
  BY ArchiveThreads
<1>5. PlannedJobs' /\ PlanFirst' /\ CancelledOver'
  <2>1. \A u \in Deliveries \cup Callers : pc'[u] = pc[u]
    BY <1>3, <1>4
  <2>2. \A d \in Deliveries : ~Planning(d)'
    BY <1>2, <2>1 DEF Planning
  <2> QED
    BY <1>1, <2>1, <2>2, StillPlanned, CallersStill DEF PlanFirst
\* What happens to the iterations of the check itself.
<1>6. \A f \in Files : \/ pc'[<<k, f>>] = pc[<<k, f>>]
                       \/ pc'[<<k, f>>] \in {"queued", "idle"}
  <2>1. CASE LoadJobs(k)
    <3>1. \A f \in Files : <<k, f>> \in Threads /\ <<k, f>> # k /\ <<k, f>> \in {k} \X Files
      BY ArchiveThreads
    <3> QED
      BY <2>1, <3>1 DEF LoadJobs, LoadWork
  <2>2. CASE JoinLoop(k, "idle")
    BY <1>0, <2>2, GotoPlaces, ArchiveThreads DEF JoinLoop
  <2> QED
    BY <2>1, <2>2 DEF Check
<1>7. \A l \in Checks, f \in Files : \/ pc'[<<l, f>>] = pc[<<l, f>>]
                                     \/ pc'[<<l, f>>] \in {"queued", "idle"}
  <2> SUFFICES ASSUME NEW l \in Checks, NEW f \in Files, l # k
               PROVE  pc'[<<l, f>>] = pc[<<l, f>>]
    BY <1>6
  <2>1. <<l, f>> \in Threads /\ <<l, f>> # k /\ <<l, f>> \notin {k} \X Files
    BY ArchiveThreads
  <2> QED
    BY <1>3, <2>1
<1>8. FaultsTold'
  <2>1. \A t \in JobThreads : pc'[t] = "thrown" => pc[t] = "thrown"
    BY <1>7 DEF JobThreads
  <2> QED
    BY <1>1, <2>1 DEF WInv, FaultsTold
<1>9. RowTaken' /\ RowBegun'
  <2>1. \A l \in Checks, f \in Files : pc'[<<l, f>>] \in Begins => pc[<<l, f>>] \in Begins
    BY <1>7 DEF Begins
  <2> QED
    BY <1>1, <2>1 DEF WInv, RowTaken, RowBegun
<1>10. faults <= 1 /\ LoadJobs(k) => \A f \in Files : pc[<<k, f>>] \in Settled
  BY DEF LoadJobs, WInv, JobPlaced
<1>11. JobPlaced'
  <2> SUFFICES ASSUME faults <= 1, NEW l \in Checks, NEW f \in Files,
                      pc'[<<l, f>>] \notin Settled
               PROVE  pc'[l] = "loop"
    BY <1>1 DEF JobPlaced
  <2>1. CASE l # k
    <3>1. /\ <<l, f>> \in Threads /\ <<l, f>> # k /\ <<l, f>> \notin {k} \X Files
          /\ l \in Threads /\ l \notin {k} \X Files
      BY <2>1, ArchiveThreads
    <3> QED
      BY <1>3, <2>1, <3>1 DEF WInv, JobPlaced
  <2>2. CASE l = k /\ LoadJobs(k)
    <3>1. k \in Threads
      BY ArchiveThreads
    <3> QED
      BY <2>2, <3>1 DEF LoadJobs, LoadWork
  <2>3. CASE l = k /\ JoinLoop(k, "idle")
    <3>1. pc'[<<k, f>>] = pc[<<k, f>>]
      BY <1>0, <2>3, GotoPlaces, ArchiveThreads DEF JoinLoop
    <3>2. ~BodyThrew(k)
      <4> SUFFICES ASSUME NEW g \in Files, pc[<<k, g>>] = "thrown" PROVE FALSE
        BY DEF BodyThrew
      <4>1. <<k, g>> \in JobThreads
        BY ArchiveThreads
      <4>2. faults >= 2
        BY <4>1 DEF WInv, FaultsTold
      <4> QED
        BY <1>0, <4>2
    <3>3. Running(k) = {} /\ Waiting(k) = {}
      BY <2>3, <3>2 DEF JoinLoop, LoopEnded
    <3>4. pc[<<k, f>>] \in Settled
      BY <3>3 DEF Running, Waiting
    <3> QED
      BY <2>3, <3>1, <3>4
  <2> QED
    BY <2>1, <2>2, <2>3 DEF Check
<1>12. Covered'
  <2> SUFFICES ASSUME ~IsTerminal(req.status'), faults <= 1, NEW f \in Files,
                      file[f] = "Pending", hydrate[f], job[f] # "RehydrationRequested"
               PROVE  \E l \in Checks : pc'[<<l, f>>] \in Fails
    BY <1>1 DEF Covered, IsTerminal
  <2>1. PICK l \in Checks : pc[<<l, f>>] \in Fails
    BY DEF WInv, Covered
  <2>2. pc'[<<l, f>>] = pc[<<l, f>>]
    <3>1. CASE l # k
      <4>1. <<l, f>> \in Threads /\ <<l, f>> # k /\ <<l, f>> \notin {k} \X Files
        BY <3>1, ArchiveThreads
      <4> QED
        BY <1>3, <4>1
    <3>2. CASE l = k /\ LoadJobs(k)
      BY <1>10, <2>1, <3>2 DEF Fails, Settled
    <3>3. CASE l = k /\ JoinLoop(k, "idle")
      BY <1>0, <3>3, GotoPlaces, ArchiveThreads DEF JoinLoop
    <3> QED
      BY <3>1, <3>2, <3>3 DEF Check
  <2> QED
    BY <2>1, <2>2
<1> QED
  BY <1>5, <1>8, <1>9, <1>11, <1>12 DEF WInv

\* A step of the iteration <<k, f>> of a check: it moves that thread and the row
\* and job of its file.
JobMoves(k, f) ==
    LET t == <<k, f>> IN
    /\ \A u \in Threads : u # t => pc'[u] = pc[u]
    /\ next' = next /\ faults' \in Nat /\ faults' >= faults
    /\ \A u \in JobThreads : u # t => caught'[u] = caught[u]
    /\ \A g \in Files : g # f => /\ file'[g] = file[g]
                                 /\ hydrate'[g] = hydrate[g]
                                 /\ job'[g] = job[g]

\* A row that was taken or over does not wait again, and one that waits keeps
\* its job, or the job is failing it.
RowKept(k, f) ==
    LET t == <<k, f>> IN
    /\ pc'[t] \in Begins => file'[f] # "Pending"
    /\ file'[f] = "Pending" => file[f] = "Pending"
    /\ file'[f] = "Processing" => ~hydrate'[f]
    /\ file'[f] = "Pending" /\ hydrate'[f] /\ faults' <= 1 =>
          /\ hydrate[f]
          /\ \/ job'[f] = "RehydrationRequested"
             \/ pc'[t] \in Fails
             \/ job'[f] = job[f] /\ pc[t] \notin Fails

FaultKept(t) ==
    /\ caught'[t] => faults' >= 1
    /\ pc'[t] = "thrown" => faults' >= 2

LEMMA JobMovesKeeps ==
    ASSUME IInv, WInv, IsTerminal(req.status) => IsTerminal(req.status'),
           NEW k \in Checks, NEW f \in Files, pc[<<k, f>>] \notin Settled,
           JobMoves(k, f), RowKept(k, f), FaultKept(<<k, f>>)
    PROVE  WInv'
<1> DEFINE t == <<k, f>>
<1>0. faults \in Nat /\ faults' \in Nat /\ (faults' <= 1 => faults <= 1)
  BY DEF IInv, TypeOK, StoreTypeOK, JobMoves
<1>1. /\ t \in JobThreads /\ t \notin Deliveries /\ t \notin Callers /\ t \notin Checks
      /\ \A u \in Deliveries \cup Callers \cup Checks : u \in Threads
      /\ \A u \in JobThreads : u \in Threads
  BY ArchiveThreads
<1>2. ~\E d \in Deliveries : Planning(d)
  BY <1>1 DEF WInv, PlanFirst, Settled
<1>3. \A u \in Deliveries \cup Callers \cup Checks : pc'[u] = pc[u]
  BY <1>1 DEF JobMoves
<1>4. \A l \in Checks, g \in Files : l # k \/ g # f => pc'[<<l, g>>] = pc[<<l, g>>]
  BY ArchiveThreads DEF JobMoves
<1>5. FaultsTold'
  <2> SUFFICES ASSUME NEW u \in JobThreads
               PROVE  /\ caught'[u] => faults' >= 1
                      /\ pc'[u] = "thrown" => faults' >= 2
    BY DEF FaultsTold
  <2>1. CASE u = t
    BY <2>1 DEF FaultKept
  <2>2. CASE u # t
    BY <1>0, <1>1, <2>2 DEF JobMoves, WInv, FaultsTold
  <2> QED
    BY <2>1, <2>2
<1>6. PlanFirst' /\ PlannedJobs' /\ CancelledOver'
  <2>1. \A d \in Deliveries : ~Planning(d)' /\ pc'[d] # "planRow"
    BY <1>2, <1>3 DEF Planning
  <2> QED
    BY <1>3, <2>1, CallersStill DEF PlanFirst, PlannedJobs
<1>7. JobPlaced'
  <2> SUFFICES ASSUME faults' <= 1, NEW l \in Checks, NEW g \in Files,
                      pc'[<<l, g>>] \notin Settled
               PROVE  pc[l] = "loop"
    BY <1>3 DEF JobPlaced
  <2> QED
    BY <1>0, <1>4 DEF WInv, JobPlaced
<1>8. RowTaken'
  <2> SUFFICES ASSUME NEW l \in Checks, NEW g \in Files, pc'[<<l, g>>] \in Begins
               PROVE  file'[g] # "Pending"
    BY DEF RowTaken
  <2>1. CASE l = k /\ g = f
    BY <2>1 DEF RowKept
  <2>2. CASE l # k \/ g # f
    <3>1. file[g] # "Pending"
      BY <1>4, <2>2 DEF WInv, RowTaken
    <3> QED
      BY <3>1 DEF RowKept, JobMoves
  <2> QED
    BY <2>1, <2>2
<1>9. RowBegun'
  BY DEF RowBegun, WInv, RowKept, JobMoves
<1>10. Covered'
  <2> SUFFICES ASSUME ~IsTerminal(req.status'), faults' <= 1, NEW g \in Files,
                      file'[g] = "Pending", hydrate'[g]
               PROVE  \/ job'[g] = "RehydrationRequested"
                      \/ \E l \in Checks : pc'[<<l, g>>] \in Fails
    BY DEF Covered, IsTerminal
  <2>1. file[g] = "Pending" /\ hydrate[g]
    BY DEF RowKept, JobMoves
  <2>2. job[g] = "RehydrationRequested" \/ \E l \in Checks : pc[<<l, g>>] \in Fails
    BY <1>0, <2>1 DEF WInv, Covered
  <2>3. CASE g # f
    BY <1>4, <2>2, <2>3 DEF JobMoves
  <2>4. CASE g = f /\ (job'[f] = "RehydrationRequested" \/ pc'[t] \in Fails)
    BY <2>4
  <2>5. CASE g = f /\ job'[f] = job[f] /\ pc[t] \notin Fails
    BY <1>4, <2>2, <2>5
  <2> QED
    BY <2>3, <2>4, <2>5 DEF RowKept
<1> QED
  BY <1>5, <1>6, <1>7, <1>8, <1>9, <1>10 DEF WInv

\* The start of an iteration and its readings.
LEMMA JobReadsKeep ==
    ASSUME IInv, WInv, NEW k \in Checks, NEW f \in Files,
           \/ StartJob(k, f)
           \/ /\ ReadTier(<<k, f>>) \/ ReadProgress(<<k, f>>) \/ ReadFailedRow(<<k, f>>)
              /\ UNCHANGED pollVars
    PROVE  pc[<<k, f>>] \notin Settled /\ JobMoves(k, f) /\ RowKept(k, f) /\ FaultKept(<<k, f>>)
<1> DEFINE t == <<k, f>>
<1> USE DEF requestVars, fileVars, dataVars, worldVars, localVars, pollVars
<1>0. /\ TypeOK /\ faults \in Nat /\ t \in JobThreads /\ t \in Threads /\ t[2] = f
      /\ blob[f] \in {"missing", "readable", "archived"} /\ overdue[f] \in BOOLEAN
      /\ caught \in [JobThreads -> BOOLEAN]
  BY ArchiveThreads DEF IInv, TypeOK, StoreTypeOK, Tiers
<1>1. UNCHANGED <<file, hydrate, job, faults, next>>
  BY DEF StartJob, StartBody, ReadTier, ReadProgress, ReadFailedRow
<1>2. /\ caught'[t] => caught[t]
      /\ \A u \in JobThreads : u # t => caught'[u] = caught[u]
  BY <1>0 DEF StartJob, ReadTier, ReadProgress, ReadFailedRow
<1>3. PICK label : Goto(t, label)
  BY DEF StartJob, StartBody, ReadTier, ReadProgress, ReadFailedRow
<1>4. \A u \in Threads : pc'[u] = IF u = t THEN label ELSE pc[u]
  BY <1>0, <1>3, GotoPlaces
<1>5. pc[t] \in {"queued", "tier", "progress", "failRead"}
  BY DEF StartJob, StartBody, ReadTier, ReadProgress, ReadFailedRow
<1>6. JobMoves(k, f)
  BY <1>0, <1>1, <1>2, <1>4 DEF JobMoves
<1>7. FaultKept(t) \/ pc'[t] = "thrown"
  BY <1>0, <1>1, <1>2 DEF FaultKept, WInv, FaultsTold
<1>8. /\ pc'[t] # "thrown"
      /\ pc'[t] \in Begins => file[f] # "Pending"
      /\ \/ pc[t] \notin Fails \/ pc'[t] \in Fails \/ file[f] # "Pending"
  <2>1. CASE StartJob(k, f)
    <3>1. pc'[t] = "tier" /\ pc[t] = "queued"
      BY <1>0, <2>1, GotoPlaces DEF StartJob, StartBody
    <3> QED
      BY <3>1 DEF Begins, Fails
  <2>2. CASE ReadTier(t)
    <3>1. pc'[t] \in {"progress", "wait", "failJob"} /\ pc[t] = "tier"
      BY <1>0, <2>2, GotoPlaces DEF ReadTier
    <3> QED
      BY <3>1 DEF Begins, Fails
  <2>3. CASE ReadProgress(t)
    <3>1. pc[t] = "progress"
          /\ \/ pc'[t] = "orphan" /\ file[f] = "Absent"
             \/ pc'[t] = "already" /\ Over(f)
             \/ pc'[t] = "mark"
      BY <1>0, <2>3, GotoPlaces DEF ReadProgress
    <3> QED
      BY <3>1 DEF Begins, Fails, Over
  <2>4. CASE ReadFailedRow(t)
    <3>1. \/ pc'[t] = "finRead" /\ (file[f] = "Absent" \/ Over(f))
          \/ pc'[t] = "failRow"
      BY <1>0, <2>4, GotoPlaces DEF ReadFailedRow
    <3> QED
      BY <3>1 DEF Begins, Fails, Over
  <2> QED
    BY <2>1, <2>2, <2>3, <2>4
<1>9. file[f] = "Processing" => ~hydrate[f]
  BY DEF WInv, RowBegun
<1> QED
  BY <1>1, <1>5, <1>6, <1>7, <1>8, <1>9 DEF RowKept, Settled

\* The steps that write the row: it does not wait afterwards.
LEMMA JobRowKeeps ==
    ASSUME IInv, WInv, NEW k \in Checks, NEW f \in Files,
           \/ FailRow(<<k, f>>)
           \/ /\ MarkProcessing(<<k, f>>) \/ CompleteFile(<<k, f>>) \/ RecordFailure(<<k, f>>)
              /\ Hydrated(<<k, f>>) /\ UNCHANGED <<overdue, caught>>
    PROVE  pc[<<k, f>>] \notin Settled /\ JobMoves(k, f) /\ RowKept(k, f) /\ FaultKept(<<k, f>>)
<1> DEFINE t == <<k, f>>
<1> USE DEF requestVars, fileVars, dataVars, worldVars, localVars
<1>0. /\ TypeOK /\ faults \in Nat /\ t \in JobThreads /\ t \in Threads /\ t[2] = f
      /\ file \in [Files -> FileStatuses] /\ hydrate \in [Files -> BOOLEAN]
  BY ArchiveThreads DEF IInv, TypeOK, StoreTypeOK
<1>1. UNCHANGED <<job, caught, faults, next>>
  BY DEF FailRow, MarkProcessing, CompleteFile, RecordFailure
<1>2. PICK label \in {"failCount", "open", "count", "countFailed"} : Goto(t, label)
  BY DEF FailRow, MarkProcessing, CompleteFile, RecordFailure
<1>3. \A u \in Threads : pc'[u] = IF u = t THEN label ELSE pc[u]
  BY <1>0, <1>2, GotoPlaces
<1>4. pc[t] \in {"failRow", "mark", "complete", "failing", "notFound"}
  BY DEF FailRow, MarkProcessing, CompleteFile, RecordFailure
<1>5. PICK status \in {"Processing", "Completed", "Failed", "FileNotFound"}, needs \in BOOLEAN :
         /\ file' = [file EXCEPT ![f] = status]
         /\ hydrate' = [hydrate EXCEPT ![f] = needs]
         /\ status = "Processing" => ~needs
  BY <1>0 DEF FailRow, MarkProcessing, CompleteFile, RecordFailure, WriteFile, Hydrated
<1>6. /\ file'[f] = status /\ hydrate'[f] = needs
      /\ \A g \in Files : g # f => file'[g] = file[g] /\ hydrate'[g] = hydrate[g]
  BY <1>0, <1>5
<1>7. JobMoves(k, f)
  BY <1>0, <1>1, <1>3, <1>6 DEF JobMoves
<1>8. FaultKept(t)
  BY <1>0, <1>1, <1>2, <1>3 DEF FaultKept, WInv, FaultsTold
<1> QED
  BY <1>4, <1>5, <1>6, <1>7, <1>8 DEF RowKept, Settled

\* The steps that write the job.
LEMMA JobStatusKeeps ==
    ASSUME IInv, WInv, NEW k \in Checks, NEW f \in Files, UNCHANGED pollVars,
           \/ WriteJob(<<k, f>>, "wait", "RehydrationRequested", "done")
           \/ WriteJob(<<k, f>>, "orphan", "Failed", "finRead")
           \/ WriteJob(<<k, f>>, "already", "Ready", "finRead")
           \/ WriteJob(<<k, f>>, "restored", "Ready", "finRead")
           \/ WriteJob(<<k, f>>, "notRestored", "Failed", "finRead")
           \/ WriteJob(<<k, f>>, "failJob", "Failed", "failRead")
    PROVE  pc[<<k, f>>] \notin Settled /\ JobMoves(k, f) /\ RowKept(k, f) /\ FaultKept(<<k, f>>)
<1> DEFINE t == <<k, f>>
<1> USE DEF requestVars, fileVars, dataVars, worldVars, localVars, pollVars
<1>0. /\ TypeOK /\ faults \in Nat /\ t \in JobThreads /\ t \in Threads /\ t[2] = f
      /\ job \in [Files -> JobStatuses]
  BY ArchiveThreads DEF IInv, TypeOK, StoreTypeOK
<1>1. UNCHANGED <<file, hydrate, caught, faults, next>>
  BY DEF WriteJob
<1>2. PICK label \in {"done", "finRead", "failRead"}, status \in JobStatuses :
         Goto(t, label) /\ job' = [job EXCEPT ![f] = status]
  BY <1>0 DEF WriteJob, JobStatuses
<1>3. \A u \in Threads : pc'[u] = IF u = t THEN label ELSE pc[u]
  BY <1>0, <1>2, GotoPlaces
<1>4. JobMoves(k, f)
  BY <1>0, <1>1, <1>2, <1>3 DEF JobMoves
<1>5. FaultKept(t)
  BY <1>0, <1>1, <1>2, <1>3 DEF FaultKept, WInv, FaultsTold
<1>6. /\ pc[t] \in {"wait", "failJob"} \cup Begins
      /\ pc[t] = "wait" => job'[f] = "RehydrationRequested"
      /\ pc[t] = "failJob" => pc'[t] = "failRead"
  <2>1. CASE WriteJob(t, "wait", "RehydrationRequested", "done")
    BY <1>0, <2>1 DEF WriteJob
  <2>2. CASE WriteJob(t, "failJob", "Failed", "failRead")
    BY <1>0, <2>2, GotoPlaces DEF WriteJob
  <2>3. CASE pc[t] \in {"orphan", "already", "restored", "notRestored"}
    BY <2>3 DEF Begins
  <2> QED
    BY <2>1, <2>2, <2>3 DEF WriteJob
<1>7. pc[t] \in Begins => file[f] # "Pending"
  BY DEF WInv, RowTaken
<1>8. file[f] = "Processing" => ~hydrate[f]
  BY DEF WInv, RowBegun
<1>9. pc'[t] \notin Begins
  BY <1>0, <1>3 DEF Begins
<1>10. RowKept(k, f)
  BY <1>1, <1>6, <1>7, <1>8, <1>9 DEF RowKept, Fails
<1> QED
  BY <1>4, <1>5, <1>6, <1>10 DEF Settled, Begins

\* The steps in between, which write neither row nor job.
LEMMA JobWorkKeeps ==
    ASSUME IInv, WInv, NEW k \in Checks, NEW f \in Files, UNCHANGED pollVars,
           \/ OpenBlob(<<k, f>>, "failing") \/ PurgeStale(<<k, f>>) \/ InsertBatch(<<k, f>>)
           \/ CountFile(<<k, f>>, "restored") \/ CountFailed(<<k, f>>, "countFailed", "notRestored")
           \/ CountFailed(<<k, f>>, "failCount", "finRead") \/ Finalize(<<k, f>>)
    PROVE  pc[<<k, f>>] \notin Settled /\ JobMoves(k, f) /\ RowKept(k, f) /\ FaultKept(<<k, f>>)
<1> DEFINE t == <<k, f>>
<1> USE DEF requestVars, fileVars, dataVars, worldVars, localVars, pollVars
<1>0. TypeOK /\ faults \in Nat /\ t \in JobThreads /\ t \in Threads
  BY ArchiveThreads DEF IInv, TypeOK, StoreTypeOK
<1>1. UNCHANGED <<file, hydrate, job, caught, faults, next>>
  BY DEF OpenBlob, PurgeStale, InsertBatch, CountFile, CountFailed, Finalize, ReadRequest,
     ReadFiles, WriteCounters, TryComplete, SendEmail
<1>2. PICK label \in {"purge", "failing", "insert", "complete", "restored", "notRestored",
                      "finRead", "done", "finFiles", "finCount", "finTry", "finMail"} :
         Goto(t, label)
  BY DEF OpenBlob, PurgeStale, InsertBatch, CountFile, CountFailed, Finalize, ReadRequest,
     ReadFiles, WriteCounters, TryComplete, SendEmail
<1>3. /\ pc[t] \in {"open", "purge", "insert", "count", "countFailed", "failCount"} \cup
                   {"finRead", "finFiles", "finCount", "finTry", "finMail"}
      /\ label \in Begins => pc[t] \in Begins
  <2>1. CASE Finalize(t)
    <3>1. /\ pc[t] \in {"finRead", "finFiles", "finCount", "finTry", "finMail"}
          /\ \E place \in {"done", "finFiles", "finCount", "finTry", "finMail"} : Goto(t, place)
      BY <2>1 DEF Finalize, ReadRequest, ReadFiles, WriteCounters, TryComplete, SendEmail
    <3>2. label \in {"done", "finFiles", "finCount", "finTry", "finMail"}
      BY <1>0, <1>2, <3>1, GotoPlaces
    <3> QED
      BY <3>1, <3>2 DEF Begins
  <2>2. CASE ~Finalize(t)
    <3>1. pc[t] \in {"open", "purge", "insert", "count", "countFailed", "failCount"}
      BY <2>2 DEF OpenBlob, PurgeStale, InsertBatch, CountFile, CountFailed
    <3> QED
      BY <3>1 DEF Begins
  <2> QED
    BY <2>1, <2>2
<1>4. \A u \in Threads : pc'[u] = IF u = t THEN label ELSE pc[u]
  BY <1>0, <1>2, GotoPlaces
<1>5. JobMoves(k, f)
  BY <1>0, <1>1, <1>4 DEF JobMoves
<1>6. FaultKept(t)
  BY <1>0, <1>1, <1>2, <1>4 DEF FaultKept, WInv, FaultsTold
<1>7. pc[t] \in Begins => file[f] # "Pending"
  BY DEF WInv, RowTaken
<1>8. file[f] = "Processing" => ~hydrate[f]
  BY DEF WInv, RowBegun
<1>9. pc'[t] = label /\ pc[t] \notin Fails
  BY <1>0, <1>3, <1>4 DEF Fails
<1>10. RowKept(k, f)
  BY <1>1, <1>3, <1>7, <1>8, <1>9 DEF RowKept
<1> QED
  BY <1>3, <1>5, <1>6, <1>10 DEF Settled

\* What an iteration throws, its handlers catch, up to the second failure.
LEMMA JobThrowsKeep ==
    ASSUME IInv, WInv, NEW k \in Checks, NEW f \in Files, JobThrows(k, f)
    PROVE  pc[<<k, f>>] \notin Settled /\ JobMoves(k, f) /\ RowKept(k, f) /\ FaultKept(<<k, f>>)
<1> DEFINE t == <<k, f>>
<1> USE DEF requestVars, fileVars, dataVars, worldVars, localVars, pollVars
<1>0. /\ TypeOK /\ faults \in Nat /\ t \in JobThreads /\ t \in Threads
      /\ caught \in [JobThreads -> BOOLEAN]
  BY ArchiveThreads DEF IInv, TypeOK, StoreTypeOK
<1>1. UNCHANGED <<file, hydrate, job, next>>
  BY DEF JobThrows, LoseEmail, Throw
<1>2. faults' = faults + 1 \/ (faults' = faults /\ BodyThrew(k))
  BY DEF JobThrows, LoseEmail, Throw
<1>3. BodyThrew(k) => faults >= 2
  <2> SUFFICES ASSUME NEW g \in Files, pc[<<k, g>>] = "thrown" PROVE faults >= 2
    BY DEF BodyThrew
  <2>1. <<k, g>> \in JobThreads
    BY ArchiveThreads
  <2> QED
    BY <2>1 DEF WInv, FaultsTold
<1>4. faults' \in Nat /\ faults' >= faults /\ faults' >= 1
  BY <1>0, <1>2, <1>3
<1>5. /\ pc[t] \in RestoringFile \cup {"restored", "finMail"} \cup Handled
      /\ \/ caught' = caught
         \/ caught' = [caught EXCEPT ![t] = TRUE]
  BY DEF JobThrows, LoseEmail
<1>6. \/ Goto(t, "failing") /\ pc[t] \in RestoringFile \cup {"restored"}
      \/ Goto(t, "failJob")
      \/ Goto(t, "thrown") /\ caught[t] /\ faults' = faults + 1
      \/ Goto(t, "done") /\ pc[t] = "finMail"
  BY DEF JobThrows, LoseEmail, Throw
<1>7. PICK label : Goto(t, label)
  BY <1>6
<1>8. \A u \in Threads : pc'[u] = IF u = t THEN label ELSE pc[u]
  BY <1>0, <1>7, GotoPlaces
<1>9. \/ pc'[t] = "failing" /\ pc[t] \in RestoringFile \cup {"restored"}
      \/ pc'[t] = "failJob"
      \/ pc'[t] = "thrown" /\ caught[t] /\ faults' = faults + 1
      \/ pc'[t] = "done" /\ pc[t] = "finMail"
  BY <1>0, <1>6, GotoPlaces
<1>10. JobMoves(k, f)
  BY <1>0, <1>1, <1>4, <1>5, <1>8 DEF JobMoves
<1>11. caught[t] => faults >= 1
  BY <1>0 DEF WInv, FaultsTold
<1>12. FaultKept(t)
  BY <1>0, <1>4, <1>9, <1>11 DEF FaultKept
<1>13. RowKept(k, f)
  <2>1. file[f] = "Processing" => ~hydrate[f]
    BY DEF WInv, RowBegun
  <2>2. pc'[t] \notin Begins
    BY <1>9 DEF Begins
  <2>3. faults' <= 1 => \/ pc'[t] \in Fails
                        \/ pc[t] \notin Fails
    BY <1>0, <1>9, <1>11 DEF Fails, RestoringFile
  <2> QED
    BY <1>1, <2>1, <2>2, <2>3 DEF RowKept
<1>14. pc[t] \notin Settled
  BY <1>5 DEF Settled, RestoringFile, Handled, HandledByToken, Finalizing, RecordingFault
<1> QED
  BY <1>10, <1>12, <1>13, <1>14

LEMMA JobKeeps ==
    ASSUME IInv, WInv, IsTerminal(req.status) => IsTerminal(req.status'),
           NEW k \in Checks, NEW f \in Files, ProcessJob(k, f) \/ JobThrows(k, f)
    PROVE  WInv'
<1> DEFINE t == <<k, f>>
<1>1. pc[t] \notin Settled /\ JobMoves(k, f) /\ RowKept(k, f) /\ FaultKept(t)
  <2>1. CASE JobThrows(k, f)
    BY <2>1, JobThrowsKeep
  <2>2. CASE ProcessJob(k, f)
    BY <2>2, JobReadsKeep, JobRowKeeps, JobStatusKeeps, JobWorkKeeps, Zenon DEF ProcessJob
  <2> QED
    BY <2>1, <2>2
<1> QED
  BY <1>1, JobMovesKeeps

LEMMA WInvStep ==
    ASSUME Orderly, IInv, IInv', WInv, [Next]_vars
    PROVE  WInv'
<1>0. IsTerminal(req.status) => IsTerminal(req.status')
  BY StaysOver
<1>1. TypeOK
  BY DEF IInv
<1>2. Aside /\ PlannedJobs' /\ CancelledOver' => WInv'
  BY <1>0, <1>1, AsideKeeps
<1>3. CASE (CreateRequest \/ SendMessage) /\ UNCHANGED pollVars
  <2>1. UNCHANGED <<file, hydrate, job, pc, caught, faults, next>>
    BY <1>3 DEF CreateRequest, SendMessage, pollVars, fileVars, dataVars, localVars
  <2> QED
    BY <1>0, <1>2, <2>1, WorldAside
<1>4. ASSUME NEW d \in Deliveries, Deliver(d) PROVE WInv'
  BY <1>0, <1>2, <1>4, DeliverAside, PlanAside, Zenon DEF Deliver
<1>5. ASSUME NEW d \in Deliveries, DeliveryThrows(d), UNCHANGED pollVars PROVE WInv'
  BY <1>0, <1>2, <1>5, DeliverAside
<1>6. ASSUME NEW d \in Deliveries, NEW f \in Files,
             RestoreFile(d, f) \/ (FileThrows(d, f) /\ UNCHANGED pollVars)
      PROVE  WInv'
  BY <1>0, <1>2, <1>6, BodyAside
<1>7. ASSUME NEW k \in Checks, Check(k), UNCHANGED pollVars PROVE WInv'
  BY <1>0, <1>7, CheckKeeps
<1>8. ASSUME NEW k \in Checks, NEW f \in Files, ProcessJob(k, f) \/ JobThrows(k, f) PROVE WInv'
  BY <1>0, <1>8, JobKeeps
<1>9. ASSUME NEW c \in Callers, CancelRestore(c) \/ CancelThrows(c), UNCHANGED pollVars
      PROVE  WInv'
  BY <1>0, <1>2, <1>9, CancelAside
<1>10. ASSUME NEW p \in Loops \cup Callers, Crash(p) PROVE WInv'
  BY <1>1, <1>10, NoCrash
<1>11. CASE UNCHANGED vars \/ \E f \in Files : BlobMoves(f) \/ TimePasses(f)
  <2>1. UNCHANGED <<file, hydrate, job, pc, caught, faults, next>>
    BY <1>11 DEF vars, storeVars, BlobMoves, TimePasses, pollVars, fileVars, dataVars, worldVars,
       localVars
  <2> QED
    BY <1>0, <1>2, <2>1, WorldAside
<1> QED
  BY <1>3, <1>4, <1>5, <1>6, <1>7, <1>8, <1>9, <1>10, <1>11, Zenon DEF Next, Terminating

LEMMA WInvInit == Init => WInv
<1> SUFFICES ASSUME Init PROVE WInv
  OBVIOUS
<1>1. /\ \A t \in Threads : pc[t] = "idle"
      /\ \A f \in Files : file[f] = "Absent"
      /\ \A t \in JobThreads : ~caught[t]
  BY DEF Init, StoreInit
<1>2. /\ \A d \in Deliveries \cup Callers : d \in Threads
      /\ \A t \in JobThreads : t \in Threads
      /\ \A k \in Checks, f \in Files : <<k, f>> \in Threads
  BY ArchiveThreads
<1>3. FaultsTold /\ JobPlaced /\ RowTaken
  BY <1>1, <1>2 DEF FaultsTold, JobPlaced, RowTaken, Begins, Settled
<1>4. PlanFirst /\ PlannedJobs /\ CancelledOver
  BY <1>1, <1>2 DEF PlanFirst, PlannedJobs, CancelledOver, Planning
<1>5. RowBegun /\ Covered
  BY <1>1 DEF RowBegun, Covered
<1> QED
  BY <1>3, <1>4, <1>5 DEF WInv

\* No file is forgotten: a row that waits for its hydration after the plan has a
\* pending job, or an iteration that has failed the job and fails the row next
\* (HandleHydrationFailureAsync), for any number of files, checks that overlap
\* and calls of the cancel endpoint, as long as one call failed at most.  What
\* is assumed is that a check begins after the plan and that no process stops.
THEOREM NoneForgotten == Orderly => (Spec => []WaitingHasJob)
<1>1. WInv => WaitingHasJob
  <2>1. Fails \subseteq JobLabels
    BY DEF Fails, JobLabels, Handled, HandledByToken
  <2>2. req.status = "InProgress" => ~IsTerminal(req.status)
    BY DEF IsTerminal, TerminalRequestStatuses
  <2> QED
    BY <2>1, <2>2 DEF WInv, Covered, WaitingHasJob
<1>2. SUFFICES ASSUME Orderly PROVE Spec => []WaitingHasJob
  OBVIOUS
<1>3. Init => WInv
  BY WInvInit
<1>4. IInv /\ IInv' /\ WInv /\ [Next]_vars => WInv'
  BY <1>2, WInvStep
<1> QED
  BY <1>1, <1>3, <1>4, Invariance, PTL DEF Spec
=============================================================================

------------------------- MODULE RestoreStoreProofs -------------------------
(***************************************************************************)
(* Type correctness of the steps both restores share, for any set of       *)
(* places 'labels' that holds the shared ones.  ColdRestoreProofs cites    *)
(* these lemmas, one for each group of steps.                              *)
(***************************************************************************)
EXTENDS RestoreStore, FiniteSetTheorems, TLAPS

LEMMA ThreadKinds ==
    /\ Deliveries \subseteq Threads
    /\ Loops \subseteq Threads
    /\ Callers \subseteq Threads
    /\ FileThreads \subseteq Threads
    /\ Finishers \subseteq Threads
    /\ \A l \in Loops, f \in Files : <<l, f>> \in FileThreads
    /\ \A t \in FileThreads : t[2] \in Files
BY DEF Threads, Loops, FileThreads, Finishers

LEMMA LabelNames ==
    /\ {"reset", "plan", "load", "loop", "abort", "queued", "check", "tryCancel",
        "cancelFiles", "cancelJobs", "dropTraces", "dropLogs", "finMail"} \subseteq Labels
    /\ {"idle", "done", "sawCancel", "thrown", "crashed", "refused", "cancelled"} \subseteq Labels
    /\ {"mark", "open", "purge", "insert", "complete", "count"} \subseteq Labels
    /\ {"failing", "notFound", "countFailed"} \subseteq Labels
    /\ {"finRead", "finFiles", "finCount", "finTry"} \subseteq Labels
BY DEF Labels, Settled, RestoringFile, RecordingFault, Finalizing

LEMMA FilesFinite == ASSUME NEW S \in SUBSET Files PROVE Cardinality(S) \in Nat
<1>1. IsFiniteSet(Files)
  BY StoreAssumption, FS_Interval DEF Files
<1>2. IsFiniteSet(S)
  BY <1>1, FS_Subset
<1> QED
  BY <1>2, FS_CardinalityType

LEMMA InitType ==
    ASSUME NEW labels, Labels \subseteq labels, StoreInit
    PROVE  StoreTypeOK(labels)
BY LabelNames DEF StoreInit, StoreTypeOK, RequestStatuses, FileStatuses, TerminalFileStatuses,
   JobStatuses, NoSnap, TerminalRequestStatuses

LEMMA GotoType ==
    ASSUME NEW labels, NEW t \in Threads, NEW label \in labels,
           pc \in [Threads -> labels], Goto(t, label)
    PROVE  pc' \in [Threads -> labels]
BY DEF Goto

-----------------------------------------------------------------------------
(* The client, the delivery and its loop.                                  *)

LEMMA ClientType ==
    ASSUME NEW labels, StoreTypeOK(labels), CreateRequest \/ SendMessage
    PROVE  StoreTypeOK(labels)'
<1>1. CASE CreateRequest
  BY <1>1 DEF StoreTypeOK, CreateRequest, fileVars, dataVars, localVars, RequestStatuses
<1>2. CASE SendMessage
  BY <1>2 DEF StoreTypeOK, SendMessage, requestVars, fileVars, dataVars, localVars
<1> QED
  BY <1>1, <1>2

LEMMA DeliveryType ==
    ASSUME NEW labels, Labels \subseteq labels, StoreTypeOK(labels), NEW d \in Deliveries,
           \/ Claim(d) \/ ResetStuck(d) \/ UpdateTotal(d) \/ AbortRequest(d)
    PROVE  StoreTypeOK(labels)'
<1> USE ThreadKinds, LabelNames DEF StoreTypeOK
<1>1. CASE Claim(d)
  <2>1. req' \in [status : RequestStatuses, total : Nat, processed : Nat, failed : Nat]
    BY <1>1 DEF Claim, RequestStatuses
  <2>2. pc' \in [Threads -> labels]
    BY <1>1 DEF Claim, Goto
  <2> QED
    BY <1>1, <2>1, <2>2 DEF Claim, fileVars, dataVars, worldVars, localVars
<1>2. CASE ResetStuck(d)
  BY <1>2, GotoType DEF ResetStuck, requestVars, dataVars, worldVars, localVars, FileStatuses
<1>3. CASE UpdateTotal(d)
  <2>1. Cardinality(Planned) \in Nat
    BY FilesFinite DEF Planned
  <2> QED
    BY <1>3, <2>1, GotoType DEF UpdateTotal, fileVars, dataVars, worldVars, localVars
<1>4. CASE AbortRequest(d)
  BY <1>4, GotoType DEF AbortRequest, fileVars, dataVars, worldVars, localVars,
     RequestStatuses, TerminalRequestStatuses
<1> QED
  BY <1>1, <1>2, <1>3, <1>4

LEMMA LoopType ==
    ASSUME NEW labels, Labels \subseteq labels, StoreTypeOK(labels),
           NEW l \in Loops, NEW work, NEW after \in labels,
           LoadWork(l, work) \/ JoinLoop(l, after)
    PROVE  StoreTypeOK(labels)'
<1> USE ThreadKinds, LabelNames DEF StoreTypeOK
<1>1. CASE LoadWork(l, work)
  BY <1>1 DEF LoadWork, requestVars, fileVars, dataVars, worldVars, localVars
<1>2. CASE JoinLoop(l, after)
  BY <1>2, GotoType DEF JoinLoop, requestVars, fileVars, dataVars, worldVars, localVars
<1> QED
  BY <1>1, <1>2

-----------------------------------------------------------------------------
(* One file.                                                               *)

LEMMA StartType ==
    ASSUME NEW labels, Labels \subseteq labels, StoreTypeOK(labels),
           NEW l \in Loops, NEW f \in Files, NEW label \in labels,
           StartBody(l, f, label) \/ CheckCancelled(l, f)
    PROVE  StoreTypeOK(labels)'
<1> USE ThreadKinds, LabelNames DEF StoreTypeOK
<1>1. CASE StartBody(l, f, label)
  BY <1>1, GotoType DEF StartBody, requestVars, fileVars, dataVars, worldVars, localVars
<1>2. CASE CheckCancelled(l, f)
  <2>1. \E place \in {"done", "sawCancel", "mark"} : Goto(<<l, f>>, place)
    BY <1>2 DEF CheckCancelled
  <2>2. pc' \in [Threads -> labels]
    BY <2>1 DEF Goto
  <2> QED
    BY <1>2, <2>2 DEF CheckCancelled, requestVars, fileVars, dataVars, worldVars, localVars
<1> QED
  BY <1>1, <1>2

LEMMA WriteFileType ==
    ASSUME NEW f \in Files, NEW status \in FileStatuses, NEW count \in Nat,
           file \in [Files -> FileStatuses], reported \in [Files -> Nat],
           WriteFile(f, status, count)
    PROVE  file' \in [Files -> FileStatuses] /\ reported' \in [Files -> Nat]
BY DEF WriteFile

LEMMA CountersType ==
    ASSUME req \in [status : RequestStatuses, total : Nat, processed : Nat, failed : Nat],
           NEW p \in Nat, NEW q \in Nat
    PROVE  [req EXCEPT !.processed = p, !.failed = q]
               \in [status : RequestStatuses, total : Nat, processed : Nat, failed : Nat]
OBVIOUS

LEMMA CountType ==
    ASSUME req \in [status : RequestStatuses, total : Nat, processed : Nat, failed : Nat]
    PROVE  /\ [req EXCEPT !.processed = @ + 1]
                  \in [status : RequestStatuses, total : Nat, processed : Nat, failed : Nat]
           /\ [req EXCEPT !.processed = @ + 1, !.failed = @ + 1]
                  \in [status : RequestStatuses, total : Nat, processed : Nat, failed : Nat]
<1>1. req.processed + 1 \in Nat /\ req.failed + 1 \in Nat
  OBVIOUS
<1>2. [req EXCEPT !.processed = @ + 1]
          \in [status : RequestStatuses, total : Nat, processed : Nat, failed : Nat]
  OBVIOUS
<1>3. [req EXCEPT !.processed = req.processed + 1, !.failed = req.failed + 1]
          \in [status : RequestStatuses, total : Nat, processed : Nat, failed : Nat]
  BY <1>1, CountersType
<1>4. [req EXCEPT !.processed = @ + 1, !.failed = @ + 1]
      = [req EXCEPT !.processed = req.processed + 1, !.failed = req.failed + 1]
  BY Zenon
<1> QED
  BY <1>2, <1>3, <1>4

LEMMA BodyType ==
    ASSUME NEW labels, Labels \subseteq labels, StoreTypeOK(labels),
           NEW t \in FileThreads, NEW at, NEW after \in labels,
           \/ MarkProcessing(t) \/ OpenBlob(t, after) \/ PurgeStale(t) \/ InsertBatch(t)
           \/ CompleteFile(t) \/ CountFile(t, after) \/ RecordFailure(t)
           \/ CountFailed(t, at, after)
    PROVE  StoreTypeOK(labels)'
<1> USE ThreadKinds, LabelNames DEF StoreTypeOK
<1> {"Processing", "Completed", "Failed", "FileNotFound"} \subseteq FileStatuses
  BY DEF FileStatuses, TerminalFileStatuses
<1>1. CASE MarkProcessing(t)
  <2>1. file' \in [Files -> FileStatuses] /\ reported' \in [Files -> Nat]
    BY <1>1, WriteFileType DEF MarkProcessing
  <2> QED
    BY <1>1, <2>1, GotoType DEF MarkProcessing, requestVars, dataVars, worldVars, localVars
<1>2. CASE OpenBlob(t, after)
  BY <1>2, GotoType DEF OpenBlob, requestVars, fileVars, dataVars, worldVars, localVars
<1>3. CASE PurgeStale(t)
  <2>1. rows' \in [Files -> Nat] /\ sent' \in [FileThreads -> Nat]
    BY <1>3 DEF PurgeStale
  <2>2. pc' \in [Threads -> labels]
    BY <1>3, GotoType DEF PurgeStale
  <2> QED
    BY <1>3, <2>1, <2>2 DEF PurgeStale, requestVars, fileVars, worldVars
<1>4. CASE InsertBatch(t)
  <2>1. rows' \in [Files -> Nat] /\ sent' \in [FileThreads -> Nat]
    BY <1>4 DEF InsertBatch
  <2>2. pc' \in [Threads -> labels]
    BY <1>4, GotoType DEF InsertBatch
  <2> QED
    BY <1>4, <2>1, <2>2 DEF InsertBatch, requestVars, fileVars, worldVars
<1>5. CASE CompleteFile(t)
  <2>1. file' \in [Files -> FileStatuses] /\ reported' \in [Files -> Nat]
    BY <1>5, WriteFileType DEF CompleteFile
  <2>2. pc' \in [Threads -> labels]
    BY <1>5, GotoType DEF CompleteFile
  <2> QED
    BY <1>5, <2>1, <2>2 DEF CompleteFile, requestVars, dataVars, worldVars, localVars
<1>6. CASE CountFile(t, after)
  <2>1. req' \in [status : RequestStatuses, total : Nat, processed : Nat, failed : Nat]
    BY <1>6, CountType DEF CountFile
  <2>2. pc' \in [Threads -> labels]
    BY <1>6, GotoType DEF CountFile
  <2> QED
    BY <1>6, <2>1, <2>2 DEF CountFile, fileVars, dataVars, worldVars, localVars
<1>7. CASE RecordFailure(t)
  BY <1>7, GotoType, WriteFileType
     DEF RecordFailure, requestVars, dataVars, worldVars, localVars
<1>8. CASE CountFailed(t, at, after)
  <2>1. req' \in [status : RequestStatuses, total : Nat, processed : Nat, failed : Nat]
    BY <1>8, CountType DEF CountFailed
  <2>2. pc' \in [Threads -> labels]
    BY <1>8, GotoType DEF CountFailed
  <2> QED
    BY <1>8, <2>1, <2>2 DEF CountFailed, fileVars, dataVars, worldVars, localVars
<1> QED
  BY <1>1, <1>2, <1>3, <1>4, <1>5, <1>6, <1>7, <1>8

-----------------------------------------------------------------------------
(* UpdateFileRequestStatus, the cancellation and the failures.             *)

LEMMA ReadFilesType ==
    ASSUME NEW labels, Labels \subseteq labels, StoreTypeOK(labels),
           NEW t \in Finishers, ReadFiles(t)
    PROVE  StoreTypeOK(labels)'
<1> DEFINE total == Cardinality(Planned)
           failed == Cardinality(FailedFiles)
           read == [processed |-> total, failed |-> failed, status |-> FinalStatus(total, failed)]
<1>1. total \in Nat /\ failed \in Nat
  BY FilesFinite DEF Planned, FailedFiles
<1>2. FinalStatus(total, failed) \in TerminalRequestStatuses
  BY <1>1 DEF FinalStatus, TerminalRequestStatuses
<1>3. read \in [processed : Nat, failed : Nat, status : TerminalRequestStatuses]
  BY <1>1, <1>2
<1>4. \/ snap' = [snap EXCEPT ![t] = read] /\ Goto(t, "finCount")
      \/ snap' = snap /\ Goto(t, "done")
  BY DEF ReadFiles
<1> HIDE DEF read
<1>5. pc' \in [Threads -> labels]
  BY <1>4, GotoType, ThreadKinds, LabelNames DEF StoreTypeOK
<1>6. snap' \in [Finishers -> [processed : Nat, failed : Nat, status : TerminalRequestStatuses]]
  BY <1>3, <1>4 DEF StoreTypeOK
<1> QED
  BY <1>5, <1>6 DEF StoreTypeOK, ReadFiles, requestVars, fileVars, dataVars, worldVars

LEMMA FinalizeType ==
    ASSUME NEW labels, Labels \subseteq labels, StoreTypeOK(labels),
           NEW t \in Finishers, Finalize(t)
    PROVE  StoreTypeOK(labels)'
<1> USE ThreadKinds, LabelNames DEF StoreTypeOK
<1>1. CASE ReadRequest(t)
  BY <1>1, GotoType DEF ReadRequest, requestVars, fileVars, dataVars, worldVars, localVars
<1>2. CASE ReadFiles(t)
  BY <1>2, ReadFilesType
<1>3. CASE WriteCounters(t)
  BY <1>3, GotoType DEF WriteCounters, fileVars, dataVars, worldVars, localVars
<1>4. CASE TryComplete(t)
  <2>1. pc' \in [Threads -> labels]
    BY <1>4 DEF TryComplete, Goto
  <2>2. req' \in [status : RequestStatuses, total : Nat, processed : Nat, failed : Nat]
    BY <1>4 DEF TryComplete, RequestStatuses
  <2> QED
    BY <1>4, <2>1, <2>2 DEF TryComplete, fileVars, dataVars, worldVars, localVars
<1>5. CASE SendEmail(t)
  <2>1. mails' \in Seq(TerminalRequestStatuses)
    BY <1>5 DEF SendEmail
  <2>2. pc' \in [Threads -> labels]
    BY <1>5, GotoType DEF SendEmail
  <2> QED
    BY <1>5, <2>1, <2>2 DEF SendEmail, fileVars, dataVars, worldVars, localVars
<1> QED
  BY <1>1, <1>2, <1>3, <1>4, <1>5 DEF Finalize

LEMMA DropType ==
    ASSUME NEW labels, Labels \subseteq labels, StoreTypeOK(labels),
           NEW t \in Threads, NEW after \in labels, DropTraces(t) \/ DropLogs(t, after)
    PROVE  StoreTypeOK(labels)'
<1> USE LabelNames DEF StoreTypeOK
<1>1. CASE DropTraces(t)
  BY <1>1, GotoType DEF DropTraces, requestVars, fileVars, worldVars, localVars
<1>2. CASE DropLogs(t, after)
  BY <1>2, GotoType DEF DropLogs, requestVars, fileVars, worldVars, localVars
<1> QED
  BY <1>1, <1>2

LEMMA CancelType ==
    ASSUME NEW labels, Labels \subseteq labels, StoreTypeOK(labels),
           NEW c \in Callers, CancelRestore(c)
    PROVE  StoreTypeOK(labels)'
<1> USE ThreadKinds, LabelNames
<1>1. CASE ReadBeforeCancel(c)
  BY <1>1, GotoType DEF StoreTypeOK, ReadBeforeCancel, requestVars, fileVars, dataVars,
     worldVars, localVars
<1>2. CASE TryCancel(c)
  <2>1. pc' \in [Threads -> labels]
    BY <1>2 DEF StoreTypeOK, TryCancel, Goto
  <2>2. req' \in [status : RequestStatuses, total : Nat, processed : Nat, failed : Nat]
    BY <1>2 DEF StoreTypeOK, TryCancel, RequestStatuses, TerminalRequestStatuses
  <2> QED
    BY <1>2, <2>1, <2>2 DEF StoreTypeOK, TryCancel, fileVars, dataVars, worldVars, localVars
<1>3. CASE CancelFiles(c)
  BY <1>3, GotoType DEF StoreTypeOK, CancelFiles, requestVars, dataVars, worldVars, localVars,
     FileStatuses, TerminalFileStatuses
<1>4. CASE CancelJobs(c)
  BY <1>4, GotoType DEF StoreTypeOK, CancelJobs, requestVars, fileVars, worldVars, localVars,
     JobStatuses
<1>5. CASE DropTraces(c) \/ DropLogs(c, "cancelled")
  BY <1>5, DropType
<1> QED
  BY <1>1, <1>2, <1>3, <1>4, <1>5 DEF CancelRestore

LEMMA ThrowType ==
    ASSUME NEW labels, StoreTypeOK(labels), NEW t \in Threads, NEW caught \in labels,
           NEW tokenCancelled, Throw(t, tokenCancelled, caught)
    PROVE  StoreTypeOK(labels)'
<1>1. faults' \in Nat
  BY DEF StoreTypeOK, Throw
<1>2. pc' \in [Threads -> labels]
  BY GotoType DEF StoreTypeOK, Throw
<1> QED
  BY <1>1, <1>2 DEF StoreTypeOK, Throw, requestVars, fileVars, dataVars, localVars

LEMMA CrashType ==
    ASSUME NEW labels, Labels \subseteq labels, StoreTypeOK(labels), NEW p \in Threads, Crash(p)
    PROVE  StoreTypeOK(labels)'
BY LabelNames DEF StoreTypeOK, Crash, requestVars, fileVars, dataVars, localVars
=============================================================================

---------------------------- MODULE RestoreStore ----------------------------
(***************************************************************************)
(* The state shared by the cold and the archive restore of logs and traces *)
(* (server/Cloud.LmtService) and the steps both services take: the         *)
(* client's request, the claim of a delivery, the restore of one file,     *)
(* UpdateFileRequestStatus and CancelRestoreAsync.                         *)
(*                                                                         *)
(* One restore request is modelled: every collection is keyed by the       *)
(* RequestId, so two requests share nothing but blobs.  Every call of      *)
(* MongoDB or of blob storage that matters is one atomic step; anything    *)
(* may interleave between two of them.  A thread is whatever runs          *)
(* sequentially: a delivery d of the restore message, an iteration <<d, f>>*)
(* of its Parallel.ForEachAsync, a hydration check k, an iteration <<k, f>>*)
(* of it, a call c of the cancel endpoint.                                 *)
(***************************************************************************)
EXTENDS Naturals, Sequences, FiniteSets

CONSTANTS NumFiles,     \* blobs in the range: one trace and one log file a day
          Batches,      \* insert batches that make up one restored blob
          MaxParallel,  \* MaxDegreeOfParallelism of the file loops
          Deliveries,   \* deliveries of the restore message (at least once)
          Checks,       \* hydration checks that may overlap (none: cold)
          Callers,      \* calls of the cancel endpoint
          MaxFaults,    \* bound: database or storage calls that throw
          MaxCrashes    \* bound: crashes of a process in the middle of work

Files == 1 .. NumFiles

ASSUME StoreAssumption ==
    /\ NumFiles \in Nat
    /\ Batches \in Nat \ {0}
    /\ MaxParallel \in Nat \ {0}
    /\ MaxFaults \in Nat
    /\ MaxCrashes \in Nat

\* Deliveries, checks, callers and the iterations of loops are distinct.
ASSUME ThreadAssumption ==
    /\ Deliveries \cap Checks = {}
    /\ Deliveries \cap Callers = {}
    /\ Checks \cap Callers = {}
    /\ ((Deliveries \cup Checks \cup Callers) \X Files)
          \cap (Deliveries \cup Checks \cup Callers) = {}

VARIABLES req,       \* the request document: status and its counters
          file,      \* status of each file-progress row, "Absent" if no row
          reported,  \* RowsRestored of each file-progress row, in batches
          job,       \* status of each hydration job, "Absent" if none
          rows,      \* batches each file has in the result collections
          mails,     \* final statuses of the completion mails queued
          blob,      \* external: the access tier of each blob
          client,    \* progress of StartRestoreAsync
          pc,        \* where each thread is
          next,      \* the next file a delivery has to plan
          sent,      \* batches a file thread has inserted so far
          snap,      \* what a thread computed in UpdateFileRequestStatus
          faults,    \* calls that have thrown so far
          crashes    \* processes that have crashed so far

requestVars == <<req, mails>>
fileVars    == <<file, reported>>
dataVars    == <<rows, job>>
worldVars   == <<blob, client, faults, crashes>>
localVars   == <<next, sent, snap>>
storeVars   == <<requestVars, fileVars, dataVars, worldVars, pc, localVars>>

-----------------------------------------------------------------------------
(* Threads and statuses.                                                   *)

Loops       == Deliveries \cup Checks
FileThreads == Loops \X Files
Finishers   == Deliveries \cup (Checks \X Files)
Threads     == Loops \cup FileThreads \cup Callers

TraceFiles == {f \in Files : f % 2 = 1}
LogFiles   == Files \ TraceFiles

TerminalRequestStatuses == {"Completed", "PartialSuccess", "Failed", "Cancelled"}
RequestStatuses == {"None", "Pending", "InProgress"} \cup TerminalRequestStatuses

TerminalFileStatuses == {"Completed", "FileNotFound", "Failed", "Cancelled"}
FileStatuses == {"Absent", "Pending", "Processing"} \cup TerminalFileStatuses

JobStatuses == {"Absent", "RehydrationRequested", "Ready", "Failed", "Cancelled"}
Tiers == {"missing", "readable", "archived"}

\* Rows of the file-progress collection.
Planned == {f \in Files : file[f] # "Absent"}
\* Slip: files whose blob was missing are not counted as failed.
FailedButFound == {f \in Files : file[f] = "Failed"}

FailedFiles == {f \in Files : file[f] \in {"Failed", "FileNotFound"}}
IsTerminal(status) == status \in TerminalRequestStatuses

\* UpdateFileRequestStatus: the switch over the failed files.
FinalStatus(total, failed) ==
    CASE failed = 0                    -> "Completed"
      [] failed # 0 /\ failed = total  -> "Failed"
      [] failed # 0 /\ failed # total  -> "PartialSuccess"

NoSnap == [processed |-> 0, failed |-> 0, status |-> "Completed"]

StoreInit ==
    /\ req = [status |-> "None", total |-> 0, processed |-> 0, failed |-> 0]
    /\ file = [f \in Files |-> "Absent"]
    /\ reported = [f \in Files |-> 0]
    /\ job = [f \in Files |-> "Absent"]
    /\ rows = [f \in Files |-> 0]
    /\ mails = <<>>
    /\ blob \in [Files -> Tiers]
    /\ client = "new"
    /\ pc = [t \in Threads |-> "idle"]
    /\ next = [d \in Deliveries |-> 1]
    /\ sent = [t \in FileThreads |-> 0]
    /\ snap = [t \in Finishers |-> NoSnap]
    /\ faults = 0
    /\ crashes = 0

Goto(t, label) == pc' = [pc EXCEPT ![t] = label]

-----------------------------------------------------------------------------
(* The client.  StartRestoreAsync stores the request, then sends the       *)
(* message; if the second call never happens the request stays Pending.    *)

CreateRequest ==
    /\ client = "new"
    /\ client' = "created"
    /\ req' = [req EXCEPT !.status = "Pending"]
    /\ UNCHANGED <<mails, fileVars, dataVars, blob, faults, crashes, pc, localVars>>

SendMessage ==
    /\ client = "created"
    /\ client' = "sent"
    /\ UNCHANGED <<requestVars, fileVars, dataVars, blob, faults, crashes, pc, localVars>>

-----------------------------------------------------------------------------
(* A delivery of the message: CheckRequestStatus, and the frame of the     *)
(* two ProcessRestoreAsync.                                                *)

\* Slip: half of the filter is missing.
ClaimableWhileRunning == req.status \notin TerminalRequestStatuses

\* The filter of TryBeginProcessingAsync, on a request that exists.
Claimable == req.status \notin TerminalRequestStatuses \cup {"InProgress"}

\* TryBeginProcessingAsync: one conditional update decides the winner.
Claim(d) ==
    /\ pc[d] = "idle"
    /\ client = "sent"
    /\ \/ Claimable  /\ req' = [req EXCEPT !.status = "InProgress"] /\ Goto(d, "reset")
       \/ ~Claimable /\ UNCHANGED req /\ Goto(d, "done")
    /\ UNCHANGED <<mails, fileVars, dataVars, worldVars, localVars>>

\* ResetStuckProcessingFilesAsync.
ResetStuck(d) ==
    /\ pc[d] = "reset"
    /\ file' = [f \in Files |-> IF file[f] = "Processing" THEN "Pending" ELSE file[f]]
    /\ Goto(d, "plan")
    /\ UNCHANGED <<requestVars, reported, dataVars, worldVars, localVars>>

\* Slip: the files of the range are counted, also those without a blob.
UpdateTotalOfRange(d) ==
    /\ pc[d] = "plan"
    /\ next[d] > NumFiles
    /\ req' = [req EXCEPT !.total = NumFiles]
    /\ Goto(d, "load")
    /\ UNCHANGED <<mails, fileVars, dataVars, worldVars, localVars>>

\* Planning ends with UpdateTotalFilesAsync.
UpdateTotal(d) ==
    /\ pc[d] = "plan"
    /\ next[d] > NumFiles
    /\ req' = [req EXCEPT !.total = Cardinality(Planned)]
    /\ Goto(d, "load")
    /\ UNCHANGED <<mails, fileVars, dataVars, worldVars, localVars>>

\* A loop reads what there is to do and queues one iteration for each file.
LoadWork(l, work) ==
    /\ pc' = [t \in Threads |->
                IF t = l THEN "loop"
                ELSE IF t \in {l} \X Files
                     THEN IF t[2] \in work THEN "queued" ELSE "idle"
                     ELSE pc[t]]
    /\ UNCHANGED <<requestVars, fileVars, dataVars, worldVars, localVars>>

\* Slip: the catch of ProcessRestoreAsync only logs.
AbortSilently(d) ==
    /\ pc[d] = "abort"
    /\ Goto(d, "done")
    /\ UNCHANGED <<requestVars, fileVars, dataVars, worldVars, localVars>>

\* The catch of ProcessRestoreAsync writes Failed whatever the status is.
AbortRequest(d) ==
    /\ pc[d] = "abort"
    /\ req' = [req EXCEPT !.status = "Failed"]
    /\ Goto(d, "done")
    /\ UNCHANGED <<mails, fileVars, dataVars, worldVars, localVars>>

-----------------------------------------------------------------------------
(* Parallel.ForEachAsync: at most MaxParallel bodies at a time, no new one *)
(* after one threw, and it returns when every body it started has ended.   *)

Settled == {"idle", "done", "sawCancel", "thrown", "crashed", "refused", "cancelled"}
Running(l)   == {f \in Files : pc[<<l, f>>] \notin Settled \cup {"queued"}}
Waiting(l)   == {f \in Files : pc[<<l, f>>] = "queued"}
SawCancel(l) == \E f \in Files : pc[<<l, f>>] = "sawCancel"
BodyThrew(l) == \E f \in Files : pc[<<l, f>>] = "thrown"

StartBody(l, f, label) ==
    /\ pc[<<l, f>>] = "queued"
    /\ Cardinality(Running(l)) < MaxParallel
    /\ ~BodyThrew(l)
    /\ Goto(<<l, f>>, label)
    /\ UNCHANGED <<requestVars, fileVars, dataVars, worldVars, localVars>>

LoopEnded(l) ==
    /\ pc[l] = "loop"
    /\ Running(l) = {}
    /\ BodyThrew(l) \/ Waiting(l) = {}

JoinLoop(l, after) ==
    /\ LoopEnded(l)
    /\ Goto(l, after)
    /\ UNCHANGED <<requestVars, fileVars, dataVars, worldVars, localVars>>

-----------------------------------------------------------------------------
(* One file: the body of ExecutePendingFilesAsync, ExecuteReadableFiles-   *)
(* Async and RestoreHydratedBlobAsync.                                     *)

\* The files are taken in order of date and type.
StartFile(d, f) ==
    /\ \A g \in 1 .. (f - 1) : g \notin Waiting(d)
    /\ StartBody(d, f, "check")

\* Slip: only the loop's own flag is looked at.
CheckFlagOnly(d, f) ==
    /\ pc[<<d, f>>] = "check"
    /\ Goto(<<d, f>>, IF SawCancel(d) THEN "done" ELSE "mark")
    /\ UNCHANGED <<requestVars, fileVars, dataVars, worldVars, localVars>>

\* The loop's own cancellation flag, then IsRequestCancelledAsync.
CheckCancelled(d, f) ==
    /\ pc[<<d, f>>] = "check"
    /\ Goto(<<d, f>>, CASE SawCancel(d) -> "done"
                        [] ~SawCancel(d) /\ req.status = "Cancelled" -> "sawCancel"
                        [] ~SawCancel(d) /\ req.status # "Cancelled" -> "mark")
    /\ UNCHANGED <<requestVars, fileVars, dataVars, worldVars, localVars>>

\* UpdateFileProgressAsync and UpdateFileProgressStatusByObjectIdAsync write
\* over whatever status the row has, and RowsRestored with it.
WriteFile(f, status, count) ==
    /\ file' = [file EXCEPT ![f] = status]
    /\ reported' = [reported EXCEPT ![f] = count]

MarkProcessing(t) ==
    /\ pc[t] = "mark"
    /\ WriteFile(t[2], "Processing", 0)
    /\ Goto(t, "open")
    /\ UNCHANGED <<requestVars, dataVars, worldVars, localVars>>

\* OpenReadAsync answers 404 for a missing blob and 409 for an archived one;
\* 'unreadable' is the catch block they reach.
OpenBlob(t, unreadable) ==
    /\ pc[t] = "open"
    /\ Goto(t, IF blob[t[2]] = "readable" THEN "purge" ELSE unreadable)
    /\ UNCHANGED <<requestVars, fileVars, dataVars, worldVars, localVars>>

\* Delete{Trace,Log}ResultsByRequestAndDateAsync.
PurgeStale(t) ==
    /\ pc[t] = "purge"
    /\ rows' = [rows EXCEPT ![t[2]] = 0]
    /\ sent' = [sent EXCEPT ![t] = 0]
    /\ Goto(t, "insert")
    /\ UNCHANGED <<requestVars, fileVars, job, worldVars, next, snap>>

InsertBatch(t) ==
    /\ pc[t] = "insert"
    /\ rows' = [rows EXCEPT ![t[2]] = @ + 1]
    /\ sent' = [sent EXCEPT ![t] = @ + 1]
    /\ Goto(t, IF sent[t] + 1 = Batches THEN "complete" ELSE "insert")
    /\ UNCHANGED <<requestVars, fileVars, job, worldVars, next, snap>>

CompleteFile(t) ==
    /\ pc[t] = "complete"
    /\ WriteFile(t[2], "Completed", sent[t])
    /\ Goto(t, "count")
    /\ UNCHANGED <<requestVars, dataVars, worldVars, localVars>>

\* IncrementRequestProgressAsync after a success; 'after' is what follows.
CountFile(t, after) ==
    /\ pc[t] = "count"
    /\ req' = [req EXCEPT !.processed = @ + 1]
    /\ Goto(t, after)
    /\ UNCHANGED <<mails, fileVars, dataVars, worldVars, localVars>>

\* The catch blocks: 404 and 409 give FileNotFound, anything else Failed.
RecordFailure(t) ==
    /\ \/ pc[t] = "failing"  /\ WriteFile(t[2], "Failed", 0)
       \/ pc[t] = "notFound" /\ WriteFile(t[2], "FileNotFound", 0)
    /\ Goto(t, "countFailed")
    /\ UNCHANGED <<requestVars, dataVars, worldVars, localVars>>

\* IncrementRequestProgressAsync after a failure, from the place 'at'.
CountFailed(t, at, after) ==
    /\ pc[t] = at
    /\ req' = [req EXCEPT !.processed = @ + 1, !.failed = @ + 1]
    /\ Goto(t, after)
    /\ UNCHANGED <<mails, fileVars, dataVars, worldVars, localVars>>

-----------------------------------------------------------------------------
(* UpdateFileRequestStatus, run at the end of a delivery and after every   *)
(* hydrated file: five calls, and other threads between any two of them.   *)

ReadRequest(t) ==
    /\ pc[t] = "finRead"
    /\ Goto(t, IF IsTerminal(req.status) THEN "done" ELSE "finFiles")
    /\ UNCHANGED <<requestVars, fileVars, dataVars, worldVars, localVars>>

\* Slip: what is written and told is the status of the request that was loaded.
ReadFilesStale(t) ==
    /\ pc[t] = "finFiles"
    /\ IF \A f \in Planned : file[f] \in TerminalFileStatuses
       THEN /\ snap' = [snap EXCEPT ![t].status = req.status]
            /\ Goto(t, "finCount")
       ELSE UNCHANGED snap /\ Goto(t, "done")
    /\ UNCHANGED <<requestVars, fileVars, dataVars, worldVars, next, sent>>

\* The rows are read once; the counters and the final status follow from
\* that reading, also when there is no row at all.
ReadFiles(t) ==
    /\ pc[t] = "finFiles"
    /\ IF \A f \in Planned : file[f] \in TerminalFileStatuses
       THEN LET total  == Cardinality(Planned)
                failed == Cardinality(FailedFiles)
            IN  /\ snap' = [snap EXCEPT ![t] =
                              [processed |-> total, failed |-> failed,
                               status |-> FinalStatus(total, failed)]]
                /\ Goto(t, "finCount")
       ELSE UNCHANGED snap /\ Goto(t, "done")
    /\ UNCHANGED <<requestVars, fileVars, dataVars, worldVars, next, sent>>

\* UpdateRequestCountersAsync.
WriteCounters(t) ==
    /\ pc[t] = "finCount"
    /\ req' = [req EXCEPT !.processed = snap[t].processed, !.failed = snap[t].failed]
    /\ Goto(t, "finTry")
    /\ UNCHANGED <<mails, fileVars, dataVars, worldVars, localVars>>

\* Slip: the completion is written unconditionally.
CompleteAlways(t) ==
    /\ pc[t] = "finTry"
    /\ req' = [req EXCEPT !.status = snap[t].status]
    /\ Goto(t, "finMail")
    /\ UNCHANGED <<mails, fileVars, dataVars, worldVars, localVars>>

\* TryCompleteRequestAsync: only the caller that makes the transition goes on.
TryComplete(t) ==
    /\ pc[t] = "finTry"
    /\ \/ /\ ~IsTerminal(req.status)
          /\ req' = [req EXCEPT !.status = snap[t].status]
          /\ Goto(t, "finMail")
       \/ IsTerminal(req.status) /\ UNCHANGED req /\ Goto(t, "done")
    /\ UNCHANGED <<mails, fileVars, dataVars, worldVars, localVars>>

\* SendEmailAsync; the retention it is preceded by is not part of this model.
SendEmail(t) ==
    /\ pc[t] = "finMail"
    /\ mails' = Append(mails, snap[t].status)
    /\ Goto(t, "done")
    /\ UNCHANGED <<req, fileVars, dataVars, worldVars, localVars>>

Finalize(t) ==
    \/ ReadRequest(t)
    \/ ReadFiles(t)
    \/ WriteCounters(t)
    \/ TryComplete(t)
    \/ SendEmail(t)

-----------------------------------------------------------------------------
(* CancelRestoreAsync.                                                     *)

ReadBeforeCancel(c) ==
    /\ pc[c] = "idle"
    /\ client # "new"
    /\ Goto(c, IF IsTerminal(req.status) THEN "refused" ELSE "tryCancel")
    /\ UNCHANGED <<requestVars, fileVars, dataVars, worldVars, localVars>>

\* Slip: the cancellation is written unconditionally.
CancelAlways(c) ==
    /\ pc[c] = "tryCancel"
    /\ req' = [req EXCEPT !.status = "Cancelled"]
    /\ Goto(c, "cancelFiles")
    /\ UNCHANGED <<mails, fileVars, dataVars, worldVars, localVars>>

TryCancel(c) ==
    /\ pc[c] = "tryCancel"
    /\ \/ /\ ~IsTerminal(req.status)
          /\ req' = [req EXCEPT !.status = "Cancelled"]
          /\ Goto(c, "cancelFiles")
       \/ IsTerminal(req.status) /\ UNCHANGED req /\ Goto(c, "refused")
    /\ UNCHANGED <<mails, fileVars, dataVars, worldVars, localVars>>

\* CancelOutstandingFileProgressAsync.
CancelFiles(c) ==
    /\ pc[c] = "cancelFiles"
    /\ file' = [f \in Files |->
                  IF file[f] \in {"Pending", "Processing"} THEN "Cancelled" ELSE file[f]]
    /\ Goto(c, "cancelJobs")
    /\ UNCHANGED <<requestVars, reported, dataVars, worldVars, localVars>>

\* CancelHydrationJobsForRequestAsync.
CancelJobs(c) ==
    /\ pc[c] = "cancelJobs"
    /\ job' = [f \in Files |->
                 IF job[f] = "RehydrationRequested" THEN "Cancelled" ELSE job[f]]
    /\ Goto(c, "dropTraces")
    /\ UNCHANGED <<requestVars, fileVars, rows, worldVars, localVars>>

\* DropResultCollectionsAsync, also run by a cold delivery that saw the
\* cancellation: the traces, then the logs.
DropTraces(t) ==
    /\ pc[t] = "dropTraces"
    /\ rows' = [f \in Files |-> IF f \in TraceFiles THEN 0 ELSE rows[f]]
    /\ Goto(t, "dropLogs")
    /\ UNCHANGED <<requestVars, fileVars, job, worldVars, localVars>>

DropLogs(t, after) ==
    /\ pc[t] = "dropLogs"
    /\ rows' = [f \in Files |-> IF f \in LogFiles THEN 0 ELSE rows[f]]
    /\ Goto(t, after)
    /\ UNCHANGED <<requestVars, fileVars, job, worldVars, localVars>>

\* Where a call of the endpoint is once it made the transition to Cancelled.
CancelDone == {"cancelFiles", "cancelJobs", "dropTraces", "dropLogs", "cancelled"}

CancelRestore(c) ==
    \/ ReadBeforeCancel(c)
    \/ TryCancel(c)
    \/ CancelFiles(c)
    \/ CancelJobs(c)
    \/ DropTraces(c)
    \/ DropLogs(c, "cancelled")

-----------------------------------------------------------------------------
(* Failures.                                                               *)

\* The try block of RestorePendingFileAsync, RestoreSingleFileAsync and the
\* inner one of RestoreHydratedBlobAsync.
RestoringFile  == {"mark", "open", "purge", "insert", "complete", "count"}
RecordingFault == {"failing", "notFound", "countFailed"}
Finalizing     == {"finRead", "finFiles", "finCount", "finTry"}

\* A call throws: the thread goes to the handler 'caught'.  Calls fail on their
\* own a bounded number of times, or because the loop cancelled their token.
Throw(t, tokenCancelled, caught) ==
    /\ \/ tokenCancelled /\ UNCHANGED faults
       \/ faults < MaxFaults /\ faults' = faults + 1
    /\ Goto(t, caught)
    /\ UNCHANGED <<requestVars, fileVars, dataVars, blob, client, crashes, localVars>>

\* SendEmailAsync catches and logs: the mail is lost.
LoseEmail(t) == pc[t] = "finMail" /\ Throw(t, FALSE, "done")

\* The cancel endpoint has no handler: its caller gets the error.
CancelThrows(c) == pc[c] \notin Settled /\ Throw(c, FALSE, "thrown")

\* A process stops in the middle of a loop or of a cancellation.
Crash(p) ==
    /\ crashes < MaxCrashes
    /\ pc[p] \notin Settled
    /\ crashes' = crashes + 1
    /\ pc' = [t \in Threads |-> IF t = p \/ t \in {p} \X Files THEN "crashed" ELSE pc[t]]
    /\ UNCHANGED <<requestVars, fileVars, dataVars, blob, client, faults, localVars>>

-----------------------------------------------------------------------------
(* What every restore keeps to.                                            *)

Labels == {"reset", "plan", "load", "loop", "abort", "queued", "check",
           "tryCancel", "cancelFiles", "cancelJobs", "dropTraces", "dropLogs",
           "finMail"}
          \cup Settled \cup RestoringFile \cup RecordingFault \cup Finalizing

\* The types of the shared state; 'labels' are the places a thread can be at.
StoreTypeOK(labels) ==
    /\ req \in [status : RequestStatuses, total : Nat, processed : Nat, failed : Nat]
    /\ file \in [Files -> FileStatuses]
    /\ reported \in [Files -> Nat]
    /\ job \in [Files -> JobStatuses]
    /\ rows \in [Files -> Nat]
    /\ mails \in Seq(TerminalRequestStatuses)
    /\ blob \in [Files -> Tiers]
    /\ client \in {"new", "created", "sent"}
    /\ pc \in [Threads -> labels]
    /\ next \in [Deliveries -> Nat \ {0}]
    /\ sent \in [FileThreads -> Nat]
    /\ snap \in [Finishers -> [processed : Nat, failed : Nat,
                               status : TerminalRequestStatuses]]
    /\ faults \in Nat
    /\ crashes \in Nat

\* The user gets at most one completion mail for a request, however many
\* threads observe that its last file has finished (UpdateFileRequestStatus).
NotifiedAtMostOnce == Len(mails) <= 1

\* A request whose mail went out is over, and with the outcome the mail told,
\* unless a later failure of a delivery turned it into Failed.
MailTellsOutcome == mails # <<>> => req.status \in {mails[1], "Failed"}

\* A request that is over is not reopened, and its outcome changes to nothing
\* but Failed (what the catch of ProcessRestoreAsync writes).
NeverReopened ==
    [][IsTerminal(req.status) => req.status' \in {req.status, "Failed"}]_storeVars

\* The outcome a finisher has written and not yet mailed.
Owed == IF \E t \in Finishers : pc[t] = "finMail"
        THEN snap[CHOOSE t \in Finishers : pc[t] = "finMail"].status
        ELSE "none"

Lifecycle == INSTANCE RequestLifecycle WITH status <- req.status, owed <- Owed, mails <- mails

\* The restore implements the life of a request its user sees.
ImplementsLifecycle == Lifecycle!Spec
=============================================================================

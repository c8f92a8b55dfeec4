--------------------------- MODULE ArchiveRestore ---------------------------
(***************************************************************************)
(* ArchiveRestoreService: the restore of days whose blobs may lie in the   *)
(* Archive tier.  ProcessRestoreAsync asks for the rehydration of those,   *)
(* restores the readable ones and ends; a maintenance message then runs    *)
(* CheckPendingHydrationsAsync again and again, which restores each blob   *)
(* once it is readable and finishes the request after the last one.        *)
(***************************************************************************)
EXTENDS RestoreStore

CONSTANT EarlyChecks   \* bound: whether checks run while a plan is written

ASSUME ArchiveAssumption == EarlyChecks \in BOOLEAN

VARIABLES hydrate,     \* NeedsHydration of each file-progress row
          overdue,     \* whether MaxHydrationWait passed since RequestedAt
          caught       \* whether a job's iteration is in its outer catch

pollVars == <<hydrate, overdue, caught>>
vars == <<storeVars, pollVars>>

JobThreads == Checks \X Files

Init ==
    /\ StoreInit
    /\ hydrate = [f \in Files |-> FALSE]
    /\ overdue = [f \in Files |-> FALSE]
    /\ caught = [t \in JobThreads |-> FALSE]

-----------------------------------------------------------------------------
(* A delivery of the message.                                              *)

\* PlanFileAsync.  An archived blob is asked for and gets its hydration job
\* first (CreateArchiveTierProgressAsync); its row is a call of its own.
PlanFile(d) ==
    LET f == next[d] IN
    /\ pc[d] = "plan"
    /\ f <= NumFiles
    /\ \/ /\ file[f] # "Absent" \/ blob[f] = "missing"
          /\ next' = [next EXCEPT ![d] = f + 1]
          /\ UNCHANGED <<file, job, pc, hydrate>>
       \/ /\ file[f] = "Absent"
          /\ blob[f] = "readable"
          /\ file' = [file EXCEPT ![f] = "Pending"]
          /\ hydrate' = [hydrate EXCEPT ![f] = FALSE]
          /\ next' = [next EXCEPT ![d] = f + 1]
          /\ UNCHANGED <<job, pc>>
       \/ /\ file[f] = "Absent"
          /\ blob[f] = "archived"
          /\ job' = [job EXCEPT ![f] = IF @ = "Absent" THEN "RehydrationRequested" ELSE @]
          /\ Goto(d, "planRow")
          /\ UNCHANGED <<file, next, hydrate>>
    /\ UNCHANGED <<requestVars, reported, rows, worldVars, sent, snap, overdue, caught>>

PlanArchivedRow(d) ==
    LET f == next[d] IN
    /\ pc[d] = "planRow"
    /\ file' = [file EXCEPT ![f] = "Pending"]
    /\ hydrate' = [hydrate EXCEPT ![f] = TRUE]
    /\ next' = [next EXCEPT ![d] = f + 1]
    /\ Goto(d, "plan")
    /\ UNCHANGED <<requestVars, reported, dataVars, worldVars, sent, snap, overdue, caught>>

\* GetReadablePendingFileProgressByRequestIdAsync.
LoadReadable(d) ==
    /\ pc[d] = "load"
    /\ LoadWork(d, {f \in Files : file[f] = "Pending" /\ ~hydrate[f]})

\* ExecuteReadableFilesAsync; unlike the cold loop it drops nothing when it
\* saw a cancellation.
EndLoop(d) == JoinLoop(d, IF BodyThrew(d) THEN "abort" ELSE "finRead")

\* Marking, completing and failing a row also writes NeedsHydration.
Hydrated(t) == hydrate' = [hydrate EXCEPT ![t[2]] = FALSE]

Deliver(d) ==
    \/ PlanFile(d)
    \/ PlanArchivedRow(d)
    \/ /\ \/ Claim(d)
          \/ ResetStuck(d)
          \/ UpdateTotal(d)
          \/ LoadReadable(d)
          \/ EndLoop(d)
          \/ Finalize(d)
          \/ AbortRequest(d)
       /\ UNCHANGED pollVars

\* RestoreSingleFileAsync.
RestoreFile(d, f) ==
    LET t == <<d, f>> IN
    \/ /\ MarkProcessing(t) \/ CompleteFile(t) \/ RecordFailure(t)
       /\ Hydrated(t)
       /\ UNCHANGED <<overdue, caught>>
    \/ /\ \/ StartFile(d, f)
          \/ CheckCancelled(d, f)
          \/ OpenBlob(t, "notFound")
          \/ PurgeStale(t)
          \/ InsertBatch(t)
          \/ CountFile(t, "done")
          \/ CountFailed(t, "countFailed", "done")
       /\ UNCHANGED pollVars

-----------------------------------------------------------------------------
(* A hydration check.                                                      *)

Planning(d) == pc[d] \in {"reset", "plan", "planRow"}

\* CheckPendingHydrationsAsync works on the jobs that were pending when it
\* read them; the next check begins after this one has ended.
LoadJobs(k) ==
    /\ pc[k] = "idle"
    /\ EarlyChecks \/ \A d \in Deliveries : ~Planning(d)
    /\ LET pending == {f \in Files : job[f] = "RehydrationRequested"}
       IN  pending # {} /\ LoadWork(k, pending)

Check(k) == LoadJobs(k) \/ JoinLoop(k, "idle")

\* The start of ProcessHydrationJobAsync.
StartJob(k, f) ==
    /\ StartBody(k, f, "tier")
    /\ caught' = [caught EXCEPT ![<<k, f>>] = FALSE]
    /\ UNCHANGED <<hydrate, overdue>>

ReadTier(t) ==
    LET f == t[2] IN
    /\ pc[t] = "tier"
    /\ Goto(t, CASE blob[f] = "readable"                  -> "progress"
                 [] blob[f] = "archived" /\ ~overdue[f]   -> "wait"
                 [] blob[f] = "archived" /\ overdue[f]    -> "failJob"
                 [] blob[f] = "missing"                   -> "failJob")
    /\ UNCHANGED <<requestVars, fileVars, dataVars, worldVars, localVars>>

\* UpdateHydrationStatusByIdAsync writes over whatever status the job has.
WriteJob(t, at, status, after) ==
    /\ pc[t] = at
    /\ job' = [job EXCEPT ![t[2]] = status]
    /\ Goto(t, after)
    /\ UNCHANGED <<requestVars, fileVars, rows, worldVars, localVars>>

\* The rows that HandleHydrationFailure and RestoreHydratedBlob skip.
Over(f) == file[f] \in {"Completed", "Failed", "FileNotFound"}

\* RestoreHydratedBlobAsync reads the row once and acts on what it read.
ReadProgress(t) ==
    LET f == t[2] IN
    /\ pc[t] = "progress"
    /\ Goto(t, CASE file[f] = "Absent"                -> "orphan"
                 [] Over(f)                           -> "already"
                 [] file[f] # "Absent" /\ ~Over(f)    -> "mark")
    /\ UNCHANGED <<requestVars, fileVars, dataVars, worldVars, localVars>>

\* Slip: a row that was not begun is not failed with its job.
ReadFailedRowSkipping(t) ==
    /\ pc[t] = "failRead"
    /\ Goto(t, IF file[t[2]] \in {"Absent", "Pending"} \/ Over(t[2]) THEN "finRead" ELSE "failRow")
    /\ UNCHANGED <<requestVars, fileVars, dataVars, worldVars, localVars>>

\* HandleHydrationFailureAsync, after it failed the job: the row is read, then
\* failed and counted if it was not over.
ReadFailedRow(t) ==
    /\ pc[t] = "failRead"
    /\ Goto(t, IF file[t[2]] = "Absent" \/ Over(t[2]) THEN "finRead" ELSE "failRow")
    /\ UNCHANGED <<requestVars, fileVars, dataVars, worldVars, localVars>>

FailRow(t) ==
    /\ pc[t] = "failRow"
    /\ WriteFile(t[2], "Failed", 0)
    /\ hydrate' = [hydrate EXCEPT ![t[2]] = TRUE]
    /\ Goto(t, "failCount")
    /\ UNCHANGED <<requestVars, dataVars, worldVars, localVars, overdue, caught>>

ProcessJob(k, f) ==
    LET t == <<k, f>> IN
    \/ StartJob(k, f)
    \/ FailRow(t)
    \/ /\ MarkProcessing(t) \/ CompleteFile(t) \/ RecordFailure(t)
       /\ Hydrated(t)
       /\ UNCHANGED <<overdue, caught>>
    \/ /\ \/ ReadTier(t)
          \/ WriteJob(t, "wait", "RehydrationRequested", "done")
          \/ ReadProgress(t)
          \/ WriteJob(t, "orphan", "Failed", "finRead")
          \/ WriteJob(t, "already", "Ready", "finRead")
          \/ OpenBlob(t, "failing")
          \/ PurgeStale(t)
          \/ InsertBatch(t)
          \/ CountFile(t, "restored")
          \/ WriteJob(t, "restored", "Ready", "finRead")
          \/ CountFailed(t, "countFailed", "notRestored")
          \/ WriteJob(t, "notRestored", "Failed", "finRead")
          \/ WriteJob(t, "failJob", "Failed", "failRead")
          \/ ReadFailedRow(t)
          \/ CountFailed(t, "failCount", "finRead")
          \/ Finalize(t)
       /\ UNCHANGED pollVars

-----------------------------------------------------------------------------
(* Failures and the outside world.                                         *)

DeliveryThrows(d) ==
    \/ /\ pc[d] \in {"reset", "plan", "planRow", "load"} \cup Finalizing
       /\ Throw(d, FALSE, "abort")
    \/ pc[d] = "idle" /\ client = "sent" /\ Throw(d, FALSE, "abort")
    \/ pc[d] = "abort" /\ Throw(d, FALSE, "done")
    \/ LoseEmail(d)

FileThrows(d, f) ==
    LET t == <<d, f>> IN
    \/ pc[t] \in RestoringFile  /\ Throw(t, BodyThrew(d), "failing")
    \/ pc[t] = "check"          /\ Throw(t, BodyThrew(d), "thrown")
    \/ pc[t] \in RecordingFault /\ Throw(t, FALSE, "thrown")

\* The outer try of ProcessHydrationJobAsync, and the part of it that runs with
\* the token of the loop.
HandledByToken == {"tier", "wait", "progress", "orphan", "already", "failJob",
                   "failRead", "failRow", "failCount"} \cup Finalizing
Handled == HandledByToken \cup RecordingFault \cup {"notRestored"}

\* The inner handler records the failure on the row; the outer one runs
\* HandleHydrationFailureAsync, and what is thrown there leaves the body.
JobThrows(k, f) ==
    LET t == <<k, f>> IN
    \/ /\ pc[t] \in RestoringFile \cup {"restored"}
       /\ Throw(t, BodyThrew(k), "failing")
       /\ UNCHANGED pollVars
    \/ /\ pc[t] \in Handled /\ ~caught[t]
       /\ Throw(t, BodyThrew(k) /\ pc[t] \in HandledByToken, "failJob")
       /\ caught' = [caught EXCEPT ![t] = TRUE]
       /\ UNCHANGED <<hydrate, overdue>>
    \/ /\ pc[t] \in Handled /\ caught[t]
       /\ Throw(t, FALSE, "thrown")
       /\ UNCHANGED pollVars
    \/ LoseEmail(t) /\ UNCHANGED pollVars

\* External: a blob asked for becomes readable; lifecycle rules archive or
\* delete blobs.
BlobMoves(f) ==
    /\ \/ blob[f] = "archived" /\ job[f] # "Absent" /\ blob' = [blob EXCEPT ![f] = "readable"]
       \/ blob[f] = "readable" /\ job[f] = "Absent" /\ blob' = [blob EXCEPT ![f] = "archived"]
       \/ blob[f] # "missing"  /\ blob' = [blob EXCEPT ![f] = "missing"]
    /\ UNCHANGED <<requestVars, fileVars, dataVars, client, faults, crashes, pc,
                   localVars, pollVars>>

\* External: MaxHydrationWait passes.
TimePasses(f) ==
    /\ job[f] = "RehydrationRequested"
    /\ ~overdue[f]
    /\ overdue' = [overdue EXCEPT ![f] = TRUE]
    /\ UNCHANGED <<storeVars, hydrate, caught>>

Terminating ==
    /\ \A t \in Threads : pc[t] \in Settled \cup {"queued"}
    /\ client = "sent"
    /\ \A d \in Deliveries : pc[d] # "idle"
    /\ UNCHANGED vars

Next ==
    \/ (CreateRequest \/ SendMessage) /\ UNCHANGED pollVars
    \/ \E d \in Deliveries :
          \/ Deliver(d)
          \/ DeliveryThrows(d) /\ UNCHANGED pollVars
          \/ \E f \in Files : \/ RestoreFile(d, f)
                              \/ FileThrows(d, f) /\ UNCHANGED pollVars
    \/ \E k \in Checks :
          \/ Check(k) /\ UNCHANGED pollVars
          \/ \E f \in Files : ProcessJob(k, f) \/ JobThrows(k, f)
    \/ \E c \in Callers : (CancelRestore(c) \/ CancelThrows(c)) /\ UNCHANGED pollVars
    \/ \E p \in Loops \cup Callers : Crash(p) /\ UNCHANGED pollVars
    \/ \E f \in Files : BlobMoves(f) \/ TimePasses(f)
    \/ Terminating

Spec == Init /\ [][Next]_vars

\* The broker delivers both messages, the processes run on, and time passes;
\* a blob need never become readable, and nobody has to cancel.
Fairness ==
    /\ \A d \in Deliveries :
          /\ WF_vars(Deliver(d))
          /\ \A f \in Files : WF_vars(RestoreFile(d, f))
    /\ \A k \in Checks :
          /\ WF_vars(Check(k) /\ UNCHANGED pollVars)
          /\ \A f \in Files : WF_vars(ProcessJob(k, f))
    /\ \A f \in Files : WF_vars(TimePasses(f))

FairSpec == Spec /\ Fairness

-----------------------------------------------------------------------------
(* Properties.                                                             *)

JobLabels == {"planRow", "restored"} \cup Handled

\* Types: the shared state and what only the archive restore keeps.
TypeOK ==
    /\ StoreTypeOK(Labels \cup JobLabels)
    /\ hydrate \in [Files -> BOOLEAN]
    /\ overdue \in [Files -> BOOLEAN]
    /\ caught \in [JobThreads -> BOOLEAN]

\* Completed is told only when every planned file has all its rows, once.  The
\* progress rows are left out: a job that completed its row and then fails to
\* count it marks the row Failed, after another thread may have finished.
CompletedMeansRestored ==
    req.status = "Completed" => \A f \in Planned : rows[f] = Batches

\* A job that ended well left a row that is over, so that no file waits for a
\* job that will never be polled again.
ReadyMeansOver == \A f \in Files : job[f] = "Ready" => file[f] \in TerminalFileStatuses

\* No file is forgotten: a row that waits for its hydration has a pending job
\* once the plan is written, as long as nobody cancelled and whatever single call
\* failed.
WaitingHasJob ==
    /\ req.status = "InProgress" /\ faults <= 1
    /\ \A d \in Deliveries : ~Planning(d)
    => \A f \in Files :
          file[f] = "Pending" /\ hydrate[f]
              => \/ job[f] = "RehydrationRequested"
                 \/ \E k \in Checks : pc[<<k, f>>] \in JobLabels

\* A message that was sent ends its request, whether or not the blobs ever
\* become readable (MaxHydrationWait), and whatever single call fails.
EventuallyOver == client = "sent" ~> IsTerminal(req.status) \/ faults > 1

-----------------------------------------------------------------------------
(* What the documentation says and the code does not keep.                 *)

\* "Definitively recomputes ProcessedFiles / FailedFiles ... as a safety net
\* against drift": the counters of a request that ended by itself are exact.
CountersExact ==
    req.status \in {"Completed", "PartialSuccess"} =>
        /\ req.processed = req.total
        /\ req.failed = Cardinality(FailedFiles)

\* "No files at all means the requested range had nothing archived": a request
\* that completed without files asked for no rehydration.
EmptyMeansNothingArchived ==
    req.status = "Completed" /\ Planned = {} => \A f \in Files : job[f] = "Absent"

\* "Marks every not-yet-finished file of the request as Cancelled, so nothing
\* further is picked up by the executor or the hydration poll."
CancelStopsPoll ==
    [][(\E c \in Callers : pc[c] = "cancelled")
          => \A k \in Checks : pc[k] = "idle" => pc'[k] = "idle"]_storeVars

\* "Delete stale results BEFORE streaming": once nobody works on it any more, a
\* file that was restored again has its rows once, as many as its row reports.
RestoredOnce ==
    \A f \in Files :
        file[f] = "Completed" /\ (\A l \in Loops : pc[<<l, f>>] \in Settled)
            => rows[f] = reported[f]
=============================================================================

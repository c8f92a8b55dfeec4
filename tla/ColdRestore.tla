----------------------------- MODULE ColdRestore ----------------------------
(***************************************************************************)
(* LogTraceRestoreService.ProcessRestoreAsync: the restore of days whose   *)
(* blobs are still readable, run once or more for one request, while the   *)
(* user cancels and calls fail.  It has no hydration jobs and no checks.   *)
(***************************************************************************)
EXTENDS RestoreStore

ASSUME ColdAssumption == Checks = {}

vars == storeVars

\* One file of PrepareRestorePlanAsync.  The existence of the row and the tier
\* are read and the row is written in one step: nothing this service does
\* depends on when the tier was read.
PlanFile(d) ==
    LET f == next[d] IN
    /\ pc[d] = "plan"
    /\ f <= NumFiles
    /\ next' = [next EXCEPT ![d] = f + 1]
    /\ \/ (file[f] # "Absent" \/ blob[f] = "missing") /\ UNCHANGED file
       \/ /\ file[f] = "Absent"
          /\ blob[f] # "missing"
          /\ file' = [file EXCEPT ![f] = IF blob[f] = "archived" THEN "Failed" ELSE "Pending"]
    /\ UNCHANGED <<requestVars, reported, dataVars, worldVars, pc, sent, snap>>

LoadPending(d) ==
    /\ pc[d] = "load"
    /\ LoadWork(d, {f \in Files : file[f] = "Pending"})

RestoreFile(d, f) ==
    \/ StartFile(d, f)
    \/ CheckCancelled(d, f)
    \/ MarkProcessing(<<d, f>>)
    \/ OpenBlob(<<d, f>>, "notFound")
    \/ PurgeStale(<<d, f>>)
    \/ InsertBatch(<<d, f>>)
    \/ CompleteFile(<<d, f>>)
    \/ CountFile(<<d, f>>, "done")
    \/ RecordFailure(<<d, f>>)
    \/ CountFailed(<<d, f>>, "countFailed", "done")

\* Slip: the loop that saw a cancellation drops nothing.
EndLoopKeeping(d) == JoinLoop(d, IF BodyThrew(d) THEN "abort" ELSE "finRead")

\* A body that threw ends the delivery; a cancellation one of them saw makes
\* it drop the results once more.
EndLoop(d) == JoinLoop(d, CASE BodyThrew(d)                    -> "abort"
                            [] ~BodyThrew(d) /\ SawCancel(d)   -> "dropTraces"
                            [] ~BodyThrew(d) /\ ~SawCancel(d)  -> "finRead")

Deliver(d) ==
    \/ Claim(d)
    \/ ResetStuck(d)
    \/ PlanFile(d)
    \/ UpdateTotal(d)
    \/ LoadPending(d)
    \/ EndLoop(d)
    \/ DropTraces(d)
    \/ DropLogs(d, "finRead")
    \/ Finalize(d)
    \/ AbortRequest(d)

-----------------------------------------------------------------------------
(* Failures and the outside world.                                         *)

Preparing == {"reset", "plan", "load"}

\* Every call of a delivery is inside the try block of ProcessRestoreAsync,
\* the claim included; the call of its catch block is not.
DeliveryThrows(d) ==
    \/ /\ pc[d] \in {"dropTraces", "dropLogs"} \cup Preparing \cup Finalizing
       /\ Throw(d, FALSE, "abort")
    \/ pc[d] = "idle" /\ client = "sent" /\ Throw(d, FALSE, "abort")
    \/ pc[d] = "abort" /\ Throw(d, FALSE, "done")
    \/ LoseEmail(d)

\* A fault while a file is restored is recorded on its row; one in the check
\* or in the recording leaves the body, and cancels the token of the others.
FileThrows(d, f) ==
    LET t == <<d, f>> IN
    \/ pc[t] \in RestoringFile  /\ Throw(t, BodyThrew(d), "failing")
    \/ pc[t] = "check"          /\ Throw(t, BodyThrew(d), "thrown")
    \/ pc[t] \in RecordingFault /\ Throw(t, FALSE, "thrown")

\* External: the storage account's lifecycle rules archive or delete a blob.
BlobMoves(f) ==
    /\ \/ blob[f] = "readable" /\ blob' = [blob EXCEPT ![f] = "archived"]
       \/ blob[f] # "missing"  /\ blob' = [blob EXCEPT ![f] = "missing"]
    /\ UNCHANGED <<requestVars, fileVars, dataVars, client, faults, crashes, pc, localVars>>

\* Every thread has ended, and no delivery is left that could still begin.
Terminating ==
    /\ \A t \in Threads : pc[t] \in Settled \cup {"queued"}
    /\ client = "sent"
    /\ \A d \in Deliveries : pc[d] # "idle"
    /\ UNCHANGED vars

Next ==
    \/ CreateRequest
    \/ SendMessage
    \/ \E d \in Deliveries :
          \/ Deliver(d)
          \/ DeliveryThrows(d)
          \/ \E f \in Files : RestoreFile(d, f) \/ FileThrows(d, f)
    \/ \E c \in Callers : CancelRestore(c) \/ CancelThrows(c)
    \/ \E p \in Deliveries \cup Callers : Crash(p)
    \/ \E f \in Files : BlobMoves(f)
    \/ Terminating

Init == StoreInit

Spec == Init /\ [][Next]_vars

\* The broker delivers the message and the process runs on: each delivery and
\* each of its bodies takes its next step unless it has crashed.  Nobody has
\* to create a request, send the message or cancel.
Fairness ==
    \A d \in Deliveries :
       /\ WF_vars(Deliver(d))
       /\ \A f \in Files : WF_vars(RestoreFile(d, f))

FairSpec == Spec /\ Fairness

-----------------------------------------------------------------------------
(* Properties.                                                             *)

\* Types: the place of every thread and the fields of every document.
TypeOK == StoreTypeOK(Labels)

\* A delivery that works on the request: past the claim, not yet at its catch.
Executing(d) ==
    pc[d] \in {"loop", "dropTraces", "dropLogs", "finMail"} \cup Preparing \cup Finalizing

\* However often the message is delivered, one delivery plans and restores
\* (TryBeginProcessingAsync): the loser of the claim does nothing.
SingleExecution ==
    \A d, e \in Deliveries : Executing(d) /\ Executing(e) => d = e

\* Completed is told only when every planned file has all its rows, once, and
\* its progress row says so.
CompletedMeansRestored ==
    req.status = "Completed" =>
        \A f \in Planned : /\ file[f] = "Completed"
                           /\ rows[f] = Batches
                           /\ reported[f] = Batches

\* The counters of a request that ended by itself are the numbers of its files.
CountersExact ==
    req.status \in {"Completed", "PartialSuccess"} =>
        /\ req.total = Cardinality(Planned)
        /\ req.processed = req.total
        /\ req.failed = Cardinality(FailedFiles)

\* When the loop saw the cancellation, nothing it or the other bodies wrote
\* outlives the delivery (ExecutePendingFilesAsync drops on its way out).
NoticedCancelDiscardsAll ==
    \A d \in Deliveries :
        pc[d] = "done" /\ SawCancel(d) /\ req.status = "Cancelled"
            => \A f \in Files : rows[f] = 0

\* When it did not, only files that were past their check when the user
\* cancelled can keep rows: never more than run at a time.  A failure that
\* turned Cancelled into Failed is excluded: the loop no longer sees it then.
LeftoversBounded ==
    /\ req.status = "Cancelled"
    /\ \E c \in Callers : pc[c] = "cancelled"
    /\ \A d \in Deliveries : pc[d] \in Settled
    => Cardinality({f \in Files : rows[f] > 0}) <= MaxParallel

\* A message that was sent ends its request, whatever single call fails: the
\* user can always ask again.
EventuallyOver == client = "sent" ~> IsTerminal(req.status) \/ faults > 1

-----------------------------------------------------------------------------
(* What the documentation says and the code does not keep.                 *)

\* "Statuses a request can no longer be moved out of."
TerminalIsFinal ==
    [][IsTerminal(req.status) => req.status' = req.status]_storeVars

\* "Partially restored data has been discarded."
CancelDiscards ==
    /\ \E c \in Callers : pc[c] = "cancelled"
    /\ \A d \in Deliveries : pc[d] \in Settled
    => \A f \in Files : rows[f] = 0
=============================================================================

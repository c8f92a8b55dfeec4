------------------------------- MODULE Backup -------------------------------
(***************************************************************************)
(* ArchiveService.StartBackupAsync: the daily move of one tenant's logs    *)
(* from the hot database through an archive collection into a blob.        *)
(*                                                                         *)
(* A run covers one window.  The archive collection and the blob are named *)
(* by tenant and window and shared by all the services of the tenant, and  *)
(* a run uploads every archive collection it finds, also those that        *)
(* earlier runs left.  Threads: a run r, its iteration <<r, s>> over       *)
(* service s, its iteration <<r, w>> over the collection of window w.      *)
(***************************************************************************)
EXTENDS Naturals, FiniteSets

CONSTANTS Runs,         \* triggers: schedule, redelivery, on-demand endpoint
          Windows,      \* windows of one day
          WindowOf,     \* the window ComputeBackupDateRangeAsync gives a run
          Services,     \* services with logs of the tenant
          Managed,      \* the services archived as managed services
          NumBatches,   \* cursor batches of each service and window
          Racing,       \* bound: whether a trigger may miss an active run, by
                        \* overlapping with its check or because the query failed
          Slow,         \* bound: whether a live run may miss its heartbeats
          MaxFaults,    \* bound: calls that throw
          MaxCrashes    \* bound: crashes of the worker

ASSUME BackupAssumption ==
    /\ WindowOf \in [Runs -> Windows]
    /\ Managed \subseteq Services
    /\ NumBatches \in Nat \ {0}
    /\ {Racing, Slow} \subseteq BOOLEAN
    /\ {MaxFaults, MaxCrashes} \subseteq Nat
    /\ Runs \cap (Runs \X (Services \cup Windows)) = {}
    /\ Services \cap Windows = {}

Logs == Services \X (1 .. NumBatches)

VARIABLES source,   \* logs of each window in the hot database
          archive,  \* logs of each window in its archive collection
          listed,   \* whether the archive collection exists
          blob,     \* logs of each window in its parquet blob
          job,      \* status of the job document of each run
          erred,    \* whether its TotalFailed is above 0
          stale,    \* whether its last heartbeat is older than the threshold
          pc,       \* where each thread is
          todo,     \* batches the cursor of a service has still to return
          wrote,    \* batches of a service this run has archived
          got,      \* what an upload has read
          raced,    \* history: runs whose check was overlapped or failed
          lapsed,   \* history: runs that missed their heartbeats while alive
          faults,
          crashes

dataVars  == <<source, archive, listed, blob>>
jobVars   == <<job, erred, stale>>
localVars == <<todo, wrote, got>>
histVars  == <<raced, lapsed>>
badVars   == <<histVars, faults, crashes>>
vars == <<dataVars, jobVars, pc, localVars, badVars>>

ServiceThreads == Runs \X Services
UploadThreads  == Runs \X Windows
Threads == Runs \cup ServiceThreads \cup UploadThreads

LogsOf(s) == {s} \X (1 .. NumBatches)
Window(t) == WindowOf[t[1]]
JobStatuses == {"none", "Running", "Completed", "CompletedWithErrors", "Failed", "Abandoned"}
RunEnds == {"refused", "ended", "crashed"}
RunPlaces == {"idle", "check", "create", "discover", "archiving", "uploading", "failing"}
             \cup RunEnds
ServicePlaces == {"idle", "open", "stream", "delete", "discard", "markFailed", "done", "crashed"}
UploadPlaces  == {"idle", "read", "store", "drop", "done", "crashed"}

Init ==
    /\ source = [w \in Windows |-> Logs]
    /\ archive = [w \in Windows |-> {}]
    /\ listed = [w \in Windows |-> FALSE]
    /\ blob = [w \in Windows |-> {}]
    /\ job = [r \in Runs |-> "none"]
    /\ erred = [r \in Runs |-> FALSE]
    /\ stale = [r \in Runs |-> FALSE]
    /\ pc = [t \in Threads |-> "idle"]
    /\ todo = [t \in ServiceThreads |-> {}]
    /\ wrote = [t \in ServiceThreads |-> {}]
    /\ got = [u \in UploadThreads |-> {}]
    /\ raced = {}
    /\ lapsed = {}
    /\ faults = 0
    /\ crashes = 0

Goto(t, place) == pc' = [pc EXCEPT ![t] = place]
Heartbeat(r) == stale' = [stale EXCEPT ![r] = FALSE]

-----------------------------------------------------------------------------
(* A trigger: release stale runs, look for an active one, create the job.  *)

Entering(r) == pc[r] \in {"check", "create"}

\* From release to check; a run that enters while another does is overlapped.
EnterCheck(r) ==
    /\ pc[r] = "idle"
    /\ Racing \/ \A q \in Runs : ~Entering(q)
    /\ Goto(r, "check")
    /\ raced' = IF \E q \in Runs : Entering(q) THEN raced \cup {r} ELSE raced

\* Slip: the live runs are released.
ReleaseLive(r) ==
    /\ EnterCheck(r)
    /\ job' = [q \in Runs |-> IF job[q] = "Running" /\ ~stale[q] THEN "Abandoned" ELSE job[q]]
    /\ UNCHANGED <<dataVars, erred, stale, localVars, lapsed, faults, crashes>>

ReleaseStale(r) ==
    /\ EnterCheck(r)
    /\ job' = [q \in Runs |-> IF job[q] = "Running" /\ stale[q] THEN "Abandoned" ELSE job[q]]
    /\ UNCHANGED <<dataVars, erred, stale, localVars, lapsed, faults, crashes>>

\* Slip: the answer is not looked at.
CheckNothing(r) ==
    /\ pc[r] = "check"
    /\ Goto(r, "create")
    /\ UNCHANGED <<dataVars, jobVars, localVars, badVars>>

CheckActive(r) ==
    /\ pc[r] = "check"
    /\ Goto(r, IF \E q \in Runs : job[q] = "Running" THEN "refused" ELSE "create")
    /\ UNCHANGED <<dataVars, jobVars, localVars, badVars>>

CreateJob(r) ==
    /\ pc[r] = "create"
    /\ job' = [job EXCEPT ![r] = "Running"]
    /\ Goto(r, "discover")
    /\ UNCHANGED <<dataVars, erred, stale, localVars, badVars>>

-----------------------------------------------------------------------------
(* Phase 1: each service with logs in the window is archived.              *)

\* The services of both kinds that are listed are archived; then the run goes
\* on from the place 'after'.
StartServices(r, listable, after) ==
    /\ pc' = [t \in Threads |->
                IF t = r THEN after
                ELSE IF t \in {r} \X {s \in listable : LogsOf(s) \cap source[WindowOf[r]] # {}}
                     THEN "open" ELSE pc[t]]
    /\ UNCHANGED <<dataVars, jobVars, localVars>>

Discover(r) ==
    /\ pc[r] = "discover"
    /\ StartServices(r, Services, "archiving")
    /\ UNCHANGED badVars

OpenCursor(t) ==
    /\ pc[t] = "open"
    /\ todo' = [todo EXCEPT ![t] = LogsOf(t[2]) \cap source[Window(t)]]
    /\ Goto(t, "stream")
    /\ UNCHANGED <<dataVars, jobVars, wrote, got, badVars>>

\* One batch of ArchiveServiceLogsByTenantAsync.
ArchiveBatch(t, log) ==
    /\ pc[t] = "stream"
    /\ log \in todo[t]
    /\ archive' = [archive EXCEPT ![Window(t)] = @ \cup {log}]
    /\ listed' = [listed EXCEPT ![Window(t)] = TRUE]
    /\ wrote' = [wrote EXCEPT ![t] = @ \cup {log}]
    /\ todo' = [todo EXCEPT ![t] = @ \ {log}]
    /\ Heartbeat(t[1])
    /\ UNCHANGED <<source, blob, job, erred, pc, got, badVars>>

EndStream(t) ==
    /\ pc[t] = "stream"
    /\ todo[t] = {}
    /\ Goto(t, IF wrote[t] = {} THEN "done" ELSE "delete")
    /\ UNCHANGED <<dataVars, jobVars, localVars, badVars>>

\* DeleteLogsByServiceAndTenantAsync deletes the whole window of the service.
DeleteSource(t) ==
    /\ pc[t] = "delete"
    /\ source' = [source EXCEPT ![Window(t)] = @ \ LogsOf(t[2])]
    /\ Heartbeat(t[1])
    /\ Goto(t, "done")
    /\ UNCHANGED <<archive, listed, blob, job, erred, localVars, badVars>>

\* DeleteArchivedLogsByServiceAsync: the collection itself stays.
DiscardPartial(t) ==
    /\ pc[t] = "discard"
    /\ archive' = [archive EXCEPT ![Window(t)] = @ \ LogsOf(t[2])]
    /\ Goto(t, "markFailed")
    /\ UNCHANGED <<source, listed, blob, jobVars, localVars, badVars>>

\* Mark[Service]LogArchiveFailedAsync counts the failure on the job.
MarkFailed(t) ==
    /\ pc[t] = "markFailed"
    /\ erred' = [erred EXCEPT ![t[1]] = TRUE]
    /\ Goto(t, "done")
    /\ UNCHANGED <<dataVars, job, stale, localVars, badVars>>

ArchiveService(t) ==
    \/ OpenCursor(t)
    \/ \E log \in todo[t] : ArchiveBatch(t, log)
    \/ EndStream(t)
    \/ DeleteSource(t)
    \/ DiscardPartial(t)
    \/ MarkFailed(t)

-----------------------------------------------------------------------------
(* Phase 2: every archive collection found is uploaded and dropped.        *)

Ended(t) == pc[t] \in {"idle", "done"}

ListCollections(r) ==
    /\ pc[r] = "archiving"
    /\ \A s \in Services : Ended(<<r, s>>)
    /\ pc' = [t \in Threads |->
                IF t = r THEN "uploading"
                ELSE IF t \in {r} \X {w \in Windows : listed[w]} THEN "read" ELSE pc[t]]
    /\ UNCHANGED <<dataVars, jobVars, localVars, badVars>>

ReadCollection(u) ==
    /\ pc[u] = "read"
    /\ got' = [got EXCEPT ![u] = archive[u[2]]]
    /\ Goto(u, IF archive[u[2]] = {} THEN "drop" ELSE "store")
    /\ UNCHANGED <<dataVars, jobVars, todo, wrote, badVars>>

\* BlobStorage.SaveAsync overwrites the blob.
StoreBlob(u) ==
    /\ pc[u] = "store"
    /\ blob' = [blob EXCEPT ![u[2]] = got[u]]
    /\ Goto(u, "drop")
    /\ UNCHANGED <<source, archive, listed, jobVars, localVars, badVars>>

DropCollection(u) ==
    /\ pc[u] = "drop"
    /\ archive' = [archive EXCEPT ![u[2]] = {}]
    /\ listed' = [listed EXCEPT ![u[2]] = FALSE]
    /\ Heartbeat(u[1])
    /\ Goto(u, "done")
    /\ UNCHANGED <<source, blob, job, erred, localVars, badVars>>

UploadCollection(u) == ReadCollection(u) \/ StoreBlob(u) \/ DropCollection(u)

\* CompleteJobAsync writes over whatever status the job has by now.
CompleteJob(r) ==
    /\ pc[r] = "uploading"
    /\ \A w \in Windows : Ended(<<r, w>>)
    /\ job' = [job EXCEPT ![r] = IF erred[r] THEN "CompletedWithErrors" ELSE "Completed"]
    /\ Heartbeat(r)
    /\ Goto(r, "ended")
    /\ UNCHANGED <<dataVars, erred, localVars, badVars>>

\* Slip: the status of a service is written on the job.
FailJobAsService(r) ==
    /\ pc[r] = "failing"
    /\ \A s \in Services : Ended(<<r, s>>)
    /\ job' = [job EXCEPT ![r] = "ArchiveFailed"]
    /\ Heartbeat(r)
    /\ Goto(r, "ended")
    /\ UNCHANGED <<dataVars, erred, localVars, badVars>>

\* The catch of StartBackupAsync, once all that was started has ended.
FailJob(r) ==
    /\ pc[r] = "failing"
    /\ \A s \in Services : Ended(<<r, s>>)
    /\ job' = [job EXCEPT ![r] = "Failed"]
    /\ Heartbeat(r)
    /\ Goto(r, "ended")
    /\ UNCHANGED <<dataVars, erred, localVars, badVars>>

Run(r) ==
    \/ ReleaseStale(r)
    \/ CheckActive(r)
    \/ CreateJob(r)
    \/ Discover(r)
    \/ ListCollections(r)
    \/ CompleteJob(r)
    \/ FailJob(r)

-----------------------------------------------------------------------------
(* Failures.                                                               *)

Fault == faults < MaxFaults /\ faults' = faults + 1

\* Slip: a tenant whose write failed stays in the list of those to delete.
InsertFailsUnnoticed(t) ==
    /\ pc[t] = "stream"
    /\ UNCHANGED <<archive, listed>>
    /\ Goto(t, "delete")
    /\ UNCHANGED <<source, blob, jobVars, localVars>>

\* ArchiveLogsAsync throws, possibly after a part of the batch was inserted;
\* only what earlier batches wrote makes the run discard its rows.
InsertFails(t) ==
    /\ pc[t] = "stream"
    /\ \E log \in todo[t], written \in BOOLEAN :
          /\ written  => /\ archive' = [archive EXCEPT ![Window(t)] = @ \cup {log}]
                         /\ listed' = [listed EXCEPT ![Window(t)] = TRUE]
          /\ ~written => UNCHANGED <<archive, listed>>
    /\ Goto(t, IF wrote[t] = {} THEN "markFailed" ELSE "discard")
    /\ UNCHANGED <<source, blob, jobVars, localVars>>

\* The cursor throws: the exception passes by the discard of the tenant, and
\* is counted for a managed service only.
StreamFails(t) ==
    /\ pc[t] \in {"open", "stream"}
    /\ Goto(t, IF t[2] \in Managed THEN "markFailed" ELSE "done")
    /\ UNCHANGED <<dataVars, jobVars, localVars>>

\* Calls whose failure is logged and swallowed.
CallFails(t) ==
    /\ \/ pc[t] = "discard" /\ Goto(t, "markFailed")
       \/ pc[t] \in {"delete", "markFailed", "drop"} /\ Goto(t, "done")
    /\ UNCHANGED <<dataVars, jobVars, localVars>>

\* Reading the collection or the last attempt to upload it throws.
UploadFails(u) ==
    /\ pc[u] \in {"read", "store"}
    /\ erred' = [erred EXCEPT ![u[1]] = TRUE]
    /\ Goto(u, "done")
    /\ UNCHANGED <<dataVars, job, stale, localVars>>

\* Listing the services of one kind throws: the others are archived, then the
\* run fails.  Listing the collections throws after all were archived.
ListingFails(r) ==
    \/ /\ pc[r] = "discover"
       /\ \E kind \in {Managed, Services \ Managed} : StartServices(r, kind, "failing")
    \/ /\ pc[r] = "archiving"
       /\ \A s \in Services : Ended(<<r, s>>)
       /\ StartServices(r, {}, "failing")

\* The calls on the job document, by the place of the run: releasing stale
\* runs, looking for an active one and the last update log their failure;
\* creating the job throws.
JobCallFails(r) ==
    /\ \/ EnterCheck(r)
       \/ /\ pc[r] = "check" /\ Racing
          /\ Goto(r, "create")
          /\ raced' = raced \cup {r}
       \/ /\ \/ pc[r] = "create"
             \/ pc[r] = "uploading" /\ \A w \in Windows : Ended(<<r, w>>)
             \/ pc[r] = "failing" /\ \A s \in Services : Ended(<<r, s>>)
          /\ Goto(r, "ended")
          /\ UNCHANGED raced
    /\ UNCHANGED <<dataVars, jobVars, localVars, lapsed>>

Crash(r) ==
    /\ crashes < MaxCrashes
    /\ pc[r] \notin RunEnds \cup {"idle"}
    /\ crashes' = crashes + 1
    /\ pc' = [t \in Threads |->
                IF t = r \/ t \in {r} \X (Services \cup Windows) THEN "crashed" ELSE pc[t]]
    /\ UNCHANGED <<dataVars, jobVars, localVars, histVars, faults>>

\* BackupStaleRunThreshold passes without a heartbeat.
TimePasses(r) ==
    /\ job[r] = "Running"
    /\ ~stale[r]
    /\ Slow \/ pc[r] \in RunEnds
    /\ stale' = [stale EXCEPT ![r] = TRUE]
    /\ lapsed' = IF pc[r] \in RunEnds THEN lapsed ELSE lapsed \cup {r}
    /\ UNCHANGED <<dataVars, job, erred, pc, localVars, raced, faults, crashes>>

Terminating == (\A r \in Runs : pc[r] \in RunEnds) /\ UNCHANGED vars

Next ==
    \/ \E r \in Runs : \/ Run(r)
                       \/ ListingFails(r) /\ Fault /\ UNCHANGED <<histVars, crashes>>
                       \/ JobCallFails(r) /\ Fault /\ UNCHANGED crashes
                       \/ Crash(r)
                       \/ TimePasses(r)
    \/ \E t \in ServiceThreads : \/ ArchiveService(t)
                                 \/ (InsertFails(t) \/ StreamFails(t) \/ CallFails(t))
                                      /\ Fault /\ UNCHANGED <<histVars, crashes>>
    \/ \E u \in UploadThreads : \/ UploadCollection(u)
                                \/ (UploadFails(u) \/ CallFails(u))
                                      /\ Fault /\ UNCHANGED <<histVars, crashes>>
    \/ Terminating

Spec == Init /\ [][Next]_vars

\* The worker runs on.
Fairness ==
    /\ \A r \in Runs : WF_vars(Run(r))
    /\ \A t \in ServiceThreads : WF_vars(ArchiveService(t))
    /\ \A u \in UploadThreads : WF_vars(UploadCollection(u))

FairSpec == Spec /\ Fairness

-----------------------------------------------------------------------------
(* Properties.                                                             *)

\* Types: places of the three kinds of threads, sets of logs.
TypeOK ==
    /\ {source, archive, blob} \subseteq [Windows -> SUBSET Logs]
    /\ listed \in [Windows -> BOOLEAN]
    /\ job \in [Runs -> JobStatuses]
    /\ {erred, stale} \subseteq [Runs -> BOOLEAN]
    /\ pc \in [Threads -> RunPlaces \cup ServicePlaces \cup UploadPlaces]
    /\ \A r \in Runs : pc[r] \in RunPlaces
    /\ \A t \in ServiceThreads : pc[t] \in ServicePlaces
    /\ \A u \in UploadThreads : pc[u] \in UploadPlaces
    /\ {todo, wrote} \subseteq [ServiceThreads -> SUBSET Logs]
    /\ got \in [UploadThreads -> SUBSET Logs]
    /\ {raced, lapsed} \subseteq SUBSET Runs
    /\ {faults, crashes} \subseteq Nat

Active(r) == pc[r] \in {"discover", "archiving", "uploading", "failing"}

\* A log is in the hot database, in the archive or in the blob, at every moment
\* and whatever fails: nothing is deleted before its copy exists.
NoLogLost ==
    \A w \in Windows : Logs \subseteq source[w] \cup archive[w] \cup blob[w]

\* Two runs work at the same time only when one of the two entered its check
\* while another was between check and create, had its check query fail, or
\* stopped writing its heartbeat while it worked (StartBackupAsync).
AloneUnlessRaced ==
    \A q, r \in Runs :
        Active(q) /\ Active(r) /\ q # r => {q, r} \cap (raced \cup lapsed) # {}

\* A run that died, or could not write that it ended, leaves its row Running:
\* once its heartbeat is stale the next trigger releases it, when calls no
\* longer fail (ReleaseStaleRunsAsync).
DeadRunReleased ==
    \A q \in Runs : \A r \in Runs \ {q} :
        /\ job[r] = "Running" /\ stale[r] /\ pc[r] \in RunEnds
        /\ pc[q] = "idle"
        /\ faults = MaxFaults
        ~> job[r] # "Running"

-----------------------------------------------------------------------------
(* What the documentation says and the code does not keep.                 *)

\* "Two overlapping runs both enumerate the archive databases and drop each
\* collection once it is uploaded": the check is there so that it cannot be.
OneActiveRun == \A q, r \in Runs : Active(q) /\ Active(r) => q = r

\* "Discard this service's partial rows so they are not uploaded as a whole
\* window": a blob holds all the logs of a service or none.
BlobNotShort ==
    \A w \in Windows, s \in Services :
        blob[w] \cap LogsOf(s) # {} => LogsOf(s) \subseteq blob[w]

\* "CompletedWithErrors if any failures, else Completed".
CompletedHonest ==
    \A r \in Runs : job[r] = "Completed" => blob[WindowOf[r]] = Logs
=============================================================================

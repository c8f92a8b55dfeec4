-------------------------- MODULE ColdRestoreProofs --------------------------
(***************************************************************************)
(* Theorems about ColdRestore for any number of files, deliveries, callers,*)
(* faults and crashes: types, the single executor, the single mail, the    *)
(* implementation of RequestLifecycle, and what a request that completed   *)
(* or was cancelled leaves behind.                                         *)
(***************************************************************************)
EXTENDS ColdRestore, RestoreStoreProofs

(***************************************************************************)
(* The inductive invariant.  A status past Pending records that the client *)
(* is done and that the claim was taken, so no second delivery can take    *)
(* it; a mail records that the status is final, so nobody can end the      *)
(* request again.                                                          *)
(***************************************************************************)

\* Nothing runs before the client's calls.
ClientFirst ==
    /\ client = "new" <=> req.status = "None"
    /\ client = "new" => \A c \in Callers : pc[c] = "idle"
    /\ client # "sent" => \A d \in Deliveries : pc[d] = "idle"

\* The executor of a request has claimed it.
ExecutorClaimed ==
    \A d \in Deliveries : Executing(d) => req.status \notin {"None", "Pending"}

\* The finisher that made the transition is the one that mails, once.
MailFollowsEnd ==
    /\ \A d \in Deliveries : pc[d] = "finMail" =>
          /\ mails = <<>>
          /\ IsTerminal(req.status)
          /\ req.status \in {snap[d].status, "Failed"}
    /\ mails # <<>> =>
          /\ Len(mails) = 1
          /\ IsTerminal(req.status)
          /\ req.status \in {mails[1], "Failed"}

\* UpdateFileRequestStatus computes an outcome, never Cancelled.
SnapIsOutcome ==
    \A d \in Deliveries : snap[d].status \in {"Completed", "PartialSuccess", "Failed"}

IInv ==
    /\ TypeOK
    /\ ClientFirst
    /\ ExecutorClaimed
    /\ SingleExecution
    /\ MailFollowsEnd
    /\ SnapIsOutcome

-----------------------------------------------------------------------------
(* Types.                                                                  *)

LEMMA ColdThreads ==
    /\ Loops = Deliveries
    /\ Finishers = Deliveries
    /\ \A d \in Deliveries, f \in Files :
          <<d, f>> \in FileThreads /\ <<d, f>> \in Threads
    /\ \A d \in Deliveries : d \in Threads /\ d \notin Callers /\ d \notin FileThreads
    /\ \A c \in Callers : c \in Threads /\ c \notin Deliveries /\ c \notin FileThreads
BY ColdAssumption, ThreadAssumption DEF Loops, Finishers, FileThreads, Threads

LEMMA PlanFileType ==
    ASSUME TypeOK, NEW d \in Deliveries, PlanFile(d)
    PROVE  TypeOK'
<1>1. next' \in [Deliveries -> Nat \ {0}]
  BY DEF TypeOK, StoreTypeOK, PlanFile
<1>2. file' \in [Files -> FileStatuses]
  BY DEF TypeOK, StoreTypeOK, PlanFile, FileStatuses, TerminalFileStatuses
<1> QED
  BY <1>1, <1>2 DEF TypeOK, StoreTypeOK, PlanFile, requestVars, dataVars, worldVars

LEMMA DeliverType ==
    ASSUME TypeOK, NEW d \in Deliveries, Deliver(d)
    PROVE  TypeOK'
<1> USE ColdThreads, LabelNames DEF TypeOK
<1>1. CASE Claim(d) \/ ResetStuck(d) \/ UpdateTotal(d) \/ AbortRequest(d)
  BY <1>1, DeliveryType
<1>2. CASE PlanFile(d)
  BY <1>2, PlanFileType
<1>3. CASE LoadPending(d)
  BY <1>3, LoopType DEF LoadPending
<1>4. CASE EndLoop(d)
  <2> DEFINE after == CASE BodyThrew(d)                    -> "abort"
                        [] ~BodyThrew(d) /\ SawCancel(d)   -> "dropTraces"
                        [] ~BodyThrew(d) /\ ~SawCancel(d)  -> "finRead"
  <2>1. after \in Labels
    OBVIOUS
  <2> QED
    BY <1>4, <2>1, LoopType DEF EndLoop
<1>5. CASE DropTraces(d) \/ DropLogs(d, "finRead")
  BY <1>5, DropType
<1>6. CASE Finalize(d)
  BY <1>6, FinalizeType
<1> QED
  BY <1>1, <1>2, <1>3, <1>4, <1>5, <1>6 DEF Deliver

LEMMA RestoreFileType ==
    ASSUME TypeOK, NEW d \in Deliveries, NEW f \in Files, RestoreFile(d, f)
    PROVE  TypeOK'
<1> DEFINE t == <<d, f>>
<1> USE ColdThreads, LabelNames DEF TypeOK
<1>1. CASE StartFile(d, f) \/ CheckCancelled(d, f)
  BY <1>1, StartType DEF StartFile
<1>2. CASE \/ MarkProcessing(t) \/ OpenBlob(t, "notFound") \/ PurgeStale(t) \/ InsertBatch(t)
           \/ CompleteFile(t) \/ CountFile(t, "done") \/ RecordFailure(t)
           \/ CountFailed(t, "countFailed", "done")
  BY <1>2, BodyType
<1> QED
  BY <1>1, <1>2 DEF RestoreFile

LEMMA FailureType ==
    ASSUME TypeOK, NEW d \in Deliveries,
           DeliveryThrows(d) \/ \E f \in Files : FileThrows(d, f)
    PROVE  TypeOK'
<1> USE ColdThreads, LabelNames DEF TypeOK
<1>1. CASE DeliveryThrows(d)
  BY <1>1, ThrowType DEF DeliveryThrows, LoseEmail
<1>2. CASE \E f \in Files : FileThrows(d, f)
  BY <1>2, ThrowType DEF FileThrows
<1> QED
  BY <1>1, <1>2

LEMMA TypeStep == TypeOK /\ [Next]_vars => TypeOK'
<1> SUFFICES ASSUME TypeOK, [Next]_vars PROVE TypeOK'
  OBVIOUS
<1> USE ColdThreads, LabelNames
<1>1. CASE CreateRequest \/ SendMessage
  BY <1>1, ClientType DEF TypeOK
<1>2. ASSUME NEW d \in Deliveries, Deliver(d) PROVE TypeOK'
  BY <1>2, DeliverType
<1>3. ASSUME NEW d \in Deliveries, DeliveryThrows(d) \/ \E f \in Files : FileThrows(d, f)
      PROVE TypeOK'
  BY <1>3, FailureType
<1>4. ASSUME NEW d \in Deliveries, NEW f \in Files, RestoreFile(d, f)
      PROVE TypeOK'
  BY <1>4, RestoreFileType
<1>5. ASSUME NEW c \in Callers, CancelRestore(c) \/ CancelThrows(c) PROVE TypeOK'
  BY <1>5, CancelType, ThrowType DEF CancelThrows, TypeOK
<1>6. ASSUME NEW p \in Deliveries \cup Callers, Crash(p) PROVE TypeOK'
  BY <1>6, CrashType DEF TypeOK
<1>7. ASSUME NEW f \in Files, BlobMoves(f) PROVE TypeOK'
  BY <1>7 DEF TypeOK, StoreTypeOK, BlobMoves, Tiers, requestVars, fileVars, dataVars, localVars
<1>8. CASE UNCHANGED vars
  BY <1>8 DEF vars, storeVars, requestVars, fileVars, dataVars, worldVars, localVars,
     TypeOK, StoreTypeOK
<1>9. CASE Terminating
  BY <1>8, <1>9 DEF Terminating
<1> QED
  BY <1>1, <1>2, <1>3, <1>4, <1>5, <1>6, <1>7, <1>8, <1>9 DEF Next

\* Every document keeps its fields and every thread is at a place of the code.
THEOREM TypeCorrect == Spec => []TypeOK
<1>1. Init => TypeOK
  BY InitType DEF Init, TypeOK
<1> QED
  BY <1>1, TypeStep, PTL DEF Spec

-----------------------------------------------------------------------------
(* Safety.  Most steps are quiet: they leave the status, the mails and the *)
(* client alone, start no executor and bring no finisher to its mail.      *)

Quiet ==
    /\ req'.status = req.status
    /\ UNCHANGED <<mails, client>>
    /\ \A d \in Deliveries :
          /\ Executing(d)' => Executing(d)
          /\ pc'[d] = "finMail" => pc[d] = "finMail" /\ snap'[d] = snap[d]
          /\ client # "sent" => pc'[d] = pc[d]
    /\ client = "new" => \A c \in Callers : pc'[c] = pc[c]

LEMMA QuietKeeps ==
    ASSUME IInv, Quiet, SnapIsOutcome', TypeOK'
    PROVE  IInv'
<1>1. ClientFirst'
  BY DEF IInv, ClientFirst, Quiet
<1>2. ExecutorClaimed'
  BY DEF IInv, ExecutorClaimed, Quiet
<1>3. SingleExecution'
  BY DEF IInv, SingleExecution, Quiet
<1>4. MailFollowsEnd'
  BY DEF IInv, MailFollowsEnd, Quiet, IsTerminal
<1> QED
  BY <1>1, <1>2, <1>3, <1>4 DEF IInv

\* A delivery moves on from a place where it was executing, anywhere but to
\* its mail; the rows and the counters may change.
LEMMA DeliveryQuiet ==
    ASSUME IInv, NEW d \in Deliveries, NEW label, Goto(d, label),
           Executing(d), label # "finMail",
           req'.status = req.status, UNCHANGED <<mails, client>>,
           \A e \in Deliveries : e # d => snap'[e] = snap[e]
    PROVE  Quiet
<1>1. client = "sent"
  BY DEF IInv, ClientFirst, Executing, Preparing, Finalizing
<1>2. \A t \in Threads : pc'[t] = IF t = d THEN label ELSE pc[t]
  BY ColdThreads DEF IInv, TypeOK, StoreTypeOK, Goto
<1> QED
  BY <1>1, <1>2, ColdThreads DEF Quiet, Executing

\* So does the body of a loop, wherever it goes.
LEMMA BodyQuiet ==
    ASSUME IInv, NEW t \in FileThreads, NEW label, Goto(t, label),
           req'.status = req.status, UNCHANGED <<mails, client, snap>>
    PROVE  Quiet
<1>1. \A u \in Deliveries \cup Callers : pc'[u] = pc[u]
  BY ColdThreads, ThreadKinds DEF IInv, TypeOK, StoreTypeOK, Goto
<1> QED
  BY <1>1 DEF Quiet, Executing

\* And a call of the cancel endpoint, once there is a request.
LEMMA CallerQuiet ==
    ASSUME IInv, NEW c \in Callers, NEW label, Goto(c, label), client # "new",
           req'.status = req.status, UNCHANGED <<mails, client, snap>>
    PROVE  Quiet
<1>1. \A u \in Deliveries : pc'[u] = pc[u]
  BY ColdThreads DEF IInv, TypeOK, StoreTypeOK, Goto
<1> QED
  BY <1>1 DEF Quiet, Executing

\* The steps of a delivery that decide nothing.
LEMMA DeliverQuiet ==
    ASSUME IInv, NEW d \in Deliveries,
           \/ ResetStuck(d) \/ PlanFile(d) \/ UpdateTotal(d) \/ LoadPending(d) \/ EndLoop(d)
           \/ DropTraces(d) \/ DropLogs(d, "finRead")
           \/ ReadRequest(d) \/ ReadFiles(d) \/ WriteCounters(d)
    PROVE  Quiet
<1> USE DEF requestVars, fileVars, dataVars, worldVars, localVars
<1> USE DEF Executing, Preparing, Finalizing
<1>1. CASE ResetStuck(d)
  BY <1>1, DeliveryQuiet DEF ResetStuck
<1>2. CASE PlanFile(d)
  BY <1>2 DEF PlanFile, Quiet
<1>3. CASE UpdateTotal(d)
  <2>1. req'.status = req.status
    BY <1>3 DEF UpdateTotal, IInv, TypeOK, StoreTypeOK
  <2> QED
    BY <1>3, <2>1, DeliveryQuiet DEF UpdateTotal
<1>4. CASE LoadPending(d)
  <2>1. /\ \A u \in Deliveries \cup Callers : u # d => pc'[u] = pc[u]
        /\ pc'[d] = "loop" /\ pc[d] = "load"
    BY <1>4, ColdThreads, ThreadAssumption DEF LoadPending, LoadWork, Loops, Threads
  <2>2. client = "sent"
    BY <2>1 DEF IInv, ClientFirst
  <2> QED
    BY <1>4, <2>1, <2>2, ColdThreads DEF LoadPending, LoadWork, Quiet
<1>5. CASE EndLoop(d)
  <2>1. \E label \in {"abort", "dropTraces", "finRead"} : Goto(d, label)
    BY <1>5 DEF EndLoop, JoinLoop
  <2> QED
    BY <1>5, <2>1, DeliveryQuiet DEF EndLoop, JoinLoop, LoopEnded
<1>6. CASE DropTraces(d) \/ DropLogs(d, "finRead")
  BY <1>6, DeliveryQuiet DEF DropTraces, DropLogs
<1>7. CASE ReadRequest(d)
  BY <1>7, DeliveryQuiet DEF ReadRequest
<1>8. CASE ReadFiles(d)
  <2>1. \E label \in {"finCount", "done"} : Goto(d, label)
    BY <1>8 DEF ReadFiles
  <2>2. \A e \in Deliveries : e # d => snap'[e] = snap[e]
    BY <1>8, ColdThreads DEF ReadFiles, IInv, TypeOK, StoreTypeOK
  <2> QED
    BY <1>8, <2>1, <2>2, DeliveryQuiet DEF ReadFiles
<1>9. CASE WriteCounters(d)
  <2>1. req'.status = req.status
    BY <1>9 DEF WriteCounters, IInv, TypeOK, StoreTypeOK
  <2> QED
    BY <1>9, <2>1, DeliveryQuiet DEF WriteCounters
<1> QED
  BY <1>1, <1>2, <1>3, <1>4, <1>5, <1>6, <1>7, <1>8, <1>9

LEMMA RestoreFileQuiet ==
    ASSUME IInv, NEW d \in Deliveries, NEW f \in Files,
           RestoreFile(d, f) \/ FileThrows(d, f)
    PROVE  Quiet
<1> DEFINE t == <<d, f>>
<1> USE ColdThreads DEF requestVars, fileVars, dataVars, worldVars, localVars
<1>1. CASE StartFile(d, f) \/ OpenBlob(t, "notFound")
  BY <1>1, BodyQuiet DEF StartFile, StartBody, OpenBlob
<1>2. CASE CheckCancelled(d, f)
  <2>1. \E label \in {"done", "sawCancel", "mark"} : Goto(t, label)
    BY <1>2 DEF CheckCancelled
  <2> QED
    BY <1>2, <2>1, BodyQuiet DEF CheckCancelled
<1>3. CASE MarkProcessing(t) \/ PurgeStale(t) \/ InsertBatch(t) \/ CompleteFile(t) \/ RecordFailure(t)
  BY <1>3, BodyQuiet DEF MarkProcessing, PurgeStale, InsertBatch, CompleteFile, RecordFailure
<1>4. CASE CountFile(t, "done") \/ CountFailed(t, "countFailed", "done")
  <2>1. req'.status = req.status
    BY <1>4 DEF CountFile, CountFailed, IInv, TypeOK, StoreTypeOK
  <2> QED
    BY <1>4, <2>1, BodyQuiet DEF CountFile, CountFailed
<1>5. CASE FileThrows(d, f)
  BY <1>5, BodyQuiet DEF FileThrows, Throw
<1> QED
  BY <1>1, <1>2, <1>3, <1>4, <1>5 DEF RestoreFile

LEMMA FailureQuiet ==
    ASSUME IInv, NEW d \in Deliveries, DeliveryThrows(d)
    PROVE  Quiet
<1> USE DEF requestVars, fileVars, dataVars, worldVars, localVars
<1>1. \E label \in {"abort", "done"} : Goto(d, label)
  BY DEF DeliveryThrows, LoseEmail, Throw
<1>2. PICK label \in {"abort", "done"} : Goto(d, label)
  BY <1>1
<1>3. client = "sent"
  BY DEF DeliveryThrows, LoseEmail, IInv, ClientFirst, Preparing, Finalizing
<1>4. \A u \in Threads : pc'[u] = IF u = d THEN label ELSE pc[u]
  BY <1>2, ColdThreads DEF IInv, TypeOK, StoreTypeOK, Goto
<1>5. UNCHANGED <<req, mails, client, snap>>
  BY DEF DeliveryThrows, LoseEmail, Throw
<1> QED
  BY <1>3, <1>4, <1>5, ColdThreads DEF Quiet, Executing, Preparing, Finalizing

\* A crash takes a delivery and its bodies, or a call, out of work.
LEMMA CrashQuiet ==
    ASSUME IInv, NEW p \in Deliveries \cup Callers, Crash(p)
    PROVE  Quiet
<1> USE DEF requestVars, fileVars, dataVars, worldVars, localVars
<1>1. \A u \in Deliveries \cup Callers : pc'[u] = IF u = p THEN "crashed" ELSE pc[u]
  BY ColdThreads, ThreadAssumption DEF Crash, Loops, Threads
<1>2. pc[p] # "idle"
  BY DEF Crash, Settled
<1>3. p \in Deliveries => client = "sent"
  BY <1>2 DEF IInv, ClientFirst
<1>4. client # "new" \/ p \notin Callers
  BY <1>2 DEF IInv, ClientFirst
<1> QED
  BY <1>1, <1>3, <1>4, ColdThreads
     DEF Crash, Quiet, Executing, Preparing, Finalizing

\* The steps of a cancellation but the transition to Cancelled.
LEMMA CancelQuiet ==
    ASSUME IInv, NEW c \in Callers, CancelRestore(c) \/ CancelThrows(c), ~TryCancel(c)
    PROVE  Quiet
<1> USE DEF requestVars, fileVars, dataVars, worldVars, localVars
<1>1. client # "new"
  BY DEF CancelRestore, ReadBeforeCancel, CancelFiles, CancelJobs, DropTraces, DropLogs,
     CancelThrows, Settled, IInv, ClientFirst
<1>2. PICK label : Goto(c, label)
  BY DEF CancelRestore, ReadBeforeCancel, CancelFiles, CancelJobs, DropTraces, DropLogs,
     CancelThrows, Throw
<1>3. UNCHANGED <<req, mails, client, snap>>
  BY DEF CancelRestore, ReadBeforeCancel, CancelFiles, CancelJobs, DropTraces, DropLogs,
     CancelThrows, Throw
<1> QED
  BY <1>1, <1>2, <1>3, CallerQuiet

\* The steps that decide: who executes, how the request ends, who mails.
LEMMA ClientKeeps ==
    ASSUME IInv, CreateRequest \/ SendMessage, TypeOK'
    PROVE  IInv'
<1> USE DEF requestVars, fileVars, dataVars, worldVars, localVars
<1>1. /\ UNCHANGED <<mails, pc, snap>>
      /\ \A d \in Deliveries : pc[d] = "idle"
      /\ client' # "new" /\ (client' = "sent" => client = "created")
  BY DEF CreateRequest, SendMessage, IInv, ClientFirst
<1>2. req'.status = IF client = "new" THEN "Pending" ELSE req.status
  BY DEF CreateRequest, SendMessage, IInv, TypeOK, StoreTypeOK
<1>3. ClientFirst'
  BY <1>1, <1>2 DEF IInv, ClientFirst
<1>4. ExecutorClaimed' /\ SingleExecution'
  BY <1>1 DEF ExecutorClaimed, SingleExecution, Executing, Preparing, Finalizing
<1>5. MailFollowsEnd' /\ SnapIsOutcome'
  BY <1>1, <1>2 DEF IInv, ClientFirst, MailFollowsEnd, SnapIsOutcome, IsTerminal,
     TerminalRequestStatuses
<1> QED
  BY <1>3, <1>4, <1>5 DEF IInv

LEMMA ClaimKeeps ==
    ASSUME IInv, NEW d \in Deliveries, Claim(d), TypeOK'
    PROVE  IInv'
<1> USE DEF requestVars, fileVars, dataVars, worldVars, localVars
<1>1. /\ client = "sent" /\ UNCHANGED <<mails, client, snap>>
      /\ pc[d] = "idle"
  BY DEF Claim
<1>2. CASE ~Claimable
  <2>1. /\ req' = req
        /\ \A t \in Threads : pc'[t] = IF t = d THEN "done" ELSE pc[t]
    BY <1>2 DEF Claim, Goto, IInv, TypeOK, StoreTypeOK
  <2>2. Quiet
    BY <1>1, <2>1, ColdThreads DEF Quiet, Executing, Preparing, Finalizing
  <2> QED
    BY <1>1, <2>2, QuietKeeps DEF IInv, SnapIsOutcome
<1>3. CASE Claimable
  <2>1. /\ req'.status = "InProgress" /\ req.status \in {"None", "Pending"}
        /\ \A t \in Threads : pc'[t] = IF t = d THEN "reset" ELSE pc[t]
    BY <1>3 DEF Claim, Claimable, Goto, IInv, TypeOK, StoreTypeOK, RequestStatuses
  <2>2. \A e \in Deliveries : Executing(e)' <=> e = d
    <3>1. \A e \in Deliveries : ~Executing(e)
      BY <2>1 DEF IInv, ExecutorClaimed
    <3> QED
      BY <2>1, <3>1, ColdThreads DEF Executing, Preparing
  <2>3. mails = <<>> /\ \A e \in Deliveries : pc'[e] # "finMail"
    BY <2>1, ColdThreads DEF IInv, MailFollowsEnd, IsTerminal, TerminalRequestStatuses
  <2>4. ClientFirst'
    BY <1>1, <2>1 DEF IInv, ClientFirst
  <2>5. ExecutorClaimed' /\ SingleExecution'
    BY <2>1, <2>2 DEF ExecutorClaimed, SingleExecution
  <2>6. MailFollowsEnd' /\ SnapIsOutcome'
    BY <1>1, <2>3 DEF IInv, MailFollowsEnd, SnapIsOutcome
  <2> QED
    BY <2>4, <2>5, <2>6 DEF IInv
<1> QED
  BY <1>2, <1>3

\* AbortRequest and TryCancel: a final status that no mail of this step tells.
LEMMA EndKeeps ==
    ASSUME IInv, TypeOK', req.status # "None",
           \/ req'.status = "Failed"
           \/ ~IsTerminal(req.status) /\ req'.status = "Cancelled",
           UNCHANGED <<mails, client, snap>>,
           client # "new",
           \A e \in Deliveries :
              /\ Executing(e)' => Executing(e)
              /\ pc'[e] = "finMail" => pc[e] = "finMail"
              /\ pc[e] = "idle" => pc'[e] = "idle"
    PROVE  IInv'
<1>1. ClientFirst'
  BY DEF IInv, ClientFirst
<1>2. ExecutorClaimed' /\ SingleExecution' /\ SnapIsOutcome'
  BY DEF IInv, ExecutorClaimed, SingleExecution, SnapIsOutcome
<1>3. MailFollowsEnd'
  BY DEF IInv, MailFollowsEnd, IsTerminal, TerminalRequestStatuses
<1> QED
  BY <1>1, <1>2, <1>3 DEF IInv

LEMMA AbortKeeps ==
    ASSUME IInv, NEW d \in Deliveries, AbortRequest(d), TypeOK'
    PROVE  IInv'
<1> USE DEF requestVars, fileVars, dataVars, worldVars, localVars
<1>1. client = "sent" /\ req.status # "None"
  BY DEF AbortRequest, IInv, ClientFirst
<1>2. /\ req'.status = "Failed"
      /\ \A t \in Threads : pc'[t] = IF t = d THEN "done" ELSE pc[t]
      /\ pc[d] = "abort"
  BY DEF AbortRequest, Goto, IInv, TypeOK, StoreTypeOK
<1>3. \A e \in Deliveries :
         /\ Executing(e)' => Executing(e)
         /\ pc'[e] = "finMail" => pc[e] = "finMail"
         /\ pc[e] = "idle" => pc'[e] = "idle"
  BY <1>2, ColdThreads DEF Executing, Preparing, Finalizing
<1> QED
  BY <1>1, <1>2, <1>3, EndKeeps DEF AbortRequest

LEMMA TryCancelKeeps ==
    ASSUME IInv, NEW c \in Callers, TryCancel(c), TypeOK'
    PROVE  IInv'
<1> USE DEF requestVars, fileVars, dataVars, worldVars, localVars
<1>1. client # "new" /\ req.status # "None"
  BY DEF TryCancel, IInv, ClientFirst
<1>2. \E label : Goto(c, label)
  BY DEF TryCancel
<1>3. \A e \in Deliveries : pc'[e] = pc[e]
  BY <1>2, ColdThreads DEF Goto, IInv, TypeOK, StoreTypeOK
<1>4. CASE req' = req
  <2>1. Quiet
    BY <1>1, <1>3, <1>4 DEF TryCancel, Quiet, Executing
  <2> QED
    BY <2>1, QuietKeeps DEF TryCancel, IInv, SnapIsOutcome
<1>5. CASE req' # req
  <2>1. ~IsTerminal(req.status) /\ req'.status = "Cancelled"
    BY <1>5 DEF TryCancel, IInv, TypeOK, StoreTypeOK
  <2> QED
    BY <1>1, <1>3, <2>1, EndKeeps DEF TryCancel, Executing
<1> QED
  BY <1>4, <1>5

LEMMA TryCompleteKeeps ==
    ASSUME IInv, NEW d \in Deliveries, TryComplete(d), TypeOK'
    PROVE  IInv'
<1> USE DEF requestVars, fileVars, dataVars, worldVars, localVars
<1>1. /\ client = "sent" /\ UNCHANGED <<mails, client, snap>>
      /\ pc[d] = "finTry" /\ Executing(d)
  BY DEF TryComplete, IInv, ClientFirst, Executing, Finalizing
<1>2. CASE IsTerminal(req.status)
  <2>1. Quiet
    BY <1>1, <1>2, DeliveryQuiet DEF TryComplete
  <2> QED
    BY <1>1, <2>1, QuietKeeps DEF IInv, SnapIsOutcome
<1>3. CASE ~IsTerminal(req.status)
  <2>1. /\ req'.status = snap[d].status
        /\ \A t \in Threads : pc'[t] = IF t = d THEN "finMail" ELSE pc[t]
    BY <1>3 DEF TryComplete, Goto, IInv, TypeOK, StoreTypeOK
  <2>2. \A e \in Deliveries : Executing(e)' => e = d
    <3>1. \A e \in Deliveries : Executing(e) => e = d
      BY <1>1 DEF IInv, SingleExecution
    <3> QED
      BY <2>1, <3>1, ColdThreads DEF Executing
  <2>3. mails = <<>>
    BY <1>3 DEF IInv, MailFollowsEnd
  <2>4. req'.status \in {"Completed", "PartialSuccess", "Failed"}
    BY <2>1 DEF IInv, SnapIsOutcome
  <2>5. ClientFirst'
    BY <1>1, <2>1, <2>4, ColdThreads DEF IInv, ClientFirst
  <2>6. ExecutorClaimed' /\ SingleExecution'
    BY <2>2, <2>4 DEF ExecutorClaimed, SingleExecution
  <2>7. MailFollowsEnd'
    <3>1. \A e \in Deliveries : pc'[e] = "finMail" => e = d
      BY <2>2 DEF Executing
    <3> QED
      BY <1>1, <2>1, <2>3, <2>4, <3>1 DEF MailFollowsEnd, IsTerminal, TerminalRequestStatuses
  <2> QED
    BY <1>1, <2>5, <2>6, <2>7 DEF IInv, SnapIsOutcome
<1> QED
  BY <1>2, <1>3

LEMMA SendEmailKeeps ==
    ASSUME IInv, NEW d \in Deliveries, SendEmail(d), TypeOK'
    PROVE  IInv'
<1> USE DEF requestVars, fileVars, dataVars, worldVars, localVars
<1>1. /\ client = "sent" /\ UNCHANGED <<req, client, snap>>
      /\ pc[d] = "finMail" /\ Executing(d)
  BY DEF SendEmail, IInv, ClientFirst, Executing
<1>2. \A t \in Threads : pc'[t] = IF t = d THEN "done" ELSE pc[t]
  BY DEF SendEmail, Goto, IInv, TypeOK, StoreTypeOK
<1>3. \A e \in Deliveries : ~Executing(e)'
  <2>1. \A e \in Deliveries : Executing(e) => e = d
    BY <1>1 DEF IInv, SingleExecution
  <2> QED
    BY <1>2, <2>1, ColdThreads DEF Executing, Preparing, Finalizing
<1>4. mails' = <<snap[d].status>>
  <2>1. mails = <<>>
    BY <1>1 DEF IInv, MailFollowsEnd
  <2>2. mails' = Append(<<>>, snap[d].status)
    BY <2>1 DEF SendEmail
  <2> QED
    BY <2>2
<1>5. ClientFirst'
  BY <1>1, <1>2, ColdThreads DEF IInv, ClientFirst
<1>6. ExecutorClaimed' /\ SingleExecution'
  BY <1>3 DEF ExecutorClaimed, SingleExecution
<1>7. MailFollowsEnd'
  <2>1. \A e \in Deliveries : pc'[e] # "finMail"
    BY <1>3 DEF Executing
  <2>2. IsTerminal(req.status) /\ req.status \in {snap[d].status, "Failed"}
    BY <1>1 DEF IInv, MailFollowsEnd
  <2>3. Len(mails') = 1 /\ mails'[1] = snap[d].status
    BY <1>4
  <2> QED
    BY <1>1, <2>1, <2>2, <2>3 DEF MailFollowsEnd, IsTerminal
<1> QED
  BY <1>1, <1>5, <1>6, <1>7 DEF IInv, SnapIsOutcome

\* ReadFiles computes an outcome and no other step writes one.
LEMMA SnapStep == IInv /\ [Next]_vars => SnapIsOutcome'
<1> SUFFICES ASSUME IInv, [Next]_vars PROVE SnapIsOutcome'
  OBVIOUS
<1> USE DEF requestVars, fileVars, dataVars, worldVars, localVars
<1>1. CASE UNCHANGED snap
  BY <1>1 DEF IInv, SnapIsOutcome
<1>2. ASSUME NEW d \in Deliveries, ReadFiles(d) PROVE SnapIsOutcome'
  <2> DEFINE total == Cardinality(Planned)
             failed == Cardinality(FailedFiles)
             read == [processed |-> total, failed |-> failed,
                      status |-> FinalStatus(total, failed)]
  <2>1. read.status \in {"Completed", "PartialSuccess", "Failed"}
    BY DEF FinalStatus
  <2>2. snap' = snap \/ snap' = [snap EXCEPT ![d] = read]
    BY <1>2 DEF ReadFiles
  <2> HIDE DEF read
  <2> QED
    BY <2>1, <2>2, ColdThreads DEF IInv, TypeOK, StoreTypeOK, SnapIsOutcome
<1>3. CASE UNCHANGED vars
  BY <1>1, <1>3 DEF vars, storeVars
<1>4. CASE CreateRequest \/ SendMessage \/ \E f \in Files : BlobMoves(f)
  BY <1>1, <1>4 DEF CreateRequest, SendMessage, BlobMoves
<1>5. ASSUME NEW d \in Deliveries, Deliver(d) PROVE SnapIsOutcome'
  BY <1>1, <1>2, <1>5 DEF Deliver, Claim, ResetStuck, PlanFile, UpdateTotal, LoadPending, LoadWork,
     EndLoop, JoinLoop, DropTraces, DropLogs, Finalize, ReadRequest, WriteCounters, TryComplete,
     SendEmail, AbortRequest
<1>6. ASSUME NEW d \in Deliveries, DeliveryThrows(d) PROVE SnapIsOutcome'
  BY <1>1, <1>6 DEF DeliveryThrows, LoseEmail, Throw
<1>7. ASSUME NEW d \in Deliveries, NEW f \in Files, RestoreFile(d, f) \/ FileThrows(d, f)
      PROVE SnapIsOutcome'
  BY <1>1, <1>7 DEF RestoreFile, FileThrows, Throw, StartFile, StartBody, CheckCancelled,
     MarkProcessing, OpenBlob, PurgeStale, InsertBatch, CompleteFile, CountFile, RecordFailure,
     CountFailed
<1>8. ASSUME NEW c \in Callers, CancelRestore(c) \/ CancelThrows(c) PROVE SnapIsOutcome'
  BY <1>1, <1>8 DEF CancelRestore, CancelThrows, Throw, ReadBeforeCancel, TryCancel, CancelFiles,
     CancelJobs, DropTraces, DropLogs
<1>9. ASSUME NEW p \in Deliveries \cup Callers, Crash(p) PROVE SnapIsOutcome'
  BY <1>1, <1>9 DEF Crash
<1> QED
  BY <1>3, <1>4, <1>5, <1>6, <1>7, <1>8, <1>9 DEF Next, Terminating

LEMMA IInvStep == IInv /\ [Next]_vars => IInv'
<1> SUFFICES ASSUME IInv, [Next]_vars PROVE IInv'
  OBVIOUS
<1>0. TypeOK' /\ SnapIsOutcome'
  BY TypeStep, SnapStep DEF IInv
<1>1. CASE CreateRequest \/ SendMessage
  BY <1>0, <1>1, ClientKeeps
<1>2. ASSUME NEW d \in Deliveries, Deliver(d) PROVE IInv'
  <2>1. CASE Claim(d) \/ TryComplete(d) \/ SendEmail(d) \/ AbortRequest(d)
    BY <1>0, <2>1, ClaimKeeps, TryCompleteKeeps, SendEmailKeeps, AbortKeeps
  <2>2. CASE ~(Claim(d) \/ TryComplete(d) \/ SendEmail(d) \/ AbortRequest(d))
    BY <1>0, <1>2, <2>2, DeliverQuiet, QuietKeeps DEF Deliver, Finalize
  <2> QED
    BY <2>1, <2>2
<1>3. ASSUME NEW d \in Deliveries, DeliveryThrows(d) PROVE IInv'
  BY <1>0, <1>3, FailureQuiet, QuietKeeps
<1>4. ASSUME NEW d \in Deliveries, NEW f \in Files, RestoreFile(d, f) \/ FileThrows(d, f)
      PROVE IInv'
  BY <1>0, <1>4, RestoreFileQuiet, QuietKeeps
<1>5. ASSUME NEW c \in Callers, CancelRestore(c) \/ CancelThrows(c) PROVE IInv'
  BY <1>0, <1>5, CancelQuiet, TryCancelKeeps, QuietKeeps
<1>6. ASSUME NEW p \in Deliveries \cup Callers, Crash(p) PROVE IInv'
  BY <1>0, <1>6, CrashQuiet, QuietKeeps
<1>7. ASSUME NEW f \in Files, BlobMoves(f) PROVE IInv'
  <2>1. Quiet
    BY <1>7 DEF BlobMoves, Quiet, Executing, requestVars, localVars
  <2> QED
    BY <1>0, <2>1, QuietKeeps
<1>8. CASE UNCHANGED vars
  <2>1. Quiet
    BY <1>8 DEF vars, storeVars, Quiet, Executing, requestVars, worldVars, localVars
  <2> QED
    BY <1>0, <2>1, QuietKeeps
<1> QED
  BY <1>1, <1>2, <1>3, <1>4, <1>5, <1>6, <1>7, <1>8 DEF Next, Terminating

LEMMA IInvInit == Init => IInv
<1> SUFFICES ASSUME Init PROVE IInv
  OBVIOUS
<1>1. TypeOK
  BY InitType DEF Init, TypeOK
<1>2. /\ req.status = "None" /\ client = "new" /\ mails = <<>>
      /\ \A t \in Threads : pc[t] = "idle"
      /\ \A d \in Deliveries : snap[d].status = "Completed"
  BY ColdThreads DEF Init, StoreInit, NoSnap
<1> QED
  BY <1>1, <1>2, ColdThreads DEF IInv, ClientFirst, ExecutorClaimed, SingleExecution,
     MailFollowsEnd, SnapIsOutcome, Executing, Preparing, Finalizing

\* The inductive invariant holds for ever: what claims, finishers and mails have
\* to do with the status of the request.
THEOREM Invariance == Spec => []IInv
BY IInvInit, IInvStep, PTL DEF Spec

\* However often the message is delivered, one delivery executes it
\* (TryBeginProcessingAsync).
THEOREM OneExecutor == Spec => []SingleExecution
<1>1. IInv => SingleExecution
  BY DEF IInv
<1> QED
  BY <1>1, Invariance, PTL

\* The user gets at most one completion mail (TryCompleteRequestAsync).
THEOREM OneMail == Spec => []NotifiedAtMostOnce
<1>1. IInv => (mails = <<>> \/ Len(mails) = 1)
  BY DEF IInv, MailFollowsEnd
<1>2. mails = <<>> => Len(mails) = 0
  OBVIOUS
<1>3. IInv => NotifiedAtMostOnce
  <2>1. \A n : n \in {0, 1} => n <= 1
    OBVIOUS
  <2> QED
    BY <1>1, <1>2, <2>1, Zenon DEF NotifiedAtMostOnce
<1> QED
  BY <1>3, Invariance, PTL

\* A mail tells the outcome the request has, unless a delivery failed since.
THEOREM HonestMail == Spec => []MailTellsOutcome
<1>1. IInv => MailTellsOutcome
  BY DEF IInv, MailFollowsEnd, MailTellsOutcome
<1> QED
  BY <1>1, Invariance, PTL

-----------------------------------------------------------------------------
(* ColdRestore implements RequestLifecycle.                                *)

\* What the refinement mapping says is owed: nothing, or the outcome of the
\* one delivery that is at its mail.
LEMMA OwedNothing ==
    ASSUME \A d \in Deliveries : pc[d] # "finMail"
    PROVE  Owed = "none"
BY ColdThreads DEF Owed

LEMMA OwedOutcome ==
    ASSUME SingleExecution, NEW d \in Deliveries, pc[d] = "finMail"
    PROVE  Owed = snap[d].status
<1>1. \A e \in Finishers : pc[e] = "finMail" => e = d
  BY ColdThreads DEF SingleExecution, Executing
<1>2. (CHOOSE t \in Finishers : pc[t] = "finMail") = d
  BY <1>1, ColdThreads
<1> QED
  BY <1>2, ColdThreads DEF Owed

LEMMA OwedNothing2 ==
    ASSUME \A d \in Deliveries : pc'[d] # "finMail"
    PROVE  Owed' = "none"
BY ColdThreads DEF Owed

LEMMA OwedOutcome2 ==
    ASSUME SingleExecution', NEW d \in Deliveries, pc'[d] = "finMail"
    PROVE  Owed' = snap'[d].status
<1>1. \A e \in Finishers : pc'[e] = "finMail" => e = d
  BY ColdThreads DEF SingleExecution, Executing
<1>2. (CHOOSE t \in Finishers : pc'[t] = "finMail") = d
  BY <1>1, ColdThreads
<1> QED
  BY <1>2, ColdThreads DEF Owed

LEMMA QuietMaps ==
    ASSUME IInv, IInv', Quiet
    PROVE  [Lifecycle!Next]_<<req.status, Owed, mails>>
<1>1. CASE \E d \in Deliveries : pc'[d] = "finMail"
  <2>1. PICK d \in Deliveries : pc'[d] = "finMail"
    BY <1>1
  <2>2. pc[d] = "finMail" /\ snap'[d] = snap[d]
    BY <2>1 DEF Quiet
  <2>3. Owed' = Owed
    BY <2>1, <2>2, OwedOutcome, OwedOutcome2 DEF IInv
  <2> QED
    BY <2>3 DEF Quiet
<1>2. CASE \A d \in Deliveries : pc'[d] # "finMail"
  <2>1. Owed' = "none"
    BY <1>2, OwedNothing2
  <2>2. CASE Owed = "none"
    BY <2>1, <2>2 DEF Quiet
  <2>3. CASE Owed # "none"
    BY <2>1, <2>3 DEF Quiet, Lifecycle!Next, Lifecycle!LoseMail
  <2> QED
    BY <2>2, <2>3
<1> QED
  BY <1>1, <1>2

\* A status written by a step after which the same mail is owed.
LEMMA SameOwed ==
    ASSUME IInv, IInv', UNCHANGED snap,
           \A d \in Deliveries : pc'[d] = "finMail" <=> pc[d] = "finMail"
    PROVE  Owed' = Owed
<1>1. CASE \E d \in Deliveries : pc[d] = "finMail"
  BY <1>1, OwedOutcome, OwedOutcome2 DEF IInv
<1>2. CASE \A d \in Deliveries : pc[d] # "finMail"
  BY <1>2, OwedNothing, OwedNothing2
<1> QED
  BY <1>1, <1>2

LEMMA ClientMaps ==
    ASSUME IInv, IInv', CreateRequest \/ SendMessage
    PROVE  [Lifecycle!Next]_<<req.status, Owed, mails>>
<1>1. Owed' = Owed
  BY SameOwed DEF CreateRequest, SendMessage, localVars
<1>2. CASE CreateRequest
  BY <1>1, <1>2 DEF CreateRequest, IInv, ClientFirst, TypeOK, StoreTypeOK,
     Lifecycle!Next, Lifecycle!Submit
<1>3. CASE SendMessage
  BY <1>1, <1>3 DEF SendMessage, requestVars
<1> QED
  BY <1>2, <1>3

LEMMA ClaimMaps ==
    ASSUME IInv, IInv', NEW d \in Deliveries, Claim(d)
    PROVE  [Lifecycle!Next]_<<req.status, Owed, mails>>
<1>1. Owed' = Owed
  <2>1. \E label \in {"reset", "done"} : Goto(d, label)
    BY DEF Claim
  <2> QED
    BY <2>1, SameOwed, ColdThreads DEF Claim, localVars, Goto, IInv, TypeOK, StoreTypeOK
<1>2. CASE Claimable
  BY <1>1, <1>2 DEF Claim, Claimable, IInv, ClientFirst, TypeOK, StoreTypeOK, RequestStatuses,
     Lifecycle!Next, Lifecycle!Begin
<1>3. CASE ~Claimable
  BY <1>1, <1>3 DEF Claim
<1> QED
  BY <1>2, <1>3

LEMMA TryCompleteMaps ==
    ASSUME IInv, IInv', NEW d \in Deliveries, TryComplete(d)
    PROVE  [Lifecycle!Next]_<<req.status, Owed, mails>>
<1>1. CASE IsTerminal(req.status)
  <2>1. Quiet
    BY <1>1, DeliveryQuiet DEF TryComplete, Executing, Finalizing, worldVars, localVars
  <2> QED
    BY <2>1, QuietMaps
<1>2. CASE ~IsTerminal(req.status)
  <2>1. req.status = "InProgress"
    BY <1>2 DEF TryComplete, Executing, Finalizing, IsTerminal, RequestStatuses,
       IInv, ExecutorClaimed, TypeOK, StoreTypeOK
  <2>2. req'.status = snap[d].status /\ pc'[d] = "finMail" /\ UNCHANGED <<snap, mails>>
    BY <1>2, ColdThreads DEF TryComplete, Goto, IInv, TypeOK, StoreTypeOK, localVars
  <2>3. Owed' = req'.status
    BY <2>2, OwedOutcome2 DEF IInv
  <2>4. req'.status \in Lifecycle!Outcomes
    BY <2>2 DEF IInv, SnapIsOutcome, Lifecycle!Outcomes
  <2> QED
    BY <2>1, <2>2, <2>3, <2>4 DEF Lifecycle!Next, Lifecycle!Finish
<1> QED
  BY <1>1, <1>2

LEMMA SendEmailMaps ==
    ASSUME IInv, IInv', NEW d \in Deliveries, SendEmail(d)
    PROVE  [Lifecycle!Next]_<<req.status, Owed, mails>>
<1>1. Owed = snap[d].status /\ Owed # "none"
  BY OwedOutcome DEF SendEmail, IInv, SnapIsOutcome
<1>2. \A e \in Deliveries : pc'[e] # "finMail"
  <2>1. \A e \in Deliveries : pc[e] = "finMail" => e = d
    BY DEF SendEmail, IInv, SingleExecution, Executing
  <2> QED
    BY <2>1, ColdThreads DEF SendEmail, Goto, IInv, TypeOK, StoreTypeOK
<1>3. Owed' = "none"
  BY <1>2, OwedNothing2
<1> QED
  BY <1>1, <1>3 DEF SendEmail, Lifecycle!Next, Lifecycle!SendMail

LEMMA AbortMaps ==
    ASSUME IInv, IInv', NEW d \in Deliveries, AbortRequest(d)
    PROVE  [Lifecycle!Next]_<<req.status, Owed, mails>>
<1>1. Owed' = Owed
  BY SameOwed, ColdThreads DEF AbortRequest, Goto, IInv, TypeOK, StoreTypeOK, localVars
<1>2. req.status # "None"
  BY DEF AbortRequest, IInv, ClientFirst
<1> QED
  BY <1>1, <1>2 DEF AbortRequest, IInv, TypeOK, StoreTypeOK, Lifecycle!Next, Lifecycle!Fail

LEMMA TryCancelMaps ==
    ASSUME IInv, IInv', NEW c \in Callers, TryCancel(c)
    PROVE  [Lifecycle!Next]_<<req.status, Owed, mails>>
<1>1. Owed' = Owed
  <2>1. \E label : Goto(c, label)
    BY DEF TryCancel
  <2> QED
    BY <2>1, SameOwed, ColdThreads DEF TryCancel, Goto, IInv, TypeOK, StoreTypeOK, localVars
<1>2. CASE IsTerminal(req.status)
  BY <1>1, <1>2 DEF TryCancel
<1>3. CASE ~IsTerminal(req.status)
  <2>1. req.status \in {"Pending", "InProgress"}
    BY <1>3 DEF TryCancel, IsTerminal, RequestStatuses, IInv, ClientFirst, TypeOK, StoreTypeOK
  <2> QED
    BY <1>1, <1>3, <2>1 DEF TryCancel, IInv, TypeOK, StoreTypeOK,
       Lifecycle!Next, Lifecycle!Cancel
<1> QED
  BY <1>2, <1>3

LEMMA StepMaps ==
    IInv /\ IInv' /\ [Next]_vars => [Lifecycle!Next]_<<req.status, Owed, mails>>
<1> SUFFICES ASSUME IInv, IInv', [Next]_vars
             PROVE  [Lifecycle!Next]_<<req.status, Owed, mails>>
  OBVIOUS
<1>1. CASE CreateRequest \/ SendMessage
  BY <1>1, ClientMaps
<1>2. ASSUME NEW d \in Deliveries, Deliver(d)
      PROVE  [Lifecycle!Next]_<<req.status, Owed, mails>>
  <2>1. CASE Claim(d) \/ TryComplete(d) \/ SendEmail(d) \/ AbortRequest(d)
    BY <2>1, ClaimMaps, TryCompleteMaps, SendEmailMaps, AbortMaps
  <2>2. CASE ~(Claim(d) \/ TryComplete(d) \/ SendEmail(d) \/ AbortRequest(d))
    BY <1>2, <2>2, DeliverQuiet, QuietMaps DEF Deliver, Finalize
  <2> QED
    BY <2>1, <2>2
<1>3. ASSUME NEW d \in Deliveries, DeliveryThrows(d)
      PROVE  [Lifecycle!Next]_<<req.status, Owed, mails>>
  BY <1>3, FailureQuiet, QuietMaps
<1>4. ASSUME NEW d \in Deliveries, NEW f \in Files, RestoreFile(d, f) \/ FileThrows(d, f)
      PROVE  [Lifecycle!Next]_<<req.status, Owed, mails>>
  BY <1>4, RestoreFileQuiet, QuietMaps
<1>5. ASSUME NEW c \in Callers, CancelRestore(c) \/ CancelThrows(c)
      PROVE  [Lifecycle!Next]_<<req.status, Owed, mails>>
  BY <1>5, CancelQuiet, TryCancelMaps, QuietMaps
<1>6. ASSUME NEW p \in Deliveries \cup Callers, Crash(p)
      PROVE  [Lifecycle!Next]_<<req.status, Owed, mails>>
  BY <1>6, CrashQuiet, QuietMaps
<1>7. ASSUME NEW f \in Files, BlobMoves(f)
      PROVE  [Lifecycle!Next]_<<req.status, Owed, mails>>
  BY <1>7, QuietMaps DEF BlobMoves, Quiet, Executing, requestVars, localVars
<1>8. CASE UNCHANGED vars
  BY <1>8, QuietMaps
     DEF vars, storeVars, Quiet, Executing, requestVars, worldVars, localVars
<1> QED
  BY <1>1, <1>2, <1>3, <1>4, <1>5, <1>6, <1>7, <1>8 DEF Next, Terminating

\* The cold restore is an implementation of the life a request has for its
\* user: each step of it is a step of RequestLifecycle or changes nothing there.
THEOREM Refinement == Spec => ImplementsLifecycle
<1>1. Init => Lifecycle!Init
  BY OwedNothing, ColdThreads DEF Init, StoreInit, Lifecycle!Init
<1> QED
  BY <1>1, StepMaps, Invariance, PTL DEF Spec, ImplementsLifecycle, Lifecycle!Spec

\* A request that is over is not reopened; a failing delivery is the only
\* writer its outcome still has.
THEOREM NotReopened == Spec => NeverReopened
<1>1. IInv /\ IInv' /\ [Next]_vars
        => [IsTerminal(req.status) => req.status' \in {req.status, "Failed"}]_storeVars
  BY StepMaps DEF IsTerminal, TerminalRequestStatuses, Lifecycle!Next, Lifecycle!Submit,
     Lifecycle!Begin, Lifecycle!Finish, Lifecycle!Cancel, Lifecycle!Fail, Lifecycle!SendMail,
     Lifecycle!LoseMail
<1> QED
  BY <1>1, Invariance, PTL DEF Spec, NeverReopened

-----------------------------------------------------------------------------
(* What the restore leaves behind: the counters, the rows of a request     *)
(* that completed and of one that was cancelled.                           *)

\* The request may still end well: neither cancelled nor failed, and once it
\* is either it stays so.
Going == req.status \notin {"Cancelled", "Failed"}

\* A body runs inside the loop of its delivery, and waits there unless another
\* one threw; a delivery has none before its loop.
BodyPlaced(d, f) ==
    /\ pc[<<d, f>>] \notin Settled \cup {"queued"} => pc[d] = "loop"
    /\ pc[<<d, f>>] = "queued" => pc[d] = "loop" \/ BodyThrew(d)
    /\ pc[d] \in {"idle"} \cup Preparing => pc[<<d, f>>] = "idle"

\* The delivery that has bodies has claimed, and no other one ever executes.
BodyOwned(d, f) ==
    pc[<<d, f>>] \notin {"idle", "crashed"} =>
        /\ req.status \notin {"None", "Pending"}
        /\ \A e \in Deliveries : Executing(e) => e = d

\* No more bodies run than the loop allows.
FewRun(d) == Cardinality(Running(d)) <= MaxParallel

BodiesInLoop ==
    \A d \in Deliveries :
        /\ FewRun(d)
        /\ \A f \in Files : BodyPlaced(d, f) /\ BodyOwned(d, f)

\* Whoever drops rows or cancels files does so after the cancellation.
NobodyCancels ==
    /\ \A c \in Callers : pc[c] \notin CancelDone
    /\ \A d \in Deliveries : pc[d] \notin {"dropTraces", "dropLogs"} /\ ~SawCancel(d)
    /\ \A f \in Files : file[f] # "Cancelled"

\* Where a body is, its row and the rows it has inserted agree.
BodyData(d, f) ==
    LET t == <<d, f>> IN
    /\ pc[t] \in {"queued", "check", "mark"} => file[f] = "Pending"
    /\ pc[t] \in {"open", "purge", "insert", "complete", "notFound"} => file[f] = "Processing"
    /\ pc[t] = "insert"   => rows[f] = sent[t] /\ sent[t] < Batches
    /\ pc[t] = "complete" => rows[f] = sent[t] /\ sent[t] = Batches
    /\ pc[t] = "count"    => file[f] = "Completed"
    /\ pc[t] \in {"failing", "countFailed"} => file[f] # "Absent"

BodiesAgree == \A d \in Deliveries, f \in Files : pc[d] = "loop" => BodyData(d, f)

\* A completed row has its batches, once, and reports them.
RowsBehind ==
    \A f \in Files : file[f] = "Completed" => rows[f] = Batches /\ reported[f] = Batches

\* From the end of the plan on, the total is the number of rows.
TotalKept ==
    \A d \in Deliveries :
        pc[d] \in {"load", "loop"} \cup Finalizing => req.total = Cardinality(Planned)

FilesOver == \A f \in Planned : file[f] \in TerminalFileStatuses

\* What a finisher read is still so when it completes the request.
Reading == [processed |-> Cardinality(Planned), failed |-> Cardinality(FailedFiles),
            status |-> FinalStatus(Cardinality(Planned), Cardinality(FailedFiles))]
ReadingHolds ==
    \A d \in Deliveries :
        /\ pc[d] \in {"finCount", "finTry"} => FilesOver /\ snap[d] = Reading
        /\ pc[d] = "finTry" => /\ req.processed = snap[d].processed
                               /\ req.failed = snap[d].failed

\* A request that ended by itself is left alone, but for its mail.
EndedWell ==
    req.status \in {"Completed", "PartialSuccess"} =>
        /\ \A d \in Deliveries : Executing(d) => pc[d] = "finMail"
        /\ FilesOver
        /\ req.total = Cardinality(Planned)
        /\ req.processed = req.total
        /\ req.failed = Cardinality(FailedFiles)
        /\ req.status = FinalStatus(req.total, req.failed)

Sound ==
    /\ NobodyCancels
    /\ BodiesAgree
    /\ RowsBehind
    /\ TotalKept
    /\ ReadingHolds
    /\ EndedWell

\* Files that have rows, or can still get some from a body past its check.
Past == {f \in Files : \E d \in Deliveries : pc[<<d, f>>] \in RestoringFile}
Leftover == {f \in Files : rows[f] > 0}

\* After the cancellation no body passes its check: what a drop leaves or lets
\* grow is what was running.
Leftovers ==
    req.status = "Cancelled" =>
        \A c \in Callers :
            /\ pc[c] = "dropLogs"  => Cardinality(Past \cup (Leftover \cap TraceFiles)) <= MaxParallel
            /\ pc[c] = "cancelled" => Cardinality(Past \cup Leftover) <= MaxParallel

\* Only a call that failed makes a body or a delivery give up.
FaultsTold == \A d \in Deliveries : pc[d] = "abort" \/ BodyThrew(d) => faults > 0

\* A delivery whose loop saw the cancellation drops everything on its way out.
Dropped(d) ==
    SawCancel(d) /\ req.status = "Cancelled" =>
        /\ pc[d] = "dropLogs" => Leftover \cap TraceFiles = {}
        /\ pc[d] \in {"finMail", "done"} \cup Finalizing => Leftover = {}

\* Unless the catch that follows one failed call fails too.
DropsAll == faults <= 1 => \A d \in Deliveries : Dropped(d)

DInv ==
    /\ BodiesInLoop
    /\ Going => Sound
    /\ Leftovers
    /\ FaultsTold
    /\ DropsAll

-----------------------------------------------------------------------------
(* Bodies and their loop.                                                  *)

LEMMA Moved ==
    ASSUME TypeOK, NEW t \in Threads, NEW label, Goto(t, label)
    PROVE  \A u \in Threads : pc'[u] = IF u = t THEN label ELSE pc[u]
BY DEF TypeOK, StoreTypeOK, Goto

LEMMA OtherThreads ==
    /\ \A p \in Deliveries \cup Callers : p \in Threads
    /\ \A d \in Deliveries, f \in Files : <<d, f>> \in Threads
    /\ \A p \in Deliveries \cup Callers, e \in Deliveries, f \in Files : <<e, f>> # p
    /\ \A c \in Callers, e \in Deliveries : c # e
BY ColdThreads, ThreadAssumption DEF FileThreads, Loops

LEMMA BodySets ==
    /\ \A p \in Deliveries \cup Callers, e \in Deliveries, f \in Files :
          <<e, f>> \in {p} \X Files <=> e = p
    /\ \A p, e \in Deliveries \cup Callers : e \notin {p} \X Files
BY ThreadAssumption

LEMMA RunningFinite ==
    ASSUME NEW S \in SUBSET Files
    PROVE  IsFiniteSet(S) /\ Cardinality(S) \in Nat
<1>1. IsFiniteSet(Files)
  BY StoreAssumption, FS_Interval DEF Files
<1> QED
  BY <1>1, FS_Subset, FilesFinite

LEMMA SmallerSet ==
    ASSUME NEW S \in SUBSET Files, NEW T \in SUBSET S, NEW n \in Nat, Cardinality(S) <= n
    PROVE  Cardinality(T) <= n
<1>1. Cardinality(T) <= Cardinality(S)
  BY RunningFinite, FS_Subset
<1>2. Cardinality(T) \in Nat /\ Cardinality(S) \in Nat
  BY RunningFinite
<1> QED
  BY <1>1, <1>2

\* A request that is over stays over, and only a failing delivery writes again.
LEMMA OverStays ==
    ASSUME IInv, IInv', [Next]_vars
    PROVE  /\ req.status \notin {"None", "Pending"} => req'.status \notin {"None", "Pending"}
           /\ IsTerminal(req.status) => req'.status \in {req.status, "Failed"}
BY StepMaps DEF IsTerminal, TerminalRequestStatuses, Lifecycle!Next, Lifecycle!Submit,
   Lifecycle!Begin, Lifecycle!Finish, Lifecycle!Cancel, Lifecycle!Fail, Lifecycle!SendMail,
   Lifecycle!LoseMail, Lifecycle!Outcomes

LEMMA GoingBefore ==
    ASSUME IInv, IInv', [Next]_vars
    PROVE  Going' => Going
BY OverStays DEF Going, IsTerminal, TerminalRequestStatuses

\* Only a claim makes a delivery an executor.
LEMMA ExecutorsStay ==
    ASSUME IInv, [Next]_vars, NEW e \in Deliveries, Executing(e)'
    PROVE  Executing(e) \/ req.status \in {"None", "Pending"}
<1> USE DEF requestVars, fileVars, dataVars, worldVars, localVars
<1>1. CASE Quiet
  BY <1>1 DEF Quiet
<1>2. CASE CreateRequest \/ SendMessage
  BY <1>2 DEF CreateRequest, SendMessage, Executing
<1>3. ASSUME NEW d \in Deliveries, Deliver(d)
      PROVE  Executing(e) \/ req.status \in {"None", "Pending"}
  <2>1. CASE Claim(d)
    <3>1. CASE Claimable
      BY <3>1 DEF Claimable, IInv, TypeOK, StoreTypeOK, RequestStatuses
    <3>2. CASE ~Claimable
      <4>1. \A u \in Threads : pc'[u] = IF u = d THEN "done" ELSE pc[u]
        BY <2>1, <3>2, Moved, ColdThreads DEF Claim, IInv
      <4> QED
        BY <4>1, ColdThreads DEF Executing, Preparing, Finalizing
    <3> QED
      BY <3>1, <3>2
  <2>2. CASE TryComplete(d) \/ SendEmail(d) \/ AbortRequest(d)
    <3>1. PICK label \in {"done", "finMail"} :
             Goto(d, label) /\ (label = "finMail" => pc[d] = "finTry")
      BY <2>2 DEF TryComplete, SendEmail, AbortRequest
    <3>2. \A u \in Threads : pc'[u] = IF u = d THEN label ELSE pc[u]
      BY <3>1, Moved, ColdThreads DEF IInv
    <3> QED
      BY <3>1, <3>2, ColdThreads DEF Executing, Preparing, Finalizing
  <2>3. CASE ~(Claim(d) \/ TryComplete(d) \/ SendEmail(d) \/ AbortRequest(d))
    BY <1>1, <1>3, <2>3, DeliverQuiet DEF Deliver, Finalize
  <2> QED
    BY <2>1, <2>2, <2>3
<1>4. ASSUME NEW c \in Callers, CancelRestore(c) \/ CancelThrows(c)
      PROVE  Executing(e) \/ req.status \in {"None", "Pending"}
  <2>1. CASE TryCancel(c)
    <3>1. PICK label : Goto(c, label)
      BY <2>1 DEF TryCancel
    <3> QED
      BY <3>1, Moved, ColdThreads DEF IInv, Executing
  <2> QED
    BY <1>1, <1>4, <2>1, CancelQuiet
<1>5. CASE UNCHANGED vars \/ \E f \in Files : BlobMoves(f)
  BY <1>5 DEF vars, storeVars, BlobMoves, Executing
<1> QED
  BY <1>1, <1>2, <1>3, <1>4, <1>5, FailureQuiet, RestoreFileQuiet, CrashQuiet
     DEF Next, Terminating

\* The ways in which threads move.  A delivery leaves its loop when no body runs
\* and none can start; a body that runs goes on, or one that is queued starts.
DeliveryMoves ==
    \E d \in Deliveries, label \in Labels :
        /\ \A u \in Threads : pc'[u] = IF u = d THEN label ELSE pc[u]
        /\ label \notin {"idle", "loop"}
        /\ label \in Preparing => pc[d] \in {"idle"} \cup Preparing
        /\ pc[d] = "loop" => LoopEnded(d)
CallerMoves ==
    \E c \in Callers, label \in Labels :
        \A u \in Threads : pc'[u] = IF u = c THEN label ELSE pc[u]
BodyMoves ==
    \E d \in Deliveries, f \in Files, label \in Labels :
        /\ \A u \in Threads : pc'[u] = IF u = <<d, f>> THEN label ELSE pc[u]
        /\ pc[<<d, f>>] \notin Settled \cup {"queued"}
        /\ label \notin {"idle", "queued"}
BodyStarts ==
    \E d \in Deliveries, f \in Files :
        /\ \A u \in Threads : pc'[u] = IF u = <<d, f>> THEN "check" ELSE pc[u]
        /\ pc[<<d, f>>] = "queued"
        /\ Cardinality(Running(d)) < MaxParallel
        /\ ~BodyThrew(d)
LoopBegins ==
    \E d \in Deliveries, work \in SUBSET Files :
        /\ pc[d] = "load"
        /\ \A u \in Threads :
              pc'[u] = IF u = d THEN "loop"
                       ELSE IF u \in {d} \X Files
                            THEN IF u[2] \in work THEN "queued" ELSE "idle"
                            ELSE pc[u]
Stops == \E p \in Deliveries \cup Callers : Crash(p)

LEMMA DeliverMoves ==
    ASSUME IInv, NEW d \in Deliveries, Deliver(d)
    PROVE  DeliveryMoves \/ LoopBegins \/ UNCHANGED pc
<1> USE LabelNames, ColdThreads DEF Preparing, Finalizing
<1>1. ASSUME NEW label \in Labels \ {"idle", "loop"}, Goto(d, label), pc[d] # "loop",
             label \in Preparing => pc[d] \in {"idle"} \cup Preparing
      PROVE  DeliveryMoves
  <2>1. \A u \in Threads : pc'[u] = IF u = d THEN label ELSE pc[u]
    BY <1>1, Moved DEF IInv
  <2> QED
    BY <1>1, <2>1 DEF DeliveryMoves
<1>2. CASE Claim(d) \/ ResetStuck(d) \/ UpdateTotal(d) \/ AbortRequest(d)
  BY <1>1, <1>2 DEF Claim, ResetStuck, UpdateTotal, AbortRequest
<1>3. CASE PlanFile(d)
  BY <1>3 DEF PlanFile
<1>4. CASE LoadPending(d)
  BY <1>4 DEF LoadPending, LoadWork, LoopBegins
<1>5. CASE EndLoop(d)
  <2>1. PICK label \in {"abort", "dropTraces", "finRead"} : LoopEnded(d) /\ Goto(d, label)
    BY <1>5 DEF EndLoop, JoinLoop
  <2>2. \A u \in Threads : pc'[u] = IF u = d THEN label ELSE pc[u]
    BY <2>1, Moved DEF IInv
  <2> QED
    BY <2>1, <2>2 DEF DeliveryMoves
<1>6. CASE DropTraces(d) \/ DropLogs(d, "finRead")
  BY <1>1, <1>6 DEF DropTraces, DropLogs
<1>7. CASE Finalize(d)
  <2>1. PICK label \in {"done", "finFiles", "finCount", "finTry", "finMail"} : Goto(d, label)
    BY <1>7 DEF Finalize, ReadRequest, ReadFiles, WriteCounters, TryComplete, SendEmail
  <2>2. pc[d] # "loop"
    BY <1>7 DEF Finalize, ReadRequest, ReadFiles, WriteCounters, TryComplete, SendEmail
  <2> QED
    BY <1>1, <2>1, <2>2
<1> QED
  BY <1>2, <1>3, <1>4, <1>5, <1>6, <1>7 DEF Deliver

LEMMA FailureMoves ==
    ASSUME IInv, NEW d \in Deliveries, DeliveryThrows(d)
    PROVE  DeliveryMoves
<1>1. PICK label \in {"abort", "done"} : Goto(d, label)
  BY DEF DeliveryThrows, LoseEmail, Throw
<1>2. \A u \in Threads : pc'[u] = IF u = d THEN label ELSE pc[u]
  BY <1>1, Moved, ColdThreads DEF IInv
<1>3. pc[d] # "loop"
  BY DEF DeliveryThrows, LoseEmail, Preparing, Finalizing
<1> QED
  BY <1>2, <1>3, LabelNames DEF DeliveryMoves, Preparing

LEMMA FileMoves ==
    ASSUME IInv, NEW d \in Deliveries, NEW f \in Files, RestoreFile(d, f) \/ FileThrows(d, f)
    PROVE  BodyMoves \/ BodyStarts
<1> DEFINE t == <<d, f>>
<1> USE LabelNames, ColdThreads DEF RestoringFile, RecordingFault
<1>1. CASE StartFile(d, f)
  <2>1. \A u \in Threads : pc'[u] = IF u = t THEN "check" ELSE pc[u]
    BY <1>1, Moved DEF StartFile, StartBody, IInv
  <2> QED
    BY <1>1, <2>1 DEF StartFile, StartBody, BodyStarts
<1>2. ASSUME NEW label \in Labels \ {"idle", "queued"}, Goto(t, label),
             pc[t] \in {"check"} \cup RestoringFile \cup RecordingFault
      PROVE  BodyMoves
  <2>1. \A u \in Threads : pc'[u] = IF u = t THEN label ELSE pc[u]
    BY <1>2, Moved DEF IInv
  <2> QED
    BY <1>2, <2>1 DEF BodyMoves, Settled
<1>3. CASE CheckCancelled(d, f)
  <2>1. \E label \in {"done", "sawCancel", "mark"} : Goto(t, label)
    BY <1>3 DEF CheckCancelled
  <2> QED
    BY <1>2, <1>3, <2>1 DEF CheckCancelled
<1>4. CASE MarkProcessing(t) \/ OpenBlob(t, "notFound") \/ PurgeStale(t) \/ InsertBatch(t)
  BY <1>2, <1>4 DEF MarkProcessing, OpenBlob, PurgeStale, InsertBatch
<1>5. CASE CompleteFile(t) \/ CountFile(t, "done") \/ RecordFailure(t)
           \/ CountFailed(t, "countFailed", "done")
  BY <1>2, <1>5 DEF CompleteFile, CountFile, RecordFailure, CountFailed
<1>6. CASE FileThrows(d, f)
  <2>1. \E label \in {"failing", "thrown"} : Goto(t, label)
    BY <1>6 DEF FileThrows, Throw
  <2> QED
    BY <1>2, <1>6, <2>1 DEF FileThrows
<1> QED
  BY <1>1, <1>3, <1>4, <1>5, <1>6 DEF RestoreFile

LEMMA CancelMoves ==
    ASSUME IInv, NEW c \in Callers, CancelRestore(c) \/ CancelThrows(c)
    PROVE  CallerMoves
<1>1. PICK label \in {"refused", "tryCancel", "cancelFiles", "cancelJobs", "dropTraces",
                      "dropLogs", "cancelled", "thrown"} : Goto(c, label)
  BY DEF CancelRestore, ReadBeforeCancel, TryCancel, CancelFiles, CancelJobs, DropTraces,
     DropLogs, CancelThrows, Throw
<1>2. \A u \in Threads : pc'[u] = IF u = c THEN label ELSE pc[u]
  BY <1>1, Moved, ColdThreads DEF IInv
<1> QED
  BY <1>2, LabelNames DEF CallerMoves

LEMMA Moves ==
    ASSUME IInv, [Next]_vars
    PROVE  \/ DeliveryMoves \/ CallerMoves \/ BodyMoves \/ BodyStarts \/ LoopBegins \/ Stops
           \/ UNCHANGED pc
<1>1. CASE CreateRequest \/ SendMessage \/ (\E f \in Files : BlobMoves(f)) \/ UNCHANGED vars
  BY <1>1 DEF CreateRequest, SendMessage, BlobMoves, vars, storeVars
<1> QED
  BY <1>1, DeliverMoves, FailureMoves, FileMoves, CancelMoves DEF Next, Terminating, Stops

LEMMA BodiesStep ==
    ASSUME IInv, IInv', [Next]_vars, BodiesInLoop
    PROVE  BodiesInLoop'
<1> USE OtherThreads
<1>1. ASSUME NEW d \in Deliveries, NEW f \in Files,
             pc'[<<d, f>>] \in {"idle", "crashed"} \/ pc[<<d, f>>] \notin {"idle", "crashed"}
      PROVE  BodyOwned(d, f)'
  <2> SUFFICES ASSUME pc'[<<d, f>>] \notin {"idle", "crashed"} PROVE BodyOwned(d, f)'
    BY DEF BodyOwned
  <2>1. req.status \notin {"None", "Pending"} /\ \A e \in Deliveries : Executing(e) => e = d
    BY <1>1 DEF BodiesInLoop, BodyOwned
  <2> QED
    BY <2>1, OverStays, ExecutorsStay DEF BodyOwned
<1>2. ASSUME NEW d \in Deliveries, Running(d)' \subseteq Running(d)
      PROVE  FewRun(d)'
  <2>1. Running(d) \subseteq Files
    BY DEF Running
  <2> QED
    BY <1>2, <2>1, SmallerSet, StoreAssumption DEF BodiesInLoop, FewRun
<1>3. CASE DeliveryMoves
  <2>1. PICK d \in Deliveries, label \in Labels :
           /\ \A u \in Threads : pc'[u] = IF u = d THEN label ELSE pc[u]
           /\ label \notin {"idle", "loop"}
           /\ label \in Preparing => pc[d] \in {"idle"} \cup Preparing
           /\ pc[d] = "loop" => LoopEnded(d)
    BY <1>3 DEF DeliveryMoves
  <2>2. \A e \in Deliveries, f \in Files : pc'[<<e, f>>] = pc[<<e, f>>]
    BY <2>1
  <2>3. \A e \in Deliveries : /\ Running(e)' = Running(e)
                              /\ (BodyThrew(e)' <=> BodyThrew(e))
    BY <2>2 DEF Running, BodyThrew
  <2>4. ASSUME NEW e \in Deliveries, NEW f \in Files PROVE BodyPlaced(e, f)'
    <3>0. BodyPlaced(e, f) /\ pc'[<<e, f>>] = pc[<<e, f>>] /\ (BodyThrew(e)' <=> BodyThrew(e))
      BY <2>2, <2>3 DEF BodiesInLoop
    <3>1. CASE e # d
      BY <2>1, <3>0, <3>1 DEF BodyPlaced
    <3>2. CASE e = d /\ pc[d] # "loop"
      BY <2>1, <3>0, <3>2 DEF BodyPlaced
    <3>3. CASE e = d /\ pc[d] = "loop"
      <4>1. Running(d) = {} /\ (BodyThrew(d) \/ Waiting(d) = {})
        BY <2>1, <3>3 DEF LoopEnded
      <4> QED
        BY <2>1, <3>0, <3>3, <4>1 DEF BodyPlaced, Running, Waiting, Preparing
    <3> QED
      BY <3>1, <3>2, <3>3
  <2>5. \A e \in Deliveries, f \in Files : BodyOwned(e, f)'
    BY <1>1, <2>2
  <2>6. \A e \in Deliveries : FewRun(e)'
    BY <1>2, <2>3
  <2> QED
    BY <2>4, <2>5, <2>6 DEF BodiesInLoop
<1>4. CASE CallerMoves \/ UNCHANGED pc
  <2>1. /\ \A e \in Deliveries : pc'[e] = pc[e]
        /\ \A e \in Deliveries, f \in Files : pc'[<<e, f>>] = pc[<<e, f>>]
    BY <1>4 DEF CallerMoves
  <2>2. \A e \in Deliveries : /\ Running(e)' = Running(e)
                              /\ (BodyThrew(e)' <=> BodyThrew(e))
    BY <2>1 DEF Running, BodyThrew
  <2>3. ASSUME NEW e \in Deliveries, NEW f \in Files PROVE BodyPlaced(e, f)'
    <3>1. BodyPlaced(e, f) /\ (BodyThrew(e)' <=> BodyThrew(e))
      BY <2>2 DEF BodiesInLoop
    <3> QED
      BY <2>1, <3>1 DEF BodyPlaced
  <2>3a. \A e \in Deliveries, f \in Files : BodyOwned(e, f)'
    BY <1>1, <2>1
  <2>4. \A e \in Deliveries : FewRun(e)'
    BY <1>2, <2>2
  <2> QED
    BY <2>3, <2>3a, <2>4 DEF BodiesInLoop
<1>5. CASE BodyMoves
  <2>1. PICK d \in Deliveries, f \in Files, label \in Labels :
           /\ \A u \in Threads : pc'[u] = IF u = <<d, f>> THEN label ELSE pc[u]
           /\ pc[<<d, f>>] \notin Settled \cup {"queued"}
           /\ label \notin {"idle", "queued"}
    BY <1>5 DEF BodyMoves
  <2>2. \A e \in Deliveries : /\ pc'[e] = pc[e]
                              /\ Running(e)' \subseteq Running(e)
                              /\ BodyThrew(e) => BodyThrew(e)'
    BY <2>1 DEF Running, BodyThrew, Settled
  <2>3. ASSUME NEW e \in Deliveries, NEW g \in Files PROVE BodyPlaced(e, g)'
    <3>1. BodyPlaced(e, g) /\ BodyPlaced(d, f) /\ (BodyThrew(e) => BodyThrew(e)')
      BY <2>2 DEF BodiesInLoop
    <3>2. pc'[e] = pc[e]
      BY <2>2
    <3>3. CASE <<e, g>> # <<d, f>>
      BY <2>1, <3>1, <3>2, <3>3 DEF BodyPlaced
    <3>4. CASE <<e, g>> = <<d, f>>
      <4>1. e = d /\ g = f
        BY <3>4
      <4> QED
        BY <2>1, <3>1, <3>2, <4>1 DEF BodyPlaced, Settled, Preparing
    <3> QED
      BY <3>3, <3>4
  <2>3a. \A e \in Deliveries, g \in Files : BodyOwned(e, g)'
    <3>1. pc[<<d, f>>] \notin {"idle", "crashed"}
      BY <2>1 DEF Settled
    <3> QED
      BY <1>1, <2>1, <3>1
  <2>4. \A e \in Deliveries : FewRun(e)'
    BY <1>2, <2>2
  <2> QED
    BY <2>3, <2>3a, <2>4 DEF BodiesInLoop
<1>6. CASE BodyStarts
  <2>1. PICK d \in Deliveries, f \in Files :
           /\ \A u \in Threads : pc'[u] = IF u = <<d, f>> THEN "check" ELSE pc[u]
           /\ pc[<<d, f>>] = "queued"
           /\ Cardinality(Running(d)) < MaxParallel
           /\ ~BodyThrew(d)
    BY <1>6 DEF BodyStarts
  <2>2. \A e \in Deliveries : /\ pc'[e] = pc[e]
                              /\ e # d => Running(e)' = Running(e)
                              /\ (BodyThrew(e)' <=> BodyThrew(e))
    BY <2>1 DEF Running, BodyThrew, Settled
  <2>3. ASSUME NEW e \in Deliveries, NEW g \in Files PROVE BodyPlaced(e, g)'
    <3>1. BodyPlaced(e, g) /\ BodyPlaced(d, f) /\ (BodyThrew(e) => BodyThrew(e)')
      BY <2>2 DEF BodiesInLoop
    <3>2. pc'[e] = pc[e]
      BY <2>2
    <3>3. CASE <<e, g>> # <<d, f>>
      BY <2>1, <3>1, <3>2, <3>3 DEF BodyPlaced
    <3>4. CASE <<e, g>> = <<d, f>>
      <4>1. e = d /\ g = f
        BY <3>4
      <4> QED
        BY <2>1, <2>2, <3>1, <3>2, <4>1 DEF BodyPlaced, Settled, Preparing
    <3> QED
      BY <3>3, <3>4
  <2>3a. \A e \in Deliveries, g \in Files : BodyOwned(e, g)'
    <3>1. pc[<<d, f>>] \notin {"idle", "crashed"}
      BY <2>1 DEF Settled
    <3> QED
      BY <1>1, <2>1, <3>1
  <2>4. FewRun(d)'
    <3>1. Running(d)' = Running(d) \cup {f} /\ Running(d) \subseteq Files
      BY <2>1 DEF Running, Settled
    <3>2. IsFiniteSet(Running(d)) /\ Cardinality(Running(d)) \in Nat
      BY <3>1, RunningFinite
    <3>3. Cardinality(Running(d) \cup {f})
              = IF f \in Running(d) THEN Cardinality(Running(d)) ELSE Cardinality(Running(d)) + 1
      BY <3>2, FS_AddElement, Zenon
    <3>4. Cardinality(Running(d) \cup {f}) \in Nat
      BY <3>1, RunningFinite
    <3> QED
      BY <2>1, <3>1, <3>2, <3>3, <3>4, StoreAssumption DEF FewRun
  <2>5. \A e \in Deliveries : FewRun(e)'
    BY <1>2, <2>2, <2>4
  <2> QED
    BY <2>3, <2>3a, <2>5 DEF BodiesInLoop
<1>7. CASE LoopBegins
  <2>1. PICK d \in Deliveries, work \in SUBSET Files :
           /\ pc[d] = "load"
           /\ \A u \in Threads :
                 pc'[u] = IF u = d THEN "loop"
                          ELSE IF u \in {d} \X Files
                               THEN IF u[2] \in work THEN "queued" ELSE "idle"
                               ELSE pc[u]
    BY <1>7 DEF LoopBegins
  <2>2. \A e \in Deliveries : e # d => pc'[e] = pc[e]
    BY <2>1, BodySets
  <2>3. \A g \in Files : pc'[<<d, g>>] \in {"queued", "idle"}
    BY <2>1
  <2>4. \A e \in Deliveries, g \in Files : e # d => pc'[<<e, g>>] = pc[<<e, g>>]
    BY <2>1, BodySets
  <2>5. pc'[d] = "loop"
    BY <2>1
  <2>6. \A e \in Deliveries : e # d => /\ Running(e)' = Running(e)
                                      /\ (BodyThrew(e)' <=> BodyThrew(e))
    BY <2>4 DEF Running, BodyThrew
  <2>7. Running(d)' = {}
    BY <2>3 DEF Running, Settled
  <2>8. ASSUME NEW e \in Deliveries, NEW g \in Files PROVE BodyPlaced(e, g)'
    <3>1. CASE e # d
      <4>1. BodyPlaced(e, g) /\ (BodyThrew(e)' <=> BodyThrew(e))
        BY <2>6, <3>1 DEF BodiesInLoop
      <4> QED
        BY <2>2, <2>4, <3>1, <4>1 DEF BodyPlaced
    <3>2. CASE e = d
      BY <2>3, <2>5, <3>2 DEF BodyPlaced, Settled, Preparing
    <3> QED
      BY <3>1, <3>2
  <2>9. \A e \in Deliveries, g \in Files : BodyOwned(e, g)'
    <3>1. ASSUME NEW g \in Files PROVE BodyOwned(d, g)'
      <4>1. Executing(d) /\ Executing(d)'
        BY <2>1, <2>5 DEF Executing, Preparing
      <4> QED
        BY <4>1 DEF IInv, ExecutorClaimed, SingleExecution, BodyOwned
    <3> QED
      BY <1>1, <2>4, <3>1
  <2>10. \A e \in Deliveries : FewRun(e)'
    BY <1>2, <2>6, <2>7
  <2> QED
    BY <2>8, <2>9, <2>10 DEF BodiesInLoop
<1>8. CASE Stops
  <2>1. PICK p \in Deliveries \cup Callers : Crash(p)
    BY <1>8 DEF Stops
  <2>2. \A u \in Threads : pc'[u] = IF u = p \/ u \in {p} \X Files THEN "crashed" ELSE pc[u]
    BY <2>1 DEF Crash
  <2>3. \A e \in Deliveries : pc'[e] = IF e = p THEN "crashed" ELSE pc[e]
    BY <2>2, BodySets
  <2>4. ASSUME NEW e \in Deliveries, NEW g \in Files
        PROVE  pc'[<<e, g>>] = IF e = p THEN "crashed" ELSE pc[<<e, g>>]
    <3>1. <<e, g>> \in Threads /\ <<e, g>> # p /\ (<<e, g>> \in {p} \X Files <=> e = p)
      BY BodySets
    <3> QED
      BY <2>2, <3>1
  <2>5. \A e \in Deliveries : Running(e)' \subseteq Running(e)
    BY <2>4 DEF Running, Settled
  <2>6. \A e \in Deliveries : e # p => (BodyThrew(e)' <=> BodyThrew(e))
    BY <2>4 DEF BodyThrew
  <2>7. ASSUME NEW e \in Deliveries, NEW g \in Files PROVE BodyPlaced(e, g)'
    <3>1. CASE e # p
      <4>1. BodyPlaced(e, g) /\ (BodyThrew(e)' <=> BodyThrew(e))
        BY <2>6, <3>1 DEF BodiesInLoop
      <4> QED
        BY <2>3, <2>4, <3>1, <4>1 DEF BodyPlaced
    <3>2. CASE e = p
      BY <2>3, <2>4, <3>2 DEF BodyPlaced, Settled, Preparing
    <3> QED
      BY <3>1, <3>2
  <2>8. \A e \in Deliveries, g \in Files : BodyOwned(e, g)'
    BY <1>1, <2>4
  <2>9. \A e \in Deliveries : FewRun(e)'
    BY <1>2, <2>5
  <2> QED
    BY <2>7, <2>8, <2>9 DEF BodiesInLoop
<1> QED
  BY <1>3, <1>4, <1>5, <1>6, <1>7, <1>8, Moves

-----------------------------------------------------------------------------
(* While the request may still end well.                                   *)

LEMMA OnlyExecutor ==
    ASSUME IInv, NEW d \in Deliveries, Executing(d)
    PROVE  \A e \in Deliveries : Executing(e) => e = d
BY DEF IInv, SingleExecution

\* A step that only stops threads, or moves a call that has cancelled nothing.
LEMMA SoundStays ==
    ASSUME Sound,
           UNCHANGED <<req, file, reported, rows, sent, snap>>,
           \A c \in Callers : pc'[c] \notin CancelDone,
           \A d \in Deliveries : pc'[d] \in {pc[d], "crashed"},
           \A d \in Deliveries, f \in Files :
              /\ pc'[<<d, f>>] \in {pc[<<d, f>>], "crashed"}
              /\ pc'[d] = pc[d] => pc'[<<d, f>>] = pc[<<d, f>>]
    PROVE  Sound'
<1>1. NobodyCancels'
  BY DEF Sound, NobodyCancels, SawCancel
<1>2. BodiesAgree'
  <2> SUFFICES ASSUME NEW d \in Deliveries, NEW f \in Files, pc'[d] = "loop"
               PROVE  BodyData(d, f)'
    BY DEF BodiesAgree
  <2>1. pc[d] = "loop" /\ pc'[<<d, f>>] = pc[<<d, f>>]
    OBVIOUS
  <2>2. BodyData(d, f)
    BY <2>1 DEF Sound, BodiesAgree
  <2> QED
    BY <2>1, <2>2 DEF BodyData
<1>3. RowsBehind'
  BY DEF Sound, RowsBehind
<1>4. TotalKept' /\ ReadingHolds'
  <2>1. \A d \in Deliveries : pc'[d] # "crashed" => pc'[d] = pc[d]
    OBVIOUS
  <2>2. UNCHANGED <<Planned, FailedFiles, FilesOver, Reading>>
    BY DEF Planned, FailedFiles, FilesOver, Reading
  <2> QED
    BY <2>1, <2>2 DEF Sound, TotalKept, ReadingHolds, Finalizing
<1>5. EndedWell'
  <2>1. UNCHANGED <<Planned, FailedFiles>> /\ (FilesOver <=> FilesOver')
    BY DEF Planned, FailedFiles, FilesOver
  <2>2. \A d \in Deliveries : Executing(d)' => Executing(d) /\ pc'[d] = pc[d]
    BY DEF Executing, Preparing, Finalizing
  <2> QED
    BY <2>1, <2>2 DEF Sound, EndedWell
<1> QED
  BY <1>1, <1>2, <1>3, <1>4, <1>5 DEF Sound

\* A step of a body: its own row may change, and must agree with its new place.
LEMMA BodySound ==
    ASSUME IInv, Sound, NEW d \in Deliveries, NEW f \in Files, NEW label,
           \A u \in Threads : pc'[u] = IF u = <<d, f>> THEN label ELSE pc[u],
           pc[d] = "loop", label # "sawCancel",
           file[f] # "Absent", file'[f] \notin {"Absent", "Cancelled"},
           \A g \in Files \ {f} :
              file'[g] = file[g] /\ reported'[g] = reported[g] /\ rows'[g] = rows[g],
           \A g \in Files \ {f} : sent'[<<d, g>>] = sent[<<d, g>>],
           req'.status = req.status, req'.total = req.total,
           BodyData(d, f)',
           file'[f] = "Completed" => rows'[f] = Batches /\ reported'[f] = Batches
    PROVE  Sound'
<1> USE OtherThreads
<1>1. Executing(d)
  BY DEF Executing
<1>2. \A e \in Deliveries : pc'[e] = pc[e] /\ (Executing(e)' => e = d)
  <2>1. \A e \in Deliveries : pc'[e] = pc[e]
    OBVIOUS
  <2> QED
    BY <1>1, <2>1, OnlyExecutor DEF Executing
<1>3. NobodyCancels'
  <2>1. \A c \in Callers : pc'[c] = pc[c]
    OBVIOUS
  <2>2. \A e \in Deliveries, g \in Files : pc'[<<e, g>>] \in {pc[<<e, g>>], label}
    OBVIOUS
  <2> QED
    BY <1>2, <2>1, <2>2 DEF Sound, NobodyCancels, SawCancel
<1>4. BodiesAgree'
  <2> SUFFICES ASSUME NEW e \in Deliveries, NEW g \in Files, pc'[e] = "loop"
               PROVE  BodyData(e, g)'
    BY DEF BodiesAgree
  <2>1. e = d
    BY <1>2 DEF Executing
  <2>2. CASE g = f
    BY <2>1, <2>2
  <2>3. CASE g # f
    <3>1. BodyData(d, g)
      BY DEF Sound, BodiesAgree
    <3>2. pc'[<<d, g>>] = pc[<<d, g>>]
      BY <2>3
    <3> QED
      BY <2>1, <2>3, <3>1, <3>2 DEF BodyData
  <2> QED
    BY <2>2, <2>3
<1>5. RowsBehind'
  BY DEF Sound, RowsBehind
<1>6. TotalKept'
  <2>1. Planned' = Planned
    BY DEF Planned
  <2> QED
    BY <1>2, <2>1 DEF Sound, TotalKept
<1>7. ReadingHolds'
  BY <1>2 DEF ReadingHolds, Executing, Finalizing
<1>8. EndedWell'
  BY <1>1, <1>2 DEF Sound, EndedWell
<1> QED
  BY <1>3, <1>4, <1>5, <1>6, <1>7, <1>8 DEF Sound

\* A step of a delivery that touches no row.
LEMMA DeliverySound ==
    ASSUME IInv, Sound, NEW d \in Deliveries, NEW label,
           \A u \in Threads : pc'[u] = IF u = d THEN label ELSE pc[u],
           label \notin {"loop", "dropTraces", "dropLogs"},
           UNCHANGED <<file, reported, rows, sent>>,
           \A e \in Deliveries \ {d} : Executing(e) => UNCHANGED <<req, snap>>,
           label \in {"load"} \cup Finalizing => req'.total = Cardinality(Planned),
           label \in {"finCount", "finTry"} => FilesOver /\ snap'[d] = Reading,
           label = "finTry" => req'.processed = snap'[d].processed
                               /\ req'.failed = snap'[d].failed,
           EndedWell'
    PROVE  Sound'
<1> USE OtherThreads
<1>1. \A e \in Deliveries : pc'[e] = IF e = d THEN label ELSE pc[e]
  OBVIOUS
<1>2. \A e \in Deliveries, f \in Files : pc'[<<e, f>>] = pc[<<e, f>>]
  OBVIOUS
<1>3. NobodyCancels'
  <2>1. \A c \in Callers : pc'[c] = pc[c]
    OBVIOUS
  <2> QED
    BY <1>1, <1>2, <2>1 DEF Sound, NobodyCancels, SawCancel
<1>4. BodiesAgree'
  <2> SUFFICES ASSUME NEW e \in Deliveries, NEW g \in Files, pc'[e] = "loop"
               PROVE  BodyData(e, g)'
    BY DEF BodiesAgree
  <2>1. pc[e] = "loop" /\ pc'[<<e, g>>] = pc[<<e, g>>]
    BY <1>1, <1>2
  <2>2. BodyData(e, g)
    BY <2>1 DEF Sound, BodiesAgree
  <2> QED
    BY <2>1, <2>2 DEF BodyData
<1>5. RowsBehind'
  BY DEF Sound, RowsBehind
<1>6. UNCHANGED <<Planned, FailedFiles, Reading>> /\ (FilesOver' <=> FilesOver)
  BY DEF Planned, FailedFiles, FilesOver, Reading
<1>7. TotalKept'
  <2>1. ASSUME NEW e \in Deliveries, pc'[e] \in {"load", "loop"} \cup Finalizing
        PROVE  req'.total = Cardinality(Planned)
    <3>1. CASE e = d
      BY <1>1, <2>1, <3>1
    <3>2. CASE e # d
      <4>1. pc'[e] = pc[e]
        BY <1>1, <3>2
      <4>2. req' = req
        BY <2>1, <3>2, <4>1 DEF Executing, Preparing
      <4> QED
        BY <2>1, <4>1, <4>2 DEF Sound, TotalKept
    <3> QED
      BY <3>1, <3>2
  <2> QED
    BY <1>6, <2>1 DEF TotalKept
<1>8. ReadingHolds'
  <2> SUFFICES ASSUME NEW e \in Deliveries, pc'[e] \in {"finCount", "finTry"}
               PROVE  /\ FilesOver' /\ snap'[e] = Reading'
                      /\ pc'[e] = "finTry" => /\ req'.processed = snap'[e].processed
                                              /\ req'.failed = snap'[e].failed
    BY DEF ReadingHolds
  <2>1. CASE e = d
    BY <1>1, <1>6, <2>1
  <2>2. CASE e # d
    <3>1. pc'[e] = pc[e]
      BY <1>1, <2>2
    <3>2. UNCHANGED <<req, snap>>
      BY <2>2, <3>1 DEF Executing, Finalizing
    <3> QED
      BY <1>6, <3>1, <3>2 DEF Sound, ReadingHolds
  <2> QED
    BY <2>1, <2>2
<1> QED
  BY <1>3, <1>4, <1>5, <1>7, <1>8 DEF Sound


\* An executor at work is proof that the request has not ended by itself.
LEMMA NotEnded ==
    ASSUME Sound, NEW d \in Deliveries, Executing(d), pc[d] # "finMail"
    PROVE  req.status \notin {"Completed", "PartialSuccess"}
BY DEF Sound, EndedWell

\* A request that ended stays as it is while a delivery goes or stops.
LEMMA EndedStays ==
    ASSUME Sound, NEW d \in Deliveries, NEW label,
           \A u \in Threads : pc'[u] = IF u = d THEN label ELSE pc[u],
           UNCHANGED <<req, file>>,
           label \in {"done", "abort"}
    PROVE  EndedWell'
<1>1. UNCHANGED <<Planned, FailedFiles>> /\ (FilesOver <=> FilesOver')
  BY DEF Planned, FailedFiles, FilesOver
<1>2. \A e \in Deliveries : Executing(e)' => Executing(e) /\ pc'[e] = pc[e]
  BY OtherThreads DEF Executing, Preparing, Finalizing
<1> QED
  BY <1>1, <1>2 DEF Sound, EndedWell

LEMMA ClaimSound ==
    ASSUME IInv, Sound, NEW d \in Deliveries, Claim(d)
    PROVE  Sound'
<1> USE DEF requestVars, fileVars, dataVars, worldVars, localVars
<1>1. CASE Claimable
  <2>1. \A u \in Threads : pc'[u] = IF u = d THEN "reset" ELSE pc[u]
    BY <1>1, Moved, OtherThreads DEF Claim, IInv
  <2>2. req.status \in {"None", "Pending"}
    BY <1>1 DEF Claimable, IInv, TypeOK, StoreTypeOK, RequestStatuses
  <2>3. \A e \in Deliveries : ~Executing(e)
    BY <2>2 DEF IInv, ExecutorClaimed
  <2>4. req'.status = "InProgress"
    BY <1>1 DEF Claim, IInv, TypeOK, StoreTypeOK
  <2>5. EndedWell'
    BY <2>4 DEF EndedWell
  <2> QED
    BY <1>1, <2>1, <2>3, <2>5, DeliverySound DEF Claim, Finalizing
<1>2. CASE ~Claimable
  <2>1. \A u \in Threads : pc'[u] = IF u = d THEN "done" ELSE pc[u]
    BY <1>2, Moved, OtherThreads DEF Claim, IInv
  <2>2. UNCHANGED <<req, fileVars, rows, localVars>>
    BY <1>2 DEF Claim
  <2>3. EndedWell'
    BY <2>1, <2>2, EndedStays
  <2> QED
    BY <2>1, <2>2, <2>3, DeliverySound DEF Finalizing
<1> QED
  BY <1>1, <1>2

\* Planning: no body is there yet, and nobody else works on the request.
LEMMA PlanSound ==
    ASSUME IInv, Sound, NEW d \in Deliveries, ResetStuck(d) \/ PlanFile(d)
    PROVE  Sound'
<1> USE OtherThreads DEF requestVars, fileVars, dataVars, worldVars, localVars
<1>1. Executing(d) /\ pc[d] \in {"reset", "plan"}
  BY DEF ResetStuck, PlanFile, Executing, Preparing
<1>2. \A u \in Threads : pc'[u] = IF u = d THEN "plan" ELSE pc[u]
  BY Moved DEF ResetStuck, PlanFile, IInv, TypeOK, StoreTypeOK
<1>3. \A f \in Files : /\ file'[f] # "Cancelled"
                       /\ file'[f] = "Completed" => file[f] = "Completed"
  BY DEF ResetStuck, PlanFile, Sound, NobodyCancels, IInv, TypeOK, StoreTypeOK
<1>4. UNCHANGED <<req, reported, rows, snap>>
  BY DEF ResetStuck, PlanFile
<1>5. \A e \in Deliveries : Executing(e) => e = d
  BY <1>1, OnlyExecutor
<1>6. \A e \in Deliveries : pc'[e] \notin {"load", "loop"} \cup Finalizing
  BY <1>2, <1>5 DEF Executing, Preparing, Finalizing
<1>7. NobodyCancels'
  <2>1. \A c \in Callers : pc'[c] = pc[c]
    BY <1>2
  <2>2. \A e \in Deliveries : pc'[e] \in {"plan", pc[e]}
    BY <1>2
  <2>3. \A e \in Deliveries, f \in Files : pc'[<<e, f>>] = pc[<<e, f>>]
    BY <1>2
  <2> QED
    BY <1>3, <2>1, <2>2, <2>3 DEF Sound, NobodyCancels, SawCancel
<1>8. BodiesAgree' /\ TotalKept' /\ ReadingHolds'
  BY <1>6 DEF BodiesAgree, TotalKept, ReadingHolds, Finalizing
<1>9. RowsBehind'
  BY <1>3, <1>4 DEF Sound, RowsBehind
<1>10. EndedWell'
  BY <1>1, <1>4, NotEnded DEF EndedWell
<1> QED
  BY <1>7, <1>8, <1>9, <1>10 DEF Sound

LEMMA LoadSound ==
    ASSUME IInv, Sound, NEW d \in Deliveries, LoadPending(d)
    PROVE  Sound'
<1> DEFINE work == {f \in Files : file[f] = "Pending"}
<1>1. Executing(d) /\ pc[d] = "load"
  BY DEF LoadPending, Executing, Preparing
<1>2. \A u \in Threads :
         pc'[u] = IF u = d THEN "loop"
                  ELSE IF u \in {d} \X Files
                       THEN IF u[2] \in work THEN "queued" ELSE "idle"
                       ELSE pc[u]
  BY DEF LoadPending, LoadWork
<1>3. UNCHANGED <<req, file, reported, rows, sent, snap>>
  BY DEF LoadPending, LoadWork, requestVars, fileVars, dataVars, localVars
<1>4. \A e \in Deliveries : pc'[e] = IF e = d THEN "loop" ELSE pc[e]
  BY <1>2, OtherThreads, BodySets
<1>5. ASSUME NEW e \in Deliveries, NEW f \in Files
      PROVE  /\ e # d => pc'[<<e, f>>] = pc[<<e, f>>]
             /\ e = d => pc'[<<e, f>>] = IF f \in work THEN "queued" ELSE "idle"
  <2>1. <<e, f>> \in Threads /\ <<e, f>> # d /\ (<<e, f>> \in {d} \X Files <=> e = d)
    BY OtherThreads, BodySets
  <2> QED
    BY <1>2, <2>1
<1>6. \A e \in Deliveries : Executing(e) => e = d
  BY <1>1, OnlyExecutor
<1>7. \A e \in Deliveries : pc'[e] \in {"loop"} \cup Finalizing => e = d
  BY <1>4, <1>6 DEF Executing, Finalizing
<1>8. NobodyCancels'
  <2>1. \A c \in Callers : pc'[c] = pc[c]
    BY <1>2, OtherThreads, BodySets
  <2>2. \A e \in Deliveries, f \in Files : pc'[<<e, f>>] \in {"queued", "idle", pc[<<e, f>>]}
    BY <1>5
  <2> QED
    BY <1>3, <1>4, <2>1, <2>2 DEF Sound, NobodyCancels, SawCancel
<1>9. BodiesAgree'
  <2> SUFFICES ASSUME NEW f \in Files PROVE BodyData(d, f)'
    BY <1>7 DEF BodiesAgree
  <2>1. /\ pc'[<<d, f>>] \in {"queued", "idle"}
        /\ pc'[<<d, f>>] = "queued" => file'[f] = "Pending"
    BY <1>3, <1>5
  <2> QED
    BY <2>1 DEF BodyData
<1>10. RowsBehind'
  BY <1>3 DEF Sound, RowsBehind
<1>11. TotalKept'
  <2>1. Planned' = Planned
    BY <1>3 DEF Planned
  <2>2. \A e \in Deliveries : pc'[e] = "load" => e = d
    BY <1>4, <1>6 DEF Executing, Preparing
  <2> QED
    BY <1>1, <1>3, <1>7, <2>1, <2>2 DEF Sound, TotalKept
<1>12. ReadingHolds'
  BY <1>4, <1>7 DEF ReadingHolds, Finalizing
<1>13. EndedWell'
  BY <1>1, <1>3, NotEnded DEF EndedWell
<1> QED
  BY <1>8, <1>9, <1>10, <1>11, <1>12, <1>13 DEF Sound

LEMMA TotalSound ==
    ASSUME IInv, Sound, NEW d \in Deliveries, UpdateTotal(d) \/ EndLoop(d) \/ ReadRequest(d)
    PROVE  Sound'
<1> USE OtherThreads DEF requestVars, fileVars, dataVars, worldVars, localVars
<1>1. Executing(d) /\ pc[d] \in {"plan", "loop", "finRead"}
  BY DEF UpdateTotal, EndLoop, JoinLoop, LoopEnded, ReadRequest, Executing, Preparing, Finalizing
<1>2. ~SawCancel(d)
  BY DEF Sound, NobodyCancels
<1>3. PICK label \in {"load", "abort", "finRead", "done", "finFiles"} :
        /\ Goto(d, label)
        /\ pc[d] = "plan" => req' = [req EXCEPT !.total = Cardinality(Planned)]
        /\ pc[d] # "plan" => req' = req
  BY <1>2 DEF UpdateTotal, EndLoop, JoinLoop, LoopEnded, ReadRequest
<1>4. \A u \in Threads : pc'[u] = IF u = d THEN label ELSE pc[u]
  BY <1>3, Moved DEF IInv
<1>5. UNCHANGED <<file, reported, rows, sent, snap>>
  BY DEF UpdateTotal, EndLoop, JoinLoop, ReadRequest
<1>6. \A e \in Deliveries \ {d} : ~Executing(e)
  BY <1>1, OnlyExecutor
<1>7. req'.status = req.status /\ req'.total = Cardinality(Planned)
  <2>1. CASE pc[d] = "plan"
    BY <1>3, <2>1, FilesFinite DEF IInv, TypeOK, StoreTypeOK
  <2>2. CASE pc[d] # "plan"
    BY <1>1, <1>3, <2>2 DEF Sound, TotalKept, Finalizing
  <2> QED
    BY <2>1, <2>2
<1>8. EndedWell'
  BY <1>1, <1>7, NotEnded DEF EndedWell
<1> QED
  BY <1>3, <1>4, <1>5, <1>6, <1>7, <1>8, DeliverySound DEF Finalizing

LEMMA ReadFilesSound ==
    ASSUME IInv, Sound, NEW d \in Deliveries, ReadFiles(d)
    PROVE  Sound'
<1> USE OtherThreads DEF requestVars, fileVars, dataVars, worldVars
<1>1. Executing(d) /\ pc[d] = "finFiles"
  BY DEF ReadFiles, Executing, Finalizing
<1>2. PICK label \in {"finCount", "done"} :
        /\ Goto(d, label)
        /\ label = "finCount" => FilesOver /\ snap' = [snap EXCEPT ![d] = Reading]
  BY DEF ReadFiles, FilesOver, Reading
<1>3. \A u \in Threads : pc'[u] = IF u = d THEN label ELSE pc[u]
  BY <1>2, Moved DEF IInv
<1>4. label = "finCount" => snap'[d] = Reading
  BY <1>2, ColdThreads DEF IInv, TypeOK, StoreTypeOK
<1>5. UNCHANGED <<req, file, reported, rows, sent>>
  BY DEF ReadFiles
<1>6. req.total = Cardinality(Planned)
  BY <1>1 DEF Sound, TotalKept, Finalizing
<1>7. EndedWell'
  BY <1>1, <1>5, NotEnded DEF EndedWell
<1>8. \A e \in Deliveries \ {d} : ~Executing(e)
  BY <1>1, OnlyExecutor
<1> QED
  BY <1>2, <1>3, <1>4, <1>5, <1>6, <1>7, <1>8, DeliverySound DEF Finalizing

LEMMA WriteCountersSound ==
    ASSUME IInv, Sound, NEW d \in Deliveries, WriteCounters(d)
    PROVE  Sound'
<1> USE OtherThreads DEF requestVars, fileVars, dataVars, worldVars, localVars
<1>1. Executing(d) /\ pc[d] = "finCount"
  BY DEF WriteCounters, Executing, Finalizing
<1>2. \A u \in Threads : pc'[u] = IF u = d THEN "finTry" ELSE pc[u]
  BY Moved DEF WriteCounters, IInv
<1>3. /\ req'.status = req.status
      /\ req'.total = req.total
      /\ req'.processed = snap[d].processed
      /\ req'.failed = snap[d].failed
  BY DEF WriteCounters, IInv, TypeOK, StoreTypeOK
<1>4. UNCHANGED <<file, reported, rows, sent, snap>>
  BY DEF WriteCounters
<1>5. req.total = Cardinality(Planned) /\ FilesOver /\ snap[d] = Reading
  BY <1>1 DEF Sound, TotalKept, ReadingHolds, Finalizing
<1>6. EndedWell'
  BY <1>1, <1>3, NotEnded DEF EndedWell
<1>7. \A e \in Deliveries \ {d} : ~Executing(e)
  BY <1>1, OnlyExecutor
<1> QED
  BY <1>2, <1>3, <1>4, <1>5, <1>6, <1>7, DeliverySound DEF Finalizing

\* The end: what was read still holds, and the status follows from it.
LEMMA TryCompleteSound ==
    ASSUME IInv, Sound, Going, NEW d \in Deliveries, TryComplete(d)
    PROVE  Sound'
<1> USE OtherThreads DEF requestVars, fileVars, dataVars, worldVars, localVars
<1>1. Executing(d) /\ pc[d] = "finTry"
  BY DEF TryComplete, Executing, Finalizing
<1>2. ~IsTerminal(req.status)
  BY <1>1, NotEnded DEF Going, IsTerminal, TerminalRequestStatuses
<1>3. \A u \in Threads : pc'[u] = IF u = d THEN "finMail" ELSE pc[u]
  BY <1>2, Moved DEF TryComplete, IInv
<1>4. /\ req'.status = snap[d].status
      /\ req'.total = req.total
      /\ req'.processed = req.processed
      /\ req'.failed = req.failed
  BY <1>2 DEF TryComplete, IInv, TypeOK, StoreTypeOK
<1>5. UNCHANGED <<file, reported, rows, sent, snap>>
  BY DEF TryComplete
<1>6. /\ req.total = Cardinality(Planned)
      /\ FilesOver
      /\ snap[d] = Reading
      /\ req.processed = snap[d].processed
      /\ req.failed = snap[d].failed
  BY <1>1 DEF Sound, TotalKept, ReadingHolds, Finalizing
<1>7. \A e \in Deliveries \ {d} : ~Executing(e)
  BY <1>1, OnlyExecutor
<1>8. EndedWell'
  <2>1. \A e \in Deliveries : Executing(e)' => pc'[e] = "finMail"
    BY <1>3, <1>7 DEF Executing
  <2>2. UNCHANGED <<Planned, FailedFiles>> /\ (FilesOver <=> FilesOver')
    BY <1>5 DEF Planned, FailedFiles, FilesOver
  <2>3. /\ req'.processed = Cardinality(Planned)
        /\ req'.failed = Cardinality(FailedFiles)
        /\ req'.status = FinalStatus(Cardinality(Planned), Cardinality(FailedFiles))
    BY <1>4, <1>6 DEF Reading
  <2> QED
    BY <1>4, <1>6, <2>1, <2>2, <2>3 DEF EndedWell
<1> QED
  BY <1>3, <1>5, <1>7, <1>8, DeliverySound DEF Finalizing

\* A mail is sent or a call of the delivery failed: it only moves on.
LEMMA LeaveSound ==
    ASSUME IInv, Sound, NEW d \in Deliveries, SendEmail(d) \/ DeliveryThrows(d)
    PROVE  Sound'
<1> USE OtherThreads DEF requestVars, fileVars, dataVars, worldVars, localVars
<1>1. PICK label \in {"done", "abort"} : Goto(d, label)
  BY DEF SendEmail, DeliveryThrows, LoseEmail, Throw
<1>2. \A u \in Threads : pc'[u] = IF u = d THEN label ELSE pc[u]
  BY <1>1, Moved DEF IInv
<1>3. UNCHANGED <<req, file, reported, rows, sent, snap>>
  BY DEF SendEmail, DeliveryThrows, LoseEmail, Throw
<1>4. EndedWell'
  BY <1>2, <1>3, EndedStays
<1> QED
  BY <1>2, <1>3, <1>4, DeliverySound DEF Finalizing

LEMMA DeliverSound ==
    ASSUME IInv, Sound, Going, Going', NEW d \in Deliveries, Deliver(d)
    PROVE  Sound'
<1>1. ~DropTraces(d) /\ ~DropLogs(d, "finRead")
  BY DEF Sound, NobodyCancels, DropTraces, DropLogs
<1>2. ~AbortRequest(d)
  BY DEF AbortRequest, Going, IInv, TypeOK, StoreTypeOK
<1> QED
  BY <1>1, <1>2, ClaimSound, PlanSound, TotalSound, LoadSound, ReadFilesSound,
     WriteCountersSound, TryCompleteSound, LeaveSound DEF Deliver, Finalize

\* One file of the loop.
LEMMA FileSound ==
    ASSUME IInv, TypeOK', Sound, Going, BodiesInLoop, NEW d \in Deliveries, NEW f \in Files,
           RestoreFile(d, f) \/ FileThrows(d, f)
    PROVE  Sound'
<1> DEFINE t == <<d, f>>
<1> USE DEF requestVars, fileVars, dataVars, worldVars, localVars
<1>1. pc[d] = "loop"
  <2>1. BodyPlaced(d, f)
    BY DEF BodiesInLoop
  <2>2. CASE pc[t] = "queued" /\ ~BodyThrew(d)
    BY <2>1, <2>2 DEF BodyPlaced
  <2>3. CASE pc[t] \in {"check"} \cup RestoringFile \cup RecordingFault
    BY <2>1, <2>3 DEF BodyPlaced, Settled, RestoringFile, RecordingFault
  <2> QED
    BY <2>2, <2>3
       DEF RestoreFile, FileThrows, StartFile, StartBody, CheckCancelled, MarkProcessing,
       OpenBlob, PurgeStale, InsertBatch, CompleteFile, CountFile, RecordFailure, CountFailed,
       RestoringFile, RecordingFault
<1>2. BodyData(d, f) /\ file[f] # "Cancelled"
  BY <1>1 DEF Sound, BodiesAgree, NobodyCancels
<1>3. file[f] = "Completed" => rows[f] = Batches /\ reported[f] = Batches
  BY DEF Sound, RowsBehind
<1>4. t \in Threads /\ t \in FileThreads /\ t[2] = f
  BY ColdThreads
<1>5. ASSUME NEW label \in Labels \ {"sawCancel"}, Goto(t, label),
             UNCHANGED <<req, file, reported, rows, sent>>, file[f] # "Absent",
             BodyData(d, f)'
      PROVE  Sound'
  <2>1. \A u \in Threads : pc'[u] = IF u = t THEN label ELSE pc[u]
    BY <1>4, <1>5, Moved DEF IInv
  <2> QED
    BY <1>1, <1>2, <1>3, <1>5, <2>1, BodySound
<1>6. ASSUME NEW label, Goto(t, label) PROVE pc'[t] = label
  BY <1>4, <1>6 DEF Goto, IInv, TypeOK, StoreTypeOK
<1>7. CASE StartFile(d, f)
  BY <1>2, <1>5, <1>6, <1>7, LabelNames DEF StartFile, StartBody, BodyData
<1>8. CASE CheckCancelled(d, f)
  <2>1. \E label \in {"done", "mark"} : Goto(t, label)
    BY <1>8 DEF CheckCancelled, Going
  <2> QED
    BY <1>2, <1>5, <1>6, <1>8, <2>1, LabelNames DEF CheckCancelled, BodyData
<1>9. CASE OpenBlob(t, "notFound")
  <2>1. PICK label \in {"purge", "notFound"} : Goto(t, label)
    BY <1>9 DEF OpenBlob
  <2>2. pc[t] = "open" /\ UNCHANGED <<req, file, reported, rows, sent>>
    BY <1>9 DEF OpenBlob
  <2> QED
    BY <1>2, <1>5, <1>6, <2>1, <2>2, LabelNames DEF BodyData
<1>10. CASE FileThrows(d, f)
  <2>1. PICK label \in {"failing", "thrown"} : Goto(t, label)
    BY <1>10 DEF FileThrows, Throw
  <2>2. UNCHANGED <<req, file, reported, rows, sent>>
    BY <1>10 DEF FileThrows, Throw
  <2>3. file[f] # "Absent"
    BY <1>2, <1>10 DEF FileThrows, BodyData, RestoringFile, RecordingFault
  <2> QED
    BY <1>5, <1>6, <2>1, <2>2, <2>3, LabelNames DEF BodyData
<1>11. ASSUME NEW label, NEW status \in {"Processing", "Completed", "Failed", "FileNotFound"},
              NEW count, Goto(t, label), label # "sawCancel", file[f] # "Absent",
              WriteFile(f, status, count), UNCHANGED <<req, rows, sent>>,
              status = "Completed" => rows[f] = Batches /\ count = Batches,
              \/ label = "open"  /\ status = "Processing"
              \/ label = "count" /\ status = "Completed"
              \/ label = "countFailed"
       PROVE  Sound'
  <2>1. \A u \in Threads : pc'[u] = IF u = t THEN label ELSE pc[u]
    BY <1>4, <1>11 DEF Goto, IInv, TypeOK, StoreTypeOK
  <2>2. /\ file'[f] = status /\ reported'[f] = count
        /\ \A g \in Files \ {f} : file'[g] = file[g] /\ reported'[g] = reported[g]
    BY <1>11 DEF WriteFile, IInv, TypeOK, StoreTypeOK
  <2>3. BodyData(d, f)'
    BY <1>4, <1>11, <2>1, <2>2 DEF BodyData
  <2> QED
    BY <1>1, <1>11, <2>1, <2>2, <2>3, BodySound
<1>12. CASE MarkProcessing(t) \/ RecordFailure(t)
  BY <1>2, <1>4, <1>11, <1>12 DEF MarkProcessing, RecordFailure, BodyData
<1>13. CASE CompleteFile(t)
  BY <1>2, <1>4, <1>11, <1>13 DEF CompleteFile, BodyData
<1>14. CASE PurgeStale(t) \/ InsertBatch(t)
  <2>1. /\ pc[t] \in {"purge", "insert"} /\ file[f] = "Processing"
        /\ UNCHANGED <<req, file, reported>>
    BY <1>2, <1>14 DEF PurgeStale, InsertBatch, BodyData
  <2>2. /\ \A g \in Files \ {f} : rows'[g] = rows[g]
        /\ \A g \in Files \ {f} : sent'[<<d, g>>] = sent[<<d, g>>]
    <3>1. \E n : rows' = [rows EXCEPT ![f] = n]
      BY <1>4, <1>14 DEF PurgeStale, InsertBatch
    <3>2. \E n : sent' = [sent EXCEPT ![t] = n]
      BY <1>14 DEF PurgeStale, InsertBatch
    <3>3. \A g \in Files \ {f} : <<d, g>> \in FileThreads /\ <<d, g>> # t
      BY ColdThreads
    <3> QED
      BY <3>1, <3>2, <3>3 DEF IInv, TypeOK, StoreTypeOK
  <2>3. PICK label \in {"insert", "complete"} :
          /\ Goto(t, label)
          /\ rows'[f] = sent'[t]
          /\ label = "insert" => sent'[t] < Batches
          /\ label = "complete" => sent'[t] = Batches
    <3>1. CASE PurgeStale(t)
      <4>1. rows'[f] = 0 /\ sent'[t] = 0
        BY <1>4, <3>1 DEF PurgeStale, IInv, TypeOK, StoreTypeOK
      <4> QED
        BY <3>1, <4>1, StoreAssumption DEF PurgeStale
    <3>2. CASE InsertBatch(t)
      <4>1. rows[f] = sent[t] /\ sent[t] < Batches /\ sent[t] \in Nat
        BY <1>2, <1>4, <3>2 DEF InsertBatch, BodyData, IInv, TypeOK, StoreTypeOK
      <4>2. rows'[f] = rows[f] + 1 /\ sent'[t] = sent[t] + 1
        BY <1>4, <3>2 DEF InsertBatch, IInv, TypeOK, StoreTypeOK
      <4>3. Goto(t, IF sent[t] + 1 = Batches THEN "complete" ELSE "insert")
        BY <3>2 DEF InsertBatch
      <4> QED
        BY <4>1, <4>2, <4>3, StoreAssumption
    <3> QED
      BY <1>14, <3>1, <3>2
  <2>4. \A u \in Threads : pc'[u] = IF u = t THEN label ELSE pc[u]
    BY <1>4, <2>3, Moved, LabelNames DEF IInv
  <2>5. BodyData(d, f)'
    BY <1>4, <2>1, <2>3, <2>4 DEF BodyData
  <2> QED
    BY <1>1, <2>1, <2>2, <2>3, <2>4, <2>5, BodySound
<1>15. CASE CountFile(t, "done") \/ CountFailed(t, "countFailed", "done")
  <2>1. UNCHANGED <<file, reported, rows, sent>> /\ req'.status = req.status
        /\ req'.total = req.total
    BY <1>15 DEF CountFile, CountFailed, IInv, TypeOK, StoreTypeOK
  <2>2. file[f] # "Absent"
    BY <1>2, <1>15 DEF CountFile, CountFailed, BodyData
  <2>3. \A u \in Threads : pc'[u] = IF u = t THEN "done" ELSE pc[u]
    BY <1>4, <1>15, Moved, LabelNames DEF CountFile, CountFailed, IInv
  <2>4. BodyData(d, f)'
    BY <1>4, <2>3 DEF BodyData
  <2> QED
    BY <1>1, <1>2, <1>3, <2>1, <2>2, <2>3, <2>4, BodySound
<1> QED
  BY <1>7, <1>8, <1>9, <1>10, <1>12, <1>13, <1>14, <1>15 DEF RestoreFile

\* As long as the request may end well, everything done for it stays sound.
LEMMA SoundStep ==
    ASSUME IInv, IInv', [Next]_vars, BodiesInLoop, Going', Sound
    PROVE  Sound'
<1> USE OtherThreads DEF requestVars, fileVars, dataVars, worldVars, localVars
<1>1. Going
  BY GoingBefore
<1>2. CASE \/ CreateRequest \/ SendMessage \/ (\E f \in Files : BlobMoves(f)) \/ UNCHANGED vars
  <2>1. UNCHANGED <<file, reported, rows, sent, snap, pc>>
    BY <1>2 DEF CreateRequest, SendMessage, BlobMoves, vars, storeVars
  <2>2. CASE UNCHANGED req
    <3>1. \A c \in Callers : pc'[c] \notin CancelDone
      BY <2>1 DEF Sound, NobodyCancels
    <3> QED
      BY <2>1, <2>2, <3>1, SoundStays
  <2>3. CASE CreateRequest
    <3>1. \A d \in Deliveries : pc[d] = "idle"
      BY <2>3 DEF CreateRequest, IInv, ClientFirst
    <3>2. req'.status = "Pending"
      BY <2>3 DEF CreateRequest, IInv, TypeOK, StoreTypeOK
    <3>3. NobodyCancels' /\ RowsBehind'
      BY <2>1 DEF Sound, NobodyCancels, RowsBehind, SawCancel
    <3>4. BodiesAgree' /\ TotalKept' /\ ReadingHolds'
      BY <2>1, <3>1 DEF BodiesAgree, TotalKept, ReadingHolds, Finalizing
    <3>5. EndedWell'
      BY <3>2 DEF EndedWell
    <3> QED
      BY <3>3, <3>4, <3>5 DEF Sound
  <2> QED
    BY <1>2, <2>2, <2>3 DEF SendMessage, BlobMoves, vars, storeVars
<1>3. ASSUME NEW d \in Deliveries,
             \/ Deliver(d) \/ DeliveryThrows(d)
             \/ \E f \in Files : RestoreFile(d, f) \/ FileThrows(d, f)
      PROVE  Sound'
  BY <1>1, <1>3, DeliverSound, LeaveSound, FileSound DEF IInv
<1>4. ASSUME NEW c \in Callers, CancelRestore(c) \/ CancelThrows(c)
      PROVE  Sound'
  <2>1. pc[c] \notin CancelDone
    BY DEF Sound, NobodyCancels
  <2>2. PICK label \in {"refused", "tryCancel", "thrown"} : Goto(c, label) /\ UNCHANGED req
    <3>1. CASE TryCancel(c)
      <4>1. ~IsTerminal(req.status) => req'.status = "Cancelled"
        BY <3>1 DEF TryCancel, IInv, TypeOK, StoreTypeOK
      <4> QED
        BY <3>1, <4>1 DEF TryCancel, Going
    <3>2. CASE ReadBeforeCancel(c) \/ CancelThrows(c)
      BY <3>2 DEF ReadBeforeCancel, CancelThrows, Throw
    <3> QED
      BY <1>4, <2>1, <3>1, <3>2 DEF CancelRestore, CancelFiles, CancelJobs, DropTraces,
         DropLogs, CancelDone
  <2>3. \A u \in Threads : pc'[u] = IF u = c THEN label ELSE pc[u]
    BY <2>2, Moved DEF IInv
  <2>4. UNCHANGED <<file, reported, rows, sent, snap>>
    BY <1>4, <2>1 DEF CancelRestore, ReadBeforeCancel, TryCancel, CancelFiles, CancelJobs,
       DropTraces, DropLogs, CancelThrows, Throw, CancelDone
  <2>5. \A e \in Callers : pc'[e] \notin CancelDone
    BY <2>2, <2>3 DEF Sound, NobodyCancels, CancelDone
  <2>6. /\ \A d \in Deliveries : pc'[d] = pc[d]
        /\ \A d \in Deliveries, f \in Files : pc'[<<d, f>>] = pc[<<d, f>>]
    BY <2>3
  <2> QED
    BY <2>2, <2>4, <2>5, <2>6, SoundStays
<1>5. ASSUME NEW p \in Deliveries \cup Callers, Crash(p)
      PROVE  Sound'
  <2>1. \A u \in Threads : pc'[u] = IF u = p \/ u \in {p} \X Files THEN "crashed" ELSE pc[u]
    BY <1>5 DEF Crash
  <2>2. UNCHANGED <<req, file, reported, rows, sent, snap>>
    BY <1>5 DEF Crash
  <2>3. \A e \in Deliveries \cup Callers : pc'[e] = IF e = p THEN "crashed" ELSE pc[e]
    BY <2>1, BodySets
  <2>4. ASSUME NEW d \in Deliveries, NEW f \in Files
        PROVE  pc'[<<d, f>>] = IF d = p THEN "crashed" ELSE pc[<<d, f>>]
    <3>1. <<d, f>> \in Threads /\ <<d, f>> # p /\ (<<d, f>> \in {p} \X Files <=> d = p)
      BY BodySets
    <3> QED
      BY <2>1, <3>1
  <2>5. \A c \in Callers : pc'[c] \notin CancelDone
    BY <2>3 DEF Sound, NobodyCancels, CancelDone
  <2>6. p \in Deliveries => pc[p] # "crashed"
    BY <1>5 DEF Crash, Settled
  <2>7. \A d \in Deliveries, f \in Files : pc'[d] = pc[d] => pc'[<<d, f>>] = pc[<<d, f>>]
    BY <2>3, <2>4, <2>6
  <2>8. \A d \in Deliveries : pc'[d] \in {pc[d], "crashed"}
    BY <2>3
  <2>9. \A d \in Deliveries, f \in Files : pc'[<<d, f>>] \in {pc[<<d, f>>], "crashed"}
    BY <2>4
  <2> QED
    BY <2>2, <2>5, <2>7, <2>8, <2>9, SoundStays
<1> QED
  BY <1>2, <1>3, <1>4, <1>5 DEF Next, Terminating

-----------------------------------------------------------------------------
(* After a cancellation: what the drops leave.                             *)

LEMMA InsideLoop ==
    ASSUME BodiesInLoop, NEW d \in Deliveries, NEW f \in Files,
           pc[<<d, f>>] \notin Settled \cup {"queued"}
    PROVE  pc[d] = "loop"
BY DEF BodiesInLoop, BodyPlaced

\* What runs belongs to one loop, and is no more than the loop allows.
LEMMA PastBounded ==
    ASSUME BodiesInLoop
    PROVE  Cardinality(Past) <= MaxParallel
<1>1. CASE Past = {}
  BY <1>1, FS_EmptySet, StoreAssumption
<1>2. ASSUME NEW d \in Deliveries, NEW f \in Files, pc[<<d, f>>] \in RestoringFile
      PROVE  Cardinality(Past) <= MaxParallel
  <2>1. \A e \in Deliveries : Executing(e) => e = d
    BY <1>2 DEF BodiesInLoop, BodyOwned, RestoringFile
  <2>2. ASSUME NEW e \in Deliveries, NEW g \in Files, pc[<<e, g>>] \in RestoringFile
        PROVE  e = d /\ g \in Running(d)
    <3>1. pc[e] = "loop"
      BY <2>2, InsideLoop DEF RestoringFile, Settled
    <3>2. e = d
      BY <2>1, <3>1 DEF Executing
    <3> QED
      BY <2>2, <3>2 DEF Running, RestoringFile, Settled
  <2>3. Past \subseteq Running(d) /\ Running(d) \subseteq Files
    BY <2>2 DEF Past, Running
  <2> QED
    BY <2>3, SmallerSet, StoreAssumption DEF BodiesInLoop, FewRun
<1> QED
  BY <1>1, <1>2 DEF Past

\* Only a body past its check inserts.
LEMMA LeftoverGrows ==
    ASSUME IInv, [Next]_vars
    PROVE  Leftover' \subseteq Leftover \cup Past
<1> USE DEF requestVars, fileVars, dataVars, worldVars, localVars
<1> SUFFICES ASSUME NEW f \in Files, rows'[f] > 0, ~(rows[f] > 0)
             PROVE  f \in Past
  BY DEF Leftover
<1>1. rows'[f] # rows[f]
  OBVIOUS
<1>2. CASE \E t \in Threads : DropTraces(t) \/ DropLogs(t, "finRead") \/ DropLogs(t, "cancelled")
  BY <1>1, <1>2 DEF DropTraces, DropLogs
<1>3. ASSUME NEW d \in Deliveries, NEW g \in Files, RestoreFile(d, g)
      PROVE  f \in Past
  <2>1. CASE InsertBatch(<<d, g>>) \/ PurgeStale(<<d, g>>)
    <3>1. /\ pc[<<d, g>>] \in RestoringFile
          /\ \E n : rows' = [rows EXCEPT ![g] = n]
      BY <2>1 DEF InsertBatch, PurgeStale, RestoringFile
    <3>2. f = g
      BY <1>1, <3>1 DEF IInv, TypeOK, StoreTypeOK
    <3> QED
      BY <3>1, <3>2 DEF Past
  <2>2. CASE ~(InsertBatch(<<d, g>>) \/ PurgeStale(<<d, g>>))
    BY <1>1, <1>3, <2>2 DEF RestoreFile, StartFile, StartBody, CheckCancelled, MarkProcessing,
       OpenBlob, CompleteFile, CountFile, RecordFailure, CountFailed
  <2> QED
    BY <2>1, <2>2
<1>4. ASSUME NEW d \in Deliveries, Deliver(d), ~DropTraces(d), ~DropLogs(d, "finRead")
      PROVE  rows' = rows
  BY <1>4 DEF Deliver, Claim, ResetStuck, PlanFile, UpdateTotal, LoadPending, LoadWork, EndLoop,
     JoinLoop, Finalize, ReadRequest, ReadFiles, WriteCounters, TryComplete, SendEmail, AbortRequest
<1>5. ASSUME NEW d \in Deliveries, DeliveryThrows(d) \/ \E g \in Files : FileThrows(d, g)
      PROVE  rows' = rows
  BY <1>5 DEF DeliveryThrows, FileThrows, LoseEmail, Throw
<1>6. ASSUME NEW c \in Callers, CancelRestore(c) \/ CancelThrows(c),
             ~DropTraces(c), ~DropLogs(c, "cancelled")
      PROVE  rows' = rows
  BY <1>6 DEF CancelRestore, CancelThrows, Throw, ReadBeforeCancel, TryCancel, CancelFiles,
     CancelJobs
<1>7. CASE CreateRequest \/ SendMessage \/ (\E g \in Files : BlobMoves(g))
           \/ (\E p \in Deliveries \cup Callers : Crash(p)) \/ UNCHANGED vars
  BY <1>1, <1>7 DEF CreateRequest, SendMessage, BlobMoves, Crash, vars, storeVars
<1> QED
  BY <1>1, <1>2, <1>3, <1>4, <1>5, <1>6, <1>7, OtherThreads DEF Next, Terminating

\* A body is where it was unless the step is its own, a stop, or the start of
\* its loop.
LEMMA BodyKept ==
    ASSUME IInv, [Next]_vars, NEW d \in Deliveries, NEW f \in Files,
           ~RestoreFile(d, f), ~FileThrows(d, f)
    PROVE  pc'[<<d, f>>] \in {pc[<<d, f>>], "crashed"} \/ LoadPending(d)
<1> USE OtherThreads
<1>3. ASSUME NEW e \in Deliveries, Deliver(e) \/ DeliveryThrows(e)
      PROVE  pc'[<<d, f>>] = pc[<<d, f>>] \/ LoadPending(d)
  <2>1. CASE LoadPending(e)
    <3>1. e # d => <<d, f>> \notin {e} \X Files
      OBVIOUS
    <3> QED
      BY <2>1, <3>1 DEF LoadPending, LoadWork
  <2>2. CASE PlanFile(e)
    BY <2>2 DEF PlanFile
  <2>3. CASE ~LoadPending(e) /\ ~PlanFile(e)
    <3>1. \E label \in Labels : Goto(e, label)
      BY <1>3, <2>3, LabelNames DEF Deliver, DeliveryThrows, Claim, ResetStuck, UpdateTotal, EndLoop,
         JoinLoop, DropTraces, DropLogs, Finalize, ReadRequest, ReadFiles, WriteCounters,
         TryComplete, SendEmail, AbortRequest, LoseEmail, Throw
    <3> QED
      BY <3>1, Moved DEF IInv
  <2> QED
    BY <2>1, <2>2, <2>3
<1>4. ASSUME NEW e \in Deliveries, NEW g \in Files, RestoreFile(e, g) \/ FileThrows(e, g)
      PROVE  pc'[<<d, f>>] = pc[<<d, f>>]
  <2>1. <<d, f>> # <<e, g>>
    BY <1>4
  <2>2. \E label : Goto(<<e, g>>, label)
    BY <1>4 DEF RestoreFile, FileThrows, Throw, StartFile, StartBody, CheckCancelled,
       MarkProcessing, OpenBlob, PurgeStale, InsertBatch, CompleteFile, CountFile,
       RecordFailure, CountFailed
  <2> QED
    BY <2>1, <2>2 DEF Goto, IInv, TypeOK, StoreTypeOK
<1>5. ASSUME NEW c \in Callers, CancelRestore(c) \/ CancelThrows(c)
      PROVE  pc'[<<d, f>>] = pc[<<d, f>>]
  BY <1>5, CancelMoves DEF CallerMoves
<1>6. CASE \E p \in Deliveries \cup Callers : Crash(p)
  BY <1>6 DEF Crash
<1>7. CASE CreateRequest \/ SendMessage \/ (\E g \in Files : BlobMoves(g)) \/ UNCHANGED vars
  BY <1>7 DEF CreateRequest, SendMessage, BlobMoves, vars, storeVars
<1> QED
  BY <1>3, <1>4, <1>5, <1>6, <1>7 DEF Next, Terminating

\* Where the body of a cancelled request goes by its own step.
LEMMA BodyGoes ==
    ASSUME IInv, NEW d \in Deliveries, NEW f \in Files, RestoreFile(d, f) \/ FileThrows(d, f)
    PROVE  /\ pc'[<<d, f>>] \in RestoringFile =>
                pc[<<d, f>>] \in RestoringFile \/ req.status # "Cancelled"
           /\ pc'[<<d, f>>] = "sawCancel" => pc[<<d, f>>] = "check"
           /\ pc'[<<d, f>>] = "thrown" => faults' > 0 \/ BodyThrew(d)
           /\ pc'[d] = pc[d]
<1> DEFINE t == <<d, f>>
<1> USE OtherThreads, LabelNames
<1>1. ASSUME NEW label \in Labels, Goto(t, label)
      PROVE  pc'[t] = label /\ pc'[d] = pc[d]
  BY <1>1, Moved DEF IInv
<1>2. CASE StartFile(d, f)
  BY <1>1, <1>2 DEF StartFile, StartBody, RestoringFile
<1>3. CASE CheckCancelled(d, f)
  BY <1>1, <1>3 DEF CheckCancelled, RestoringFile
<1>4. CASE MarkProcessing(t) \/ OpenBlob(t, "notFound") \/ PurgeStale(t) \/ InsertBatch(t)
           \/ CompleteFile(t)
  <2>1. /\ pc[t] \in RestoringFile
        /\ \E label \in {"open", "purge", "notFound", "insert", "complete", "count"} : Goto(t, label)
    BY <1>4 DEF MarkProcessing, OpenBlob, PurgeStale, InsertBatch, CompleteFile, RestoringFile
  <2> QED
    BY <1>1, <2>1
<1>5. CASE CountFile(t, "done") \/ RecordFailure(t) \/ CountFailed(t, "countFailed", "done")
  BY <1>1, <1>5 DEF CountFile, RecordFailure, CountFailed, RestoringFile
<1>6. CASE FileThrows(d, f)
  <2>1. faults' > 0 \/ BodyThrew(d)
    BY <1>6 DEF FileThrows, Throw, IInv, TypeOK, StoreTypeOK
  <2>2. \E label \in {"failing", "thrown"} : Goto(t, label)
    BY <1>6 DEF FileThrows, Throw
  <2> QED
    BY <1>1, <2>1, <2>2 DEF RestoringFile
<1> QED
  BY <1>2, <1>3, <1>4, <1>5, <1>6 DEF RestoreFile

LEMMA PastShrinks ==
    ASSUME IInv, [Next]_vars, req.status = "Cancelled"
    PROVE  Past' \subseteq Past
<1> SUFFICES ASSUME NEW d \in Deliveries, NEW f \in Files, pc'[<<d, f>>] \in RestoringFile
             PROVE  pc[<<d, f>>] \in RestoringFile
  BY DEF Past
<1>1. CASE RestoreFile(d, f) \/ FileThrows(d, f)
  BY <1>1, BodyGoes
<1>2. CASE LoadPending(d)
  <2>1. <<d, f>> \in Threads /\ <<d, f>> # d
    BY OtherThreads
  <2>2. pc'[<<d, f>>] \in {"queued", "idle"}
    BY <1>2, <2>1 DEF LoadPending, LoadWork
  <2> QED
    BY <2>2 DEF RestoringFile
<1> QED
  BY <1>1, <1>2, BodyKept DEF RestoringFile

\* How a caller comes to drop the logs, and to its end.
LEMMA CallerArrives ==
    ASSUME IInv, [Next]_vars, NEW c \in Callers, pc'[c] # pc[c]
    PROVE  /\ pc'[c] = "dropLogs"  => DropTraces(c) /\ pc[c] \in CancelDone
           /\ pc'[c] = "cancelled" => DropLogs(c, "cancelled") /\ pc[c] \in CancelDone
<1> USE OtherThreads
<1>1. CASE CancelRestore(c) \/ CancelThrows(c)
  <2>1. ASSUME NEW label, Goto(c, label) PROVE pc'[c] = label
    BY <2>1 DEF Goto, IInv, TypeOK, StoreTypeOK
  <2>2. CASE DropTraces(c)
    BY <2>1, <2>2 DEF DropTraces, CancelDone
  <2>3. CASE DropLogs(c, "cancelled")
    BY <2>1, <2>3 DEF DropLogs, CancelDone
  <2>4. CASE ReadBeforeCancel(c) \/ TryCancel(c) \/ CancelFiles(c) \/ CancelJobs(c) \/ CancelThrows(c)
    <3>1. \E label \in {"refused", "tryCancel", "cancelFiles", "cancelJobs", "dropTraces", "thrown"} :
             Goto(c, label)
      BY <2>4 DEF ReadBeforeCancel, TryCancel, CancelFiles, CancelJobs, CancelThrows, Throw
    <3> QED
      BY <2>1, <3>1
  <2> QED
    BY <1>1, <2>2, <2>3, <2>4 DEF CancelRestore
<1>2. ASSUME NEW e \in Callers, CancelRestore(e) \/ CancelThrows(e), e # c
      PROVE  pc'[c] = pc[c]
  <2>1. \E label : Goto(e, label)
    BY <1>2 DEF CancelRestore, ReadBeforeCancel, TryCancel, CancelFiles, CancelJobs, DropTraces,
       DropLogs, CancelThrows, Throw
  <2> QED
    BY <1>2, <2>1 DEF Goto, IInv, TypeOK, StoreTypeOK
<1>3. ASSUME NEW d \in Deliveries, Deliver(d) \/ DeliveryThrows(d)
      PROVE  pc'[c] = pc[c]
  <2>1. c # d /\ c \notin {d} \X Files
    BY BodySets
  <2> QED
    BY <1>3, <2>1, DeliverMoves, FailureMoves DEF DeliveryMoves, LoopBegins
<1>4. ASSUME NEW d \in Deliveries, NEW f \in Files, RestoreFile(d, f) \/ FileThrows(d, f)
      PROVE  pc'[c] = pc[c]
  BY <1>4, FileMoves DEF BodyMoves, BodyStarts
<1>5. CASE \E p \in Deliveries \cup Callers : Crash(p)
  BY <1>5 DEF Crash
<1>6. CASE CreateRequest \/ SendMessage \/ (\E g \in Files : BlobMoves(g)) \/ UNCHANGED vars
  BY <1>6 DEF CreateRequest, SendMessage, BlobMoves, vars, storeVars
<1> QED
  BY <1>1, <1>2, <1>3, <1>4, <1>5, <1>6 DEF Next, Terminating

LEMMA GoingUntilCancelled ==
    ASSUME IInv, IInv', [Next]_vars, req'.status = "Cancelled", req.status # "Cancelled"
    PROVE  Going
BY OverStays DEF Going, IsTerminal, TerminalRequestStatuses

LEMMA LeftoversStep ==
    ASSUME IInv, IInv', [Next]_vars, BodiesInLoop, Going => Sound, Leftovers
    PROVE  Leftovers'
<1> SUFFICES ASSUME req'.status = "Cancelled", NEW c \in Callers,
                    pc'[c] \in {"dropLogs", "cancelled"}
             PROVE  /\ pc'[c] = "dropLogs" =>
                         Cardinality(Past' \cup (Leftover' \cap TraceFiles)) <= MaxParallel
                    /\ pc'[c] = "cancelled" => Cardinality(Past' \cup Leftover') <= MaxParallel
  BY DEF Leftovers
<1>1. pc[c] \in CancelDone
  BY CallerArrives DEF CancelDone
<1>2. req.status = "Cancelled"
  BY <1>1, GoingUntilCancelled DEF Sound, NobodyCancels
<1>3. Past' \subseteq Past
  BY <1>2, PastShrinks
<1>4. Leftover' \subseteq Leftover \cup Past
  BY LeftoverGrows
<1>5. /\ pc[c] = "dropLogs"  => Cardinality(Past \cup (Leftover \cap TraceFiles)) <= MaxParallel
      /\ pc[c] = "cancelled" => Cardinality(Past \cup Leftover) <= MaxParallel
  BY <1>2 DEF Leftovers
<1>6. Past \cup Leftover \subseteq Files
  BY DEF Past, Leftover
<1>7. ASSUME NEW S \in SUBSET (Past \cup Leftover), NEW T \in SUBSET S, Cardinality(S) <= MaxParallel
      PROVE  Cardinality(T) <= MaxParallel
  BY <1>6, <1>7, SmallerSet, StoreAssumption
<1>8. CASE pc'[c] = pc[c]
  <2>1. CASE pc[c] = "dropLogs"
    <3>1. Past' \cup (Leftover' \cap TraceFiles) \subseteq Past \cup (Leftover \cap TraceFiles)
      BY <1>3, <1>4
    <3> QED
      BY <1>5, <1>7, <1>8, <2>1, <3>1
  <2>2. CASE pc[c] = "cancelled"
    BY <1>3, <1>4, <1>5, <1>7, <1>8, <2>2
  <2> QED
    BY <1>8, <2>1, <2>2
<1>9. CASE pc'[c] # pc[c] /\ pc'[c] = "dropLogs"
  <2>1. DropTraces(c)
    BY <1>9, CallerArrives
  <2>2. Leftover' \cap TraceFiles = {}
    BY <2>1 DEF DropTraces, Leftover, TraceFiles
  <2> QED
    BY <1>3, <1>7, <1>9, <2>2, PastBounded
<1>10. CASE pc'[c] # pc[c] /\ pc'[c] = "cancelled"
  <2>1. DropLogs(c, "cancelled")
    BY <1>10, CallerArrives
  <2>2. pc[c] = "dropLogs" /\ Leftover' \subseteq Leftover \cap TraceFiles
    BY <2>1 DEF DropLogs, Leftover, TraceFiles, LogFiles
  <2>3. Past' \cup Leftover' \subseteq Past \cup (Leftover \cap TraceFiles)
    BY <1>3, <2>2
  <2> QED
    BY <1>5, <1>7, <1>10, <2>2, <2>3
<1> QED
  BY <1>8, <1>9, <1>10

\* The labels at which a delivery arrives, and the steps that bring it there.
LEMMA DeliveryArrives ==
    ASSUME IInv, [Next]_vars, NEW d \in Deliveries, pc'[d] # pc[d]
    PROVE  /\ Deliver(d) \/ DeliveryThrows(d) \/ (\E p \in Deliveries : Crash(p) /\ pc'[d] = "crashed")
           /\ \A f \in Files : ~(RestoreFile(d, f) \/ FileThrows(d, f))
<1> USE OtherThreads
<1>1. ASSUME NEW e \in Deliveries, Deliver(e) \/ DeliveryThrows(e), e # d
      PROVE  pc'[d] = pc[d]
  <2>1. d \notin {e} \X Files
    BY BodySets
  <2>2. CASE LoadPending(e)
    BY <1>1, <2>1, <2>2 DEF LoadPending, LoadWork
  <2>3. CASE PlanFile(e)
    BY <2>3 DEF PlanFile
  <2>4. CASE ~LoadPending(e) /\ ~PlanFile(e)
    <3>1. \E label : Goto(e, label)
      BY <1>1, <2>4 DEF Deliver, DeliveryThrows, Claim, ResetStuck, UpdateTotal, EndLoop,
         JoinLoop, DropTraces, DropLogs, Finalize, ReadRequest, ReadFiles, WriteCounters,
         TryComplete, SendEmail, AbortRequest, LoseEmail, Throw
    <3> QED
      BY <1>1, <3>1 DEF Goto, IInv, TypeOK, StoreTypeOK
  <2> QED
    BY <2>2, <2>3, <2>4
<1>2. ASSUME NEW e \in Deliveries, NEW f \in Files, RestoreFile(e, f) \/ FileThrows(e, f)
      PROVE  pc'[d] = pc[d]
  BY <1>2, FileMoves DEF BodyMoves, BodyStarts
<1>3. ASSUME NEW c \in Callers, CancelRestore(c) \/ CancelThrows(c)
      PROVE  pc'[d] = pc[d]
  BY <1>3, CancelMoves DEF CallerMoves
<1>4. ASSUME NEW p \in Deliveries \cup Callers, Crash(p)
      PROVE  p = d /\ pc'[d] = "crashed"
  BY <1>4, BodySets DEF Crash
<1>5. CASE CreateRequest \/ SendMessage \/ (\E g \in Files : BlobMoves(g)) \/ UNCHANGED vars
  BY <1>5 DEF CreateRequest, SendMessage, BlobMoves, vars, storeVars
<1> QED
  BY <1>1, <1>2, <1>3, <1>4, <1>5 DEF Next, Terminating

LEMMA FaultsStep ==
    ASSUME IInv, [Next]_vars, FaultsTold
    PROVE  FaultsTold' /\ faults' \in Nat /\ faults <= faults'
<1> USE OtherThreads DEF requestVars, fileVars, dataVars, worldVars, localVars
<1> DEFINE Counted == faults' \in Nat /\ faults <= faults'
<1>0. UNCHANGED faults \/ faults' = faults + 1 => Counted
  BY DEF IInv, TypeOK, StoreTypeOK
<1>1. Counted
  <2>1. ASSUME NEW d \in Deliveries, Deliver(d) PROVE Counted
    BY <1>0, <2>1 DEF Deliver, Claim, ResetStuck, PlanFile, UpdateTotal, LoadPending, LoadWork,
       EndLoop, JoinLoop, DropTraces, DropLogs, Finalize, ReadRequest, ReadFiles, WriteCounters,
       TryComplete, SendEmail, AbortRequest
  <2>2. ASSUME NEW d \in Deliveries, NEW f \in Files, RestoreFile(d, f) PROVE Counted
    BY <1>0, <2>2 DEF RestoreFile, StartFile, StartBody, CheckCancelled, MarkProcessing, OpenBlob,
       PurgeStale, InsertBatch, CompleteFile, CountFile, RecordFailure, CountFailed
  <2>3. ASSUME NEW d \in Deliveries, DeliveryThrows(d) \/ \E f \in Files : FileThrows(d, f)
        PROVE  Counted
    BY <1>0, <2>3 DEF DeliveryThrows, LoseEmail, FileThrows, Throw
  <2>4. ASSUME NEW c \in Callers, CancelRestore(c) \/ CancelThrows(c) PROVE Counted
    BY <1>0, <2>4 DEF CancelRestore, CancelThrows, Throw, ReadBeforeCancel, TryCancel, CancelFiles,
       CancelJobs, DropTraces, DropLogs
  <2>5. CASE \/ CreateRequest \/ SendMessage \/ (\E f \in Files : BlobMoves(f)) \/ UNCHANGED vars
             \/ \E p \in Deliveries \cup Callers : Crash(p)
    BY <1>0, <2>5 DEF CreateRequest, SendMessage, BlobMoves, Crash, vars, storeVars
  <2> QED
    BY <2>1, <2>2, <2>3, <2>4, <2>5 DEF Next, Terminating
<1>2. ASSUME NEW d \in Deliveries, pc'[d] = "abort"
      PROVE  faults' > 0
  <2>1. CASE pc[d] = "abort"
    BY <1>1, <2>1 DEF FaultsTold, IInv, TypeOK, StoreTypeOK
  <2>2. CASE pc[d] # "abort" /\ DeliveryThrows(d)
    BY <2>2 DEF DeliveryThrows, LoseEmail, Throw, IInv, TypeOK, StoreTypeOK
  <2>3. CASE pc[d] # "abort" /\ Deliver(d)
    <3>1. ASSUME NEW label, Goto(d, label) PROVE pc'[d] = label
      BY <3>1 DEF Goto, IInv, TypeOK, StoreTypeOK
    <3>2. CASE EndLoop(d)
      <4>1. PICK label : /\ Goto(d, label)
                         /\ label = "abort" => BodyThrew(d)
        BY <3>2 DEF EndLoop, JoinLoop
      <4> QED
        BY <1>1, <1>2, <3>1, <4>1 DEF FaultsTold, IInv, TypeOK, StoreTypeOK
    <3>3. CASE LoadPending(d)
      BY <1>2, <3>3 DEF LoadPending, LoadWork
    <3>4. CASE PlanFile(d)
      BY <1>2, <2>3, <3>4 DEF PlanFile
    <3>5. CASE ~EndLoop(d) /\ ~LoadPending(d) /\ ~PlanFile(d)
      <4>1. \E label \in Labels \ {"abort"} : Goto(d, label)
        BY <2>3, <3>5, LabelNames DEF Deliver, Claim, ResetStuck, UpdateTotal, DropTraces, DropLogs,
           Finalize, ReadRequest, ReadFiles, WriteCounters, TryComplete, SendEmail, AbortRequest
      <4> QED
        BY <1>2, <3>1, <4>1
    <3> QED
      BY <3>2, <3>3, <3>4, <3>5
  <2> QED
    BY <1>2, <2>1, <2>2, <2>3, DeliveryArrives
<1>3. ASSUME NEW d \in Deliveries, NEW f \in Files, pc'[<<d, f>>] = "thrown"
      PROVE  faults' > 0
  <2>1. BodyThrew(d) => faults' > 0
    BY <1>1 DEF FaultsTold, IInv, TypeOK, StoreTypeOK
  <2>2. CASE RestoreFile(d, f) \/ FileThrows(d, f)
    BY <1>3, <2>1, <2>2, BodyGoes
  <2>3. CASE LoadPending(d)
    <3>1. <<d, f>> \in Threads /\ <<d, f>> # d
      OBVIOUS
    <3> QED
      BY <1>3, <2>3, <3>1 DEF LoadPending, LoadWork
  <2>4. CASE pc[<<d, f>>] = "thrown"
    BY <2>1, <2>4 DEF BodyThrew
  <2> QED
    BY <1>3, <2>2, <2>3, <2>4, BodyKept
<1> QED
  BY <1>1, <1>2, <1>3 DEF FaultsTold, BodyThrew

\* A delivery whose loop saw the cancellation has it seen before it leaves the
\* loop.
LEMMA SawBefore ==
    ASSUME IInv, [Next]_vars, BodiesInLoop, NEW d \in Deliveries, SawCancel(d)', pc'[d] # "loop"
    PROVE  SawCancel(d)
<1> PICK f \in Files : pc'[<<d, f>>] = "sawCancel"
  BY DEF SawCancel
<1>1. CASE RestoreFile(d, f) \/ FileThrows(d, f)
  BY <1>1, BodyGoes, InsideLoop DEF Settled
<1>2. CASE LoadPending(d)
  BY <1>2, OtherThreads DEF LoadPending, LoadWork
<1> QED
  BY <1>1, <1>2, BodyKept DEF SawCancel

LEMMA DropsStep ==
    ASSUME IInv, IInv', [Next]_vars, BodiesInLoop, Going => Sound, FaultsTold, DropsAll
    PROVE  DropsAll'
<1> USE OtherThreads DEF requestVars, fileVars, dataVars, worldVars, localVars
<1> SUFFICES ASSUME faults' <= 1, NEW d \in Deliveries, SawCancel(d)', req'.status = "Cancelled",
                    pc'[d] \in {"dropLogs", "finMail", "done"} \cup Finalizing
             PROVE  /\ pc'[d] = "dropLogs" => Leftover' \cap TraceFiles = {}
                    /\ pc'[d] \in {"finMail", "done"} \cup Finalizing => Leftover' = {}
  BY DEF DropsAll, Dropped
<1>0. faults' \in Nat /\ faults <= faults'
  BY FaultsStep
<1>1. faults \in Nat /\ faults' \in Nat /\ faults <= 1
  BY <1>0 DEF IInv, TypeOK, StoreTypeOK
<1>2. SawCancel(d)
  BY SawBefore DEF Finalizing
<1>3. req.status = "Cancelled"
  BY <1>2, GoingUntilCancelled DEF Sound, NobodyCancels
<1>4. Dropped(d)
  BY <1>1 DEF DropsAll
<1>5. CASE pc'[d] = pc[d]
  <2>1. Past = {}
    <3> SUFFICES ASSUME NEW e \in Deliveries, NEW f \in Files, pc[<<e, f>>] \in RestoringFile
                 PROVE  FALSE
      BY DEF Past
    <3>1. pc[e] = "loop"
      BY InsideLoop DEF RestoringFile, Settled
    <3>2. e = d
      BY <1>2, <3>1 DEF SawCancel, BodiesInLoop, BodyOwned, Executing
    <3> QED
      BY <1>5, <3>1, <3>2 DEF Finalizing
  <2>2. Leftover' \subseteq Leftover
    BY <2>1, LeftoverGrows
  <2> QED
    BY <1>2, <1>3, <1>4, <1>5, <2>2 DEF Dropped
<1>6. CASE pc'[d] # pc[d]
  <2>0. ASSUME NEW label, Goto(d, label) PROVE pc'[d] = label
    BY <2>0 DEF Goto, IInv, TypeOK, StoreTypeOK
  <2>1. CASE DropTraces(d)
    <3>1. Leftover' \cap TraceFiles = {} /\ pc'[d] = "dropLogs"
      BY <2>0, <2>1 DEF DropTraces, Leftover, TraceFiles
    <3> QED
      BY <3>1 DEF Finalizing
  <2>2. CASE DropLogs(d, "finRead")
    <3>1. Leftover' \subseteq Leftover \cap TraceFiles /\ pc[d] = "dropLogs" /\ pc'[d] = "finRead"
      BY <2>0, <2>2 DEF DropLogs, Leftover, LogFiles, TraceFiles
    <3> QED
      BY <1>2, <1>3, <1>4, <3>1 DEF Dropped
  <2>3. CASE Finalize(d)
    <3>1. /\ pc[d] \in {"finMail", "done"} \cup Finalizing
          /\ rows' = rows
          /\ pc'[d] # "dropLogs"
      BY <2>0, <2>3 DEF Finalize, ReadRequest, ReadFiles, WriteCounters, TryComplete, SendEmail,
         Finalizing
    <3> QED
      BY <1>2, <1>3, <1>4, <3>1 DEF Dropped, Leftover
  <2>4. CASE DeliveryThrows(d)
    <3>1. CASE pc[d] = "abort"
      <4>1. faults' = faults + 1
        BY <3>1, <2>4 DEF DeliveryThrows, LoseEmail, Throw, Preparing, Finalizing
      <4>2. faults > 0
        BY <3>1 DEF FaultsTold
      <4> QED
        BY <1>1, <4>1, <4>2
    <3>2. CASE LoseEmail(d)
      <4>1. pc[d] = "finMail" /\ pc'[d] = "done" /\ rows' = rows
        BY <2>0, <3>2 DEF LoseEmail, Throw
      <4> QED
        BY <1>2, <1>3, <1>4, <4>1 DEF Dropped, Leftover
    <3>3. CASE pc[d] # "abort" /\ ~LoseEmail(d)
      <4>1. pc'[d] = "abort"
        BY <2>0, <2>4, <3>3 DEF DeliveryThrows, Throw
      <4> QED
        BY <4>1 DEF Finalizing
    <3> QED
      BY <3>1, <3>2, <3>3
  <2>5. CASE AbortRequest(d)
    BY <2>5 DEF AbortRequest, IInv, TypeOK, StoreTypeOK
  <2>6. CASE Claim(d)
    BY <1>2, <2>6 DEF Claim, SawCancel, BodiesInLoop, BodyPlaced
  <2>7. CASE EndLoop(d)
    <3>1. \E label \in {"abort", "dropTraces"} : Goto(d, label)
      BY <1>2, <2>7 DEF EndLoop, JoinLoop
    <3> QED
      BY <2>0, <3>1 DEF Finalizing
  <2>8. CASE ResetStuck(d) \/ PlanFile(d) \/ UpdateTotal(d) \/ LoadPending(d)
    <3>1. CASE PlanFile(d)
      BY <1>6, <3>1 DEF PlanFile
    <3>2. CASE LoadPending(d)
      BY <3>2 DEF LoadPending, LoadWork, Finalizing
    <3>3. CASE ResetStuck(d) \/ UpdateTotal(d)
      BY <2>0, <3>3 DEF ResetStuck, UpdateTotal, Finalizing
    <3> QED
      BY <2>8, <3>1, <3>2, <3>3
  <2> QED
    BY <1>6, <2>1, <2>2, <2>3, <2>4, <2>5, <2>6, <2>7, <2>8, DeliveryArrives
       DEF Deliver, Finalizing
<1> QED
  BY <1>5, <1>6

-----------------------------------------------------------------------------
(* The theorems.                                                           *)

LEMMA DInvInit == Init => DInv
<1> SUFFICES ASSUME Init PROVE DInv
  OBVIOUS
<1> USE OtherThreads
<1>1. /\ \A u \in Threads : pc[u] = "idle"
      /\ \A f \in Files : file[f] = "Absent"
      /\ req.status = "None"
  BY DEF Init, StoreInit
<1>2. /\ \A d \in Deliveries : pc[d] = "idle"
      /\ \A d \in Deliveries, f \in Files : pc[<<d, f>>] = "idle"
  BY <1>1
<1>3. BodiesInLoop
  <2>1. ASSUME NEW d \in Deliveries PROVE FewRun(d)
    <3>1. Running(d) = {}
      BY <1>2 DEF Running, Settled
    <3> QED
      BY <3>1, FS_EmptySet, StoreAssumption DEF FewRun
  <2>2. \A d \in Deliveries, f \in Files : BodyPlaced(d, f) /\ BodyOwned(d, f)
    BY <1>2 DEF BodyPlaced, BodyOwned, Settled
  <2> QED
    BY <2>1, <2>2 DEF BodiesInLoop
<1>4. Sound
  <2>1. NobodyCancels
    BY <1>1, <1>2 DEF NobodyCancels, CancelDone, SawCancel
  <2>2. BodiesAgree /\ TotalKept /\ ReadingHolds
    BY <1>2 DEF BodiesAgree, TotalKept, ReadingHolds, Finalizing
  <2>3. RowsBehind /\ EndedWell
    BY <1>1 DEF RowsBehind, EndedWell
  <2> QED
    BY <2>1, <2>2, <2>3 DEF Sound
<1>5. Leftovers /\ DropsAll
  BY <1>1 DEF Leftovers, DropsAll, Dropped
<1>6. FaultsTold
  BY <1>2 DEF FaultsTold, BodyThrew
<1> QED
  BY <1>3, <1>4, <1>5, <1>6 DEF DInv

LEMMA DInvStep == IInv /\ IInv' /\ DInv /\ [Next]_vars => DInv'
<1> SUFFICES ASSUME IInv, IInv', DInv, [Next]_vars PROVE DInv'
  OBVIOUS
<1>1. BodiesInLoop'
  BY BodiesStep DEF DInv
<1>2. Going' => Sound'
  BY SoundStep, GoingBefore DEF DInv
<1>3. Leftovers'
  BY LeftoversStep DEF DInv
<1>4. FaultsTold' /\ DropsAll'
  BY FaultsStep, DropsStep DEF DInv
<1> QED
  BY <1>1, <1>2, <1>3, <1>4 DEF DInv

\* The rows, the counters and the drops agree with where every thread is, for
\* as long as a call can still change them.
THEOREM DataInvariance == Spec => []DInv
BY DInvInit, IInvInit, IInvStep, DInvStep, PTL DEF Spec

\* Completed is told only when every planned file has all its rows, once, and
\* its progress row says so, whatever failed, crashed or was delivered again
\* (UpdateFileRequestStatus, TryCompleteRequestAsync).
THEOREM Restored == Spec => []CompletedMeansRestored
<1>1. IInv /\ DInv => CompletedMeansRestored
  <2> SUFFICES ASSUME IInv, DInv, req.status = "Completed", NEW f \in Planned
               PROVE  file[f] = "Completed" /\ rows[f] = Batches /\ reported[f] = Batches
    BY DEF CompletedMeansRestored
  <2>1. Sound
    BY DEF DInv, Going
  <2>2. FinalStatus(req.total, req.failed) = "Completed" /\ req.failed = Cardinality(FailedFiles)
    BY <2>1 DEF Sound, EndedWell
  <2>3. Cardinality(FailedFiles) = 0
    BY <2>2 DEF FinalStatus
  <2>4. FailedFiles = {}
    <3>1. FailedFiles \in SUBSET Files
      BY DEF FailedFiles
    <3>2. IsFiniteSet(FailedFiles)
      BY <3>1, RunningFinite
    <3> QED
      BY <2>3, <3>2, FS_EmptySet
  <2>5. f \in Files /\ file[f] \in TerminalFileStatuses /\ file[f] # "Cancelled"
    BY <2>1 DEF Sound, EndedWell, FilesOver, NobodyCancels, Planned
  <2>6. file[f] = "Completed"
    BY <2>4, <2>5 DEF FailedFiles, TerminalFileStatuses
  <2> QED
    BY <2>1, <2>5, <2>6 DEF Sound, RowsBehind
<1> QED
  BY <1>1, Invariance, DataInvariance, PTL

\* The counters a request ends with are the numbers of its files, however the
\* bodies and the finisher interleaved their increments and their overwriting
\* (IncrementRequestProgressAsync, UpdateRequestCountersAsync).
THEOREM Counters == Spec => []CountersExact
<1>1. DInv => CountersExact
  BY DEF DInv, Going, Sound, EndedWell, CountersExact
<1> QED
  BY <1>1, DataInvariance, PTL

\* A cancellation leaves rows of no more files than the loop runs at a time
\* (CancelRestoreAsync, DropResultCollectionsAsync).
THEOREM Bounded == Spec => []LeftoversBounded
<1>1. DInv => LeftoversBounded
  <2> SUFFICES ASSUME DInv, req.status = "Cancelled", NEW c \in Callers, pc[c] = "cancelled"
               PROVE  Cardinality({f \in Files : rows[f] > 0}) <= MaxParallel
    BY DEF LeftoversBounded
  <2>1. Cardinality(Past \cup Leftover) <= MaxParallel
    BY DEF DInv, Leftovers
  <2>2. Past \cup Leftover \in SUBSET Files /\ Leftover \subseteq Past \cup Leftover
    BY DEF Past, Leftover
  <2>3. Cardinality(Leftover) <= MaxParallel
    BY <2>1, <2>2, SmallerSet, StoreAssumption
  <2> QED
    BY <2>3 DEF Leftover
<1> QED
  BY <1>1, DataInvariance, PTL

\* As long as at most one call has failed, a delivery whose loop saw the
\* cancellation ends with no row left (the drop at the end of
\* ExecutePendingFilesAsync).
THEOREM DiscardsAll == Spec => [](faults <= 1 => NoticedCancelDiscardsAll)
<1>1. IInv /\ DInv => (faults <= 1 => NoticedCancelDiscardsAll)
  <2> SUFFICES ASSUME IInv, DInv, faults <= 1, NEW d \in Deliveries, pc[d] = "done", SawCancel(d),
                      req.status = "Cancelled", NEW f \in Files
               PROVE  rows[f] = 0
    BY DEF NoticedCancelDiscardsAll
  <2>1. Leftover = {}
    BY DEF DInv, DropsAll, Dropped
  <2> QED
    BY <2>1 DEF Leftover, IInv, TypeOK, StoreTypeOK
<1> QED
  BY <1>1, Invariance, DataInvariance, PTL
=============================================================================

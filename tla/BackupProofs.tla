---------------------------- MODULE BackupProofs ----------------------------
(***************************************************************************)
(* What a backup keeps for any runs, services, windows, batches, failures  *)
(* and crashes, overlapping triggers and missed heartbeats.                *)
(***************************************************************************)
EXTENDS Backup, TLAPS

Settled == {"idle", "done", "crashed"}
NotBegun(r) == pc[r] \in {"idle", "check", "create", "discover", "refused"}

\* A run that nobody had overlapped when it entered its check, whose check did
\* not fail and whose heartbeat was on time as long as it worked.
Clean(r) == r \notin raced \cup lapsed

\* A clean run that works has a live row, and no other clean run works or is
\* about to.
SoleRun ==
    /\ \A r \in Runs : Clean(r) /\ Active(r) => job[r] = "Running"
    /\ \A r \in Runs : Clean(r) /\ stale[r] => pc[r] \in RunEnds
    /\ AloneUnlessRaced
    /\ \A q, r \in Runs : Clean(q) /\ Clean(r) /\ Entering(q) /\ Entering(r) => q = r
    /\ \A q, r \in Runs : Clean(q) /\ Clean(r) /\ pc[q] = "create" => ~Active(r)

\* Every run is clean.
Calm == raced \cup lapsed = {}

\* Services are archived and collections uploaded only in their phase.
Phases ==
    /\ \A r \in Runs, s \in Services :
          pc[<<r, s>>] \notin Settled => pc[r] \in {"archiving", "failing"}
    /\ \A r \in Runs, w \in Windows :
          pc[<<r, w>>] \notin Settled => pc[r] = "uploading"

\* Nothing has happened to the window of a run that has not begun.
Untouched ==
    \A r \in Runs : NotBegun(r) =>
        /\ source[WindowOf[r]] = Logs
        /\ archive[WindowOf[r]] = {}
        /\ ~listed[WindowOf[r]]
        /\ blob[WindowOf[r]] = {}

\* While a service is archived its window has no blob; its logs are in the
\* source until all are in the archive.
ArchivingOf(r, s) ==
    /\ pc[<<r, s>>] \in {"open", "stream", "delete", "discard"} => blob[WindowOf[r]] = {}
    /\ pc[<<r, s>>] \in {"open", "stream", "discard"} => LogsOf(s) \subseteq source[WindowOf[r]]
    /\ pc[<<r, s>>] = "stream" =>
          LogsOf(s) \subseteq todo[<<r, s>>] \cup archive[WindowOf[r]]
    /\ pc[<<r, s>>] = "delete" => LogsOf(s) \subseteq archive[WindowOf[r]]

Archiving == \A r \in Runs, s \in Services : ArchivingOf(r, s)

\* What is stored is what is archived, and it is dropped after it was stored.
UploadingOf(r, w) ==
    /\ pc[<<r, w>>] = "store" => got[<<r, w>>] = archive[w] /\ archive[w] # {}
    /\ pc[<<r, w>>] = "drop" => archive[w] \subseteq blob[w]
    /\ pc[<<r, w>>] \notin Settled => \A q \in Runs : WindowOf[q] = w => ~NotBegun(q)

Uploading == \A r \in Runs, w \in Windows : UploadingOf(r, w)

\* A collection that is left over has all that its blob has.
BlobCovers == \A w \in Windows : archive[w] = {} \/ blob[w] \subseteq archive[w]

\* The inductive invariant: control alone, and data given control and calm.
Control == TypeOK /\ SoleRun /\ Phases
Data == Untouched /\ Archiving /\ Uploading /\ BlobCovers /\ NoLogLost

\* No window is backed up by two runs.
OneRunAWindow == \A q, r \in Runs : WindowOf[q] = WindowOf[r] => q = r

-----------------------------------------------------------------------------
(* Threads.                                                                *)

\* A run, the archiving of a service and the upload of a window are never the
\* same thread.
LEMMA ThreadsDiffer ==
    /\ \A q, r \in Runs, x \in Services \cup Windows : q # <<r, x>>
    /\ \A s \in Services, w \in Windows : s # w
BY BackupAssumption

\* Where every thread is.
Places ==
    /\ pc \in [Threads -> RunPlaces \cup ServicePlaces \cup UploadPlaces]
    /\ \A r \in Runs : pc[r] \in RunPlaces
    /\ \A t \in ServiceThreads : pc[t] \in ServicePlaces
    /\ \A u \in UploadThreads : pc[u] \in UploadPlaces

\* A step of a run moves no other thread.
LEMMA RunMoves ==
    ASSUME Places, NEW r \in Runs, NEW place \in RunPlaces, Goto(r, place)
    PROVE  /\ Places'
           /\ pc'[r] = place
           /\ \A q \in Runs : q # r => pc'[q] = pc[q]
           /\ \A q \in Runs, s \in Services : pc'[<<q, s>>] = pc[<<q, s>>]
           /\ \A q \in Runs, w \in Windows : pc'[<<q, w>>] = pc[<<q, w>>]
<1> USE DEF Goto, Places, Threads, ServiceThreads, UploadThreads
<1>1. r \in Threads
  OBVIOUS
<1>2. /\ pc' \in [Threads -> RunPlaces \cup ServicePlaces \cup UploadPlaces]
      /\ pc'[r] = place
      /\ \A t \in Threads : t # r => pc'[t] = pc[t]
  BY <1>1
<1>3. /\ \A q \in Runs, s \in Services : <<q, s>> # r /\ <<q, s>> \in Threads
      /\ \A q \in Runs, w \in Windows : <<q, w>> # r /\ <<q, w>> \in Threads
      /\ \A t \in ServiceThreads \cup UploadThreads : t # r /\ t \in Threads
  BY ThreadsDiffer
<1> QED
  BY <1>2, <1>3

\* A step of the archiving of a service moves no other thread.
LEMMA ServiceMoves ==
    ASSUME Places, NEW r \in Runs, NEW s \in Services, NEW place \in ServicePlaces,
           Goto(<<r, s>>, place)
    PROVE  /\ Places'
           /\ pc'[<<r, s>>] = place
           /\ \A q \in Runs : pc'[q] = pc[q]
           /\ \A q \in Runs, x \in Services :
                 ~(q = r /\ x = s) => pc'[<<q, x>>] = pc[<<q, x>>]
           /\ \A q \in Runs, w \in Windows : pc'[<<q, w>>] = pc[<<q, w>>]
<1> USE DEF Goto, Places, Threads, ServiceThreads, UploadThreads
<1> DEFINE t == <<r, s>>
<1>1. t \in Threads
  OBVIOUS
<1>2. /\ pc' \in [Threads -> RunPlaces \cup ServicePlaces \cup UploadPlaces]
      /\ pc'[t] = place
      /\ \A x \in Threads : x # t => pc'[x] = pc[x]
  BY <1>1
<1>3. /\ \A q \in Runs : q # t /\ q \in Threads
      /\ \A q \in Runs, x \in Services : <<q, x>> \in Threads
      /\ \A q \in Runs, w \in Windows : <<q, w>> # t /\ <<q, w>> \in Threads
      /\ \A u \in UploadThreads : u # t /\ u \in Threads
  BY ThreadsDiffer
<1> QED
  BY <1>2, <1>3

\* A step of the upload of a window moves no other thread.
LEMMA UploadMoves ==
    ASSUME Places, NEW r \in Runs, NEW v \in Windows, NEW place \in UploadPlaces,
           Goto(<<r, v>>, place)
    PROVE  /\ Places'
           /\ pc'[<<r, v>>] = place
           /\ \A q \in Runs : pc'[q] = pc[q]
           /\ \A q \in Runs, s \in Services : pc'[<<q, s>>] = pc[<<q, s>>]
           /\ \A q \in Runs, w \in Windows :
                 ~(q = r /\ w = v) => pc'[<<q, w>>] = pc[<<q, w>>]
<1> USE DEF Goto, Places, Threads, ServiceThreads, UploadThreads
<1> DEFINE t == <<r, v>>
<1>1. t \in Threads
  OBVIOUS
<1>2. /\ pc' \in [Threads -> RunPlaces \cup ServicePlaces \cup UploadPlaces]
      /\ pc'[t] = place
      /\ \A x \in Threads : x # t => pc'[x] = pc[x]
  BY <1>1
<1>3. /\ \A q \in Runs : q # t /\ q \in Threads
      /\ \A q \in Runs, s \in Services : <<q, s>> # t /\ <<q, s>> \in Threads
      /\ \A q \in Runs, w \in Windows : <<q, w>> \in Threads
      /\ \A x \in ServiceThreads : x # t /\ x \in Threads
  BY ThreadsDiffer
<1> QED
  BY <1>2, <1>3

\* In calm, a service is archived only while its run is the one that works, and
\* then nothing is uploaded.
LEMMA ServiceAlone ==
    ASSUME Control, Calm, NEW r \in Runs, NEW s \in Services, pc[<<r, s>>] \notin Settled
    PROVE  /\ pc[r] \in {"archiving", "failing"}
           /\ \A q \in Runs : Active(q) => q = r
           /\ \A q \in Runs, w \in Windows : pc[<<q, w>>] \in Settled
           /\ \A q \in Runs, x \in Services : pc[<<q, x>>] \notin Settled => q = r
BY DEF Control, SoleRun, Phases, AloneUnlessRaced, Calm, Active

\* In calm, a collection is uploaded only while its run is the one that works,
\* and then nothing is archived.
LEMMA UploadAlone ==
    ASSUME Control, Calm, NEW r \in Runs, NEW v \in Windows, pc[<<r, v>>] \notin Settled
    PROVE  /\ pc[r] = "uploading"
           /\ \A q \in Runs : Active(q) => q = r
           /\ \A q \in Runs, s \in Services : pc[<<q, s>>] \in Settled
           /\ \A q \in Runs, w \in Windows : pc[<<q, w>>] \notin Settled => q = r
BY DEF Control, SoleRun, Phases, AloneUnlessRaced, Calm, Active

-----------------------------------------------------------------------------
(* Control: a thread of a run keeps to the run's phase, and a run works     *)
(* alone.                                                                   *)

\* The step of a service or of an upload leaves the runs where they are.
LEMMA SideStep ==
    ASSUME Control,
           \A q \in Runs : pc'[q] = pc[q],
           UNCHANGED <<job, histVars>>,
           \A q \in Runs : stale'[q] => stale[q],
           \A q \in Runs, s \in Services :
              pc'[<<q, s>>] \notin Settled => pc[<<q, s>>] \notin Settled,
           \A q \in Runs, w \in Windows :
              pc'[<<q, w>>] \notin Settled => pc[<<q, w>>] \notin Settled
    PROVE  SoleRun' /\ Phases'
BY DEF Control, SoleRun, Phases, AloneUnlessRaced, Clean, Active, Entering, histVars

\* History only grows.
HistoryKept == raced \subseteq raced' /\ lapsed \subseteq lapsed'

\* A run whose row stays live and that is alone may move on; its threads keep
\* to its phase.
LEMMA RunStep ==
    ASSUME Control, HistoryKept, NEW r \in Runs,
           \A q \in Runs : q # r => pc'[q] = pc[q],
           \A q \in Runs : q # r /\ Clean(q)' /\ Active(q) => job'[q] = "Running",
           \A q \in Runs : Clean(q)' /\ stale'[q] => stale[q] \/ pc'[q] \in RunEnds,
           Clean(r)' /\ stale[r] => pc'[r] \in RunEnds,
           Clean(r)' /\ Active(r)' => job'[r] = "Running",
           Clean(r)' /\ Active(r)' =>
              \A q \in Runs : Clean(q) /\ (Active(q) \/ pc[q] = "create") => q = r,
           Clean(r)' /\ Entering(r)' => \A q \in Runs : Clean(q) /\ Entering(q) => q = r,
           Clean(r)' /\ pc'[r] = "create" => \A q \in Runs : Clean(q) => ~Active(q),
           \A q \in Runs, s \in Services :
              pc'[<<q, s>>] \notin Settled =>
                 IF q = r THEN pc'[r] \in {"archiving", "failing"}
                          ELSE pc[<<q, s>>] \notin Settled,
           \A q \in Runs, w \in Windows :
              pc'[<<q, w>>] \notin Settled =>
                 IF q = r THEN pc'[r] = "uploading" ELSE pc[<<q, w>>] \notin Settled
    PROVE  SoleRun' /\ Phases'
<1>1. \A q \in Runs : Clean(q)' => Clean(q)
  BY DEF Clean, HistoryKept
<1>2. \A q \in Runs : q # r => (Active(q)' <=> Active(q)) /\ (Entering(q)' <=> Entering(q))
  BY DEF Active, Entering
<1>3. /\ \A q \in Runs : Clean(q) /\ Active(q) => job[q] = "Running"
      /\ \A q \in Runs : Clean(q) /\ stale[q] => pc[q] \in RunEnds
      /\ \A p, q \in Runs : Clean(p) /\ Clean(q) /\ Active(p) /\ Active(q) => p = q
      /\ \A p, q \in Runs : Clean(p) /\ Clean(q) /\ Entering(p) /\ Entering(q) => p = q
      /\ \A p, q \in Runs : Clean(p) /\ Clean(q) /\ pc[p] = "create" => ~Active(q)
  BY DEF Control, SoleRun, AloneUnlessRaced, Clean
<1>4. \A q \in Runs : Clean(q)' /\ Active(q)' => job'[q] = "Running"
  BY <1>2
<1>5. \A q \in Runs : Clean(q)' /\ stale'[q] => pc'[q] \in RunEnds
  BY <1>1, <1>3
<1>6. \A p, q \in Runs : Clean(p)' /\ Clean(q)' /\ Active(p)' /\ Active(q)' => p = q
  BY <1>1, <1>2, <1>3
<1>7. \A p, q \in Runs : Clean(p)' /\ Clean(q)' /\ Entering(p)' /\ Entering(q)' => p = q
  BY <1>1, <1>2, <1>3
<1>8. \A p, q \in Runs : Clean(p)' /\ Clean(q)' /\ pc'[p] = "create" => ~Active(q)'
  <2> SUFFICES ASSUME NEW p \in Runs, NEW q \in Runs,
                      Clean(p)', Clean(q)', pc'[p] = "create", Active(q)'
               PROVE  FALSE
    OBVIOUS
  <2>1. p # q
    BY DEF Active
  <2>2. CASE p = r
    BY <2>1, <2>2, <1>1, <1>2
  <2>3. CASE p # r
    BY <2>1, <2>3, <1>1, <1>2, <1>3
  <2> QED
    BY <2>2, <2>3
<1>9. Phases'
  BY DEF Phases, Control
<1>10. AloneUnlessRaced'
  BY <1>6 DEF AloneUnlessRaced, Clean
<1> QED
  BY <1>4, <1>5, <1>7, <1>8, <1>9, <1>10 DEF SoleRun

\* A run that enters its check with another inside is no clean run.
LEMMA EnterMarks ==
    ASSUME TypeOK, NEW r \in Runs, EnterCheck(r), UNCHANGED lapsed
    PROVE  /\ pc[r] = "idle" /\ Goto(r, "check")
           /\ HistoryKept /\ raced' \in SUBSET Runs
           /\ Clean(r)' => \A q \in Runs : ~Entering(q)
<1>1. CASE \E q \in Runs : Entering(q)
  BY <1>1 DEF EnterCheck, HistoryKept, Clean, TypeOK
<1>2. CASE ~\E q \in Runs : Entering(q)
  BY <1>2 DEF EnterCheck, HistoryKept, TypeOK
<1> QED
  BY <1>1, <1>2

LEMMA ReleaseControl ==
    ASSUME Control, NEW r \in Runs, ReleaseStale(r)
    PROVE  Control'
<1>1. /\ EnterCheck(r)
      /\ job' = [q \in Runs |-> IF job[q] = "Running" /\ stale[q] THEN "Abandoned" ELSE job[q]]
      /\ UNCHANGED <<dataVars, erred, stale, localVars, lapsed, faults, crashes>>
  BY DEF ReleaseStale
<1>2. /\ pc[r] = "idle" /\ Goto(r, "check")
      /\ HistoryKept /\ raced' \in SUBSET Runs
      /\ Clean(r)' => \A q \in Runs : ~Entering(q)
  BY <1>1, EnterMarks DEF Control
<1>3. Places
  BY DEF Control, TypeOK, Places
<1>4. /\ Places'
      /\ pc'[r] = "check"
      /\ \A q \in Runs : q # r => pc'[q] = pc[q]
      /\ \A q \in Runs, s \in Services : pc'[<<q, s>>] = pc[<<q, s>>]
      /\ \A q \in Runs, w \in Windows : pc'[<<q, w>>] = pc[<<q, w>>]
  BY <1>2, <1>3, RunMoves DEF RunPlaces
<1>5. TypeOK'
  BY <1>1, <1>2, <1>4 DEF Control, TypeOK, Places, JobStatuses, dataVars, localVars
<1>6. \A q \in Runs : Clean(q)' /\ Active(q) => job'[q] = "Running"
  <2> SUFFICES ASSUME NEW q \in Runs, Clean(q)', Active(q)
               PROVE  job'[q] = "Running"
    OBVIOUS
  <2>1. Clean(q)
    BY <1>2 DEF Clean, HistoryKept
  <2>2. job[q] = "Running" /\ ~stale[q]
    BY <2>1 DEF Control, SoleRun, Active, RunEnds
  <2> QED
    BY <1>1, <2>2
<1>7. /\ ~Active(r)' /\ pc'[r] # "create"
      /\ Clean(r)' => ~stale[r]
  BY <1>2, <1>4 DEF Active, Control, SoleRun, Clean, HistoryKept, RunEnds
<1>8. /\ \A q \in Runs, s \in Services :
            pc'[<<q, s>>] \notin Settled => q # r /\ pc[<<q, s>>] \notin Settled
      /\ \A q \in Runs, w \in Windows :
            pc'[<<q, w>>] \notin Settled => q # r /\ pc[<<q, w>>] \notin Settled
  BY <1>2, <1>4 DEF Control, Phases
<1>9. SoleRun' /\ Phases'
  BY <1>1, <1>2, <1>4, <1>6, <1>7, <1>8, RunStep
<1> QED
  BY <1>5, <1>9 DEF Control

LEMMA CheckControl ==
    ASSUME Control, NEW r \in Runs, CheckActive(r)
    PROVE  Control'
<1>1. /\ pc[r] = "check"
      /\ UNCHANGED <<dataVars, jobVars, localVars, badVars>>
  BY DEF CheckActive
<1>2. PICK place \in RunPlaces :
         /\ Goto(r, place)
         /\ place = "refused" \/ (place = "create" /\ \A q \in Runs : job[q] # "Running")
  <2>1. CASE \E q \in Runs : job[q] = "Running"
    BY <2>1 DEF CheckActive, RunPlaces, RunEnds
  <2>2. CASE ~\E q \in Runs : job[q] = "Running"
    BY <2>2 DEF CheckActive, RunPlaces
  <2> QED
    BY <2>1, <2>2
<1>3. Places
  BY DEF Control, TypeOK, Places
<1>4. /\ Places'
      /\ pc'[r] = place
      /\ \A q \in Runs : q # r => pc'[q] = pc[q]
      /\ \A q \in Runs, s \in Services : pc'[<<q, s>>] = pc[<<q, s>>]
      /\ \A q \in Runs, w \in Windows : pc'[<<q, w>>] = pc[<<q, w>>]
  BY <1>2, <1>3, RunMoves
<1>5. TypeOK'
  BY <1>1, <1>4 DEF Control, TypeOK, Places, dataVars, jobVars, localVars, badVars, histVars
<1>6. SoleRun' /\ Phases'
  BY <1>1, <1>2, <1>4, RunStep
  DEF Control, SoleRun, Phases, Clean, HistoryKept, Active, Entering, RunEnds, jobVars, badVars, histVars
<1> QED
  BY <1>5, <1>6 DEF Control

LEMMA CreateControl ==
    ASSUME Control, NEW r \in Runs, CreateJob(r)
    PROVE  Control'
<1>1. /\ pc[r] = "create" /\ Goto(r, "discover")
      /\ job' = [job EXCEPT ![r] = "Running"]
      /\ UNCHANGED <<dataVars, erred, stale, localVars, badVars>>
  BY DEF CreateJob
<1>2. Places
  BY DEF Control, TypeOK, Places
<1>3. /\ Places'
      /\ pc'[r] = "discover"
      /\ \A q \in Runs : q # r => pc'[q] = pc[q]
      /\ \A q \in Runs, s \in Services : pc'[<<q, s>>] = pc[<<q, s>>]
      /\ \A q \in Runs, w \in Windows : pc'[<<q, w>>] = pc[<<q, w>>]
  BY <1>1, <1>2, RunMoves DEF RunPlaces
<1>4. TypeOK'
  BY <1>1, <1>3 DEF Control, TypeOK, Places, JobStatuses, dataVars, localVars, badVars, histVars
<1>5. job' \in [Runs -> JobStatuses] /\ job'[r] = "Running"
      /\ \A q \in Runs : q # r => job'[q] = job[q]
  BY <1>1, <1>4 DEF Control, TypeOK
<1>6. SoleRun' /\ Phases'
  BY <1>1, <1>3, <1>5, RunStep
  DEF Control, SoleRun, Phases, Clean, HistoryKept, Active, Entering, RunEnds, badVars, histVars
<1> QED
  BY <1>4, <1>6 DEF Control

\* The services that are begun are those of the run.
LEMMA StartMoves ==
    ASSUME Places, NEW r \in Runs, NEW listable \in SUBSET Services, NEW after \in RunPlaces,
           StartServices(r, listable, after)
    PROVE  /\ Places'
           /\ pc'[r] = after
           /\ \A q \in Runs : q # r => pc'[q] = pc[q]
           /\ \A q \in Runs, s \in Services :
                 pc'[<<q, s>>] # pc[<<q, s>>] =>
                    /\ q = r /\ pc'[<<q, s>>] = "open"
                    /\ s \in listable
           /\ \A q \in Runs, w \in Windows : pc'[<<q, w>>] = pc[<<q, w>>]
<1> DEFINE begun == {r} \X {s \in listable : LogsOf(s) \cap source[WindowOf[r]] # {}}
<1>1. pc' = [t \in Threads |-> IF t = r THEN after ELSE IF t \in begun THEN "open" ELSE pc[t]]
  BY DEF StartServices
<1> HIDE DEF begun
<1>2. /\ \A q \in Runs : q \in Threads
      /\ \A q \in Runs, s \in Services : <<q, s>> \in Threads /\ <<q, s>> \in ServiceThreads
      /\ \A q \in Runs, w \in Windows : <<q, w>> \in Threads /\ <<q, w>> \in UploadThreads
  BY DEF Threads, ServiceThreads, UploadThreads
<1>3. /\ \A q \in Runs : q # r => pc'[q] = IF q \in begun THEN "open" ELSE pc[q]
      /\ pc'[r] = after
      /\ \A q \in Runs, s \in Services :
            pc'[<<q, s>>] = IF <<q, s>> \in begun THEN "open" ELSE pc[<<q, s>>]
      /\ \A q \in Runs, w \in Windows :
            pc'[<<q, w>>] = IF <<q, w>> \in begun THEN "open" ELSE pc[<<q, w>>]
  BY <1>1, <1>2, ThreadsDiffer
<1>4. \A t \in begun : t[1] = r /\ t[2] \in listable /\ t = <<r, t[2]>>
  BY DEF begun
<1>5. /\ \A q \in Runs : q \notin begun
      /\ \A q \in Runs, s \in Services : <<q, s>> \in begun => q = r /\ s \in listable
      /\ \A q \in Runs, w \in Windows : <<q, w>> \notin begun
  BY <1>4, ThreadsDiffer
<1>6. /\ \A q \in Runs : q # r => pc'[q] = pc[q]
      /\ \A q \in Runs, s \in Services :
            pc'[<<q, s>>] # pc[<<q, s>>] => q = r /\ pc'[<<q, s>>] = "open" /\ s \in listable
      /\ \A q \in Runs, w \in Windows : pc'[<<q, w>>] = pc[<<q, w>>]
  BY <1>3, <1>5
<1>7. Places'
  <2>1. \A t \in Threads : pc'[t] = after \/ pc'[t] = "open" \/ pc'[t] = pc[t]
    BY <1>1
  <2>2. pc' \in [Threads -> RunPlaces \cup ServicePlaces \cup UploadPlaces]
    BY <2>1, <1>1 DEF Places, ServicePlaces
  <2>3. /\ \A q \in Runs : pc'[q] \in RunPlaces
        /\ \A q \in Runs, s \in Services : pc'[<<q, s>>] \in ServicePlaces
        /\ \A q \in Runs, w \in Windows : pc'[<<q, w>>] \in UploadPlaces
    BY <1>2, <1>3, <1>6 DEF Places, ServicePlaces
  <2> QED
    BY <2>2, <2>3 DEF Places, ServiceThreads, UploadThreads
<1> QED
  BY <1>3, <1>6, <1>7

LEMMA StartControl ==
    ASSUME Control, NEW r \in Runs, NEW kind \in SUBSET Services,
           NEW after \in {"archiving", "failing"},
           StartServices(r, kind, after), UNCHANGED <<histVars, crashes>>, faults' \in Nat,
           Active(r), \A w \in Windows : pc[<<r, w>>] \in Settled
    PROVE  Control'
<1>1. UNCHANGED <<dataVars, jobVars, localVars>>
  BY DEF StartServices
<1>2. Places /\ after \in RunPlaces
  BY DEF Control, TypeOK, Places, RunPlaces
<1>3. /\ Places'
      /\ pc'[r] = after
      /\ \A q \in Runs : q # r => pc'[q] = pc[q]
      /\ \A q \in Runs, s \in Services :
            pc'[<<q, s>>] # pc[<<q, s>>] =>
               /\ q = r /\ pc'[<<q, s>>] = "open"
               /\ s \in kind
      /\ \A q \in Runs, w \in Windows : pc'[<<q, w>>] = pc[<<q, w>>]
  BY <1>2, StartMoves
<1>4. TypeOK'
  BY <1>1, <1>3 DEF Control, TypeOK, Places, dataVars, jobVars, localVars, histVars
<1>5. SoleRun' /\ Phases'
  BY <1>1, <1>3, RunStep
  DEF Control, SoleRun, Phases, AloneUnlessRaced, Clean, HistoryKept, Active, Entering, RunEnds,
      jobVars, histVars
<1> QED
  BY <1>4, <1>5 DEF Control

LEMMA ListMoves ==
    ASSUME Places, NEW r \in Runs, ListCollections(r)
    PROVE  /\ Places'
           /\ pc'[r] = "uploading"
           /\ \A q \in Runs : q # r => pc'[q] = pc[q]
           /\ \A q \in Runs, s \in Services : pc'[<<q, s>>] = pc[<<q, s>>]
           /\ \A q \in Runs, w \in Windows :
                 pc'[<<q, w>>] # pc[<<q, w>>] =>
                    q = r /\ pc'[<<q, w>>] = "read" /\ listed[w]
<1> DEFINE begun == {r} \X {w \in Windows : listed[w]}
<1>1. pc' = [t \in Threads |->
               IF t = r THEN "uploading" ELSE IF t \in begun THEN "read" ELSE pc[t]]
  BY DEF ListCollections
<1>2. \A t \in begun : t[1] = r /\ t[2] \in Windows /\ listed[t[2]] /\ t = <<r, t[2]>>
  OBVIOUS
<1> HIDE DEF begun
<1>3. /\ \A q \in Runs : q \in Threads
      /\ \A q \in Runs, s \in Services : <<q, s>> \in Threads /\ <<q, s>> \in ServiceThreads
      /\ \A q \in Runs, w \in Windows : <<q, w>> \in Threads /\ <<q, w>> \in UploadThreads
  BY DEF Threads, ServiceThreads, UploadThreads
<1>4. /\ \A q \in Runs : q \notin begun
      /\ \A q \in Runs, s \in Services : <<q, s>> \notin begun
      /\ \A q \in Runs, w \in Windows : <<q, w>> \in begun => q = r /\ listed[w]
  BY <1>2, ThreadsDiffer
<1>5. /\ pc'[r] = "uploading"
      /\ \A q \in Runs : q # r => pc'[q] = pc[q]
      /\ \A q \in Runs, s \in Services : pc'[<<q, s>>] = pc[<<q, s>>]
      /\ \A q \in Runs, w \in Windows :
            pc'[<<q, w>>] # pc[<<q, w>>] => q = r /\ pc'[<<q, w>>] = "read" /\ listed[w]
  BY <1>1, <1>3, <1>4, ThreadsDiffer
<1>6. Places'
  <2>1. \A t \in Threads : pc'[t] = "uploading" \/ pc'[t] = "read" \/ pc'[t] = pc[t]
    BY <1>1
  <2>2. pc' \in [Threads -> RunPlaces \cup ServicePlaces \cup UploadPlaces]
    BY <2>1, <1>1 DEF Places, RunPlaces, UploadPlaces
  <2>3. /\ \A q \in Runs : pc'[q] \in RunPlaces
        /\ \A q \in Runs, s \in Services : pc'[<<q, s>>] \in ServicePlaces
        /\ \A q \in Runs, w \in Windows : pc'[<<q, w>>] \in UploadPlaces
    BY <1>3, <1>5 DEF Places, UploadPlaces, RunPlaces
  <2> QED
    BY <2>2, <2>3 DEF Places, ServiceThreads, UploadThreads
<1> QED
  BY <1>5, <1>6

LEMMA ListControl ==
    ASSUME Control, NEW r \in Runs, ListCollections(r)
    PROVE  Control'
<1>1. /\ pc[r] = "archiving" /\ \A s \in Services : Ended(<<r, s>>)
      /\ UNCHANGED <<dataVars, jobVars, localVars, badVars>>
  BY DEF ListCollections
<1>2. Places
  BY DEF Control, TypeOK, Places
<1>3. /\ Places'
      /\ pc'[r] = "uploading"
      /\ \A q \in Runs : q # r => pc'[q] = pc[q]
      /\ \A q \in Runs, s \in Services : pc'[<<q, s>>] = pc[<<q, s>>]
      /\ \A q \in Runs, w \in Windows :
            pc'[<<q, w>>] # pc[<<q, w>>] => q = r /\ pc'[<<q, w>>] = "read"
  BY <1>2, ListMoves
<1>4. TypeOK'
  BY <1>1, <1>3 DEF Control, TypeOK, Places, dataVars, jobVars, localVars, badVars, histVars
<1>5. \A s \in Services : pc[<<r, s>>] \in Settled
  BY <1>1 DEF Ended, Settled
<1>6. SoleRun' /\ Phases'
  BY <1>1, <1>3, <1>5, RunStep
  DEF Control, SoleRun, Phases, AloneUnlessRaced, Clean, HistoryKept, Active, Entering, RunEnds,
      jobVars, badVars, histVars
<1> QED
  BY <1>4, <1>6 DEF Control

\* A run whose services and uploads have ended may end whatever its row says.
LEMMA EndControl ==
    ASSUME Control, NEW r \in Runs, NEW place \in RunEnds, Goto(r, place),
           \A s \in Services : pc[<<r, s>>] \in Settled,
           \A w \in Windows : pc[<<r, w>>] \in Settled,
           job' \in [Runs -> JobStatuses], \A q \in Runs : q # r => job'[q] = job[q],
           stale' \in [Runs -> BOOLEAN], \A q \in Runs : stale'[q] => stale[q],
           UNCHANGED <<dataVars, erred, localVars, histVars, crashes>>, faults' \in Nat
    PROVE  Control'
<1>1. Places /\ place \in RunPlaces
  BY DEF Control, TypeOK, Places, RunPlaces
<1>2. /\ Places'
      /\ pc'[r] = place
      /\ \A q \in Runs : q # r => pc'[q] = pc[q]
      /\ \A q \in Runs, s \in Services : pc'[<<q, s>>] = pc[<<q, s>>]
      /\ \A q \in Runs, w \in Windows : pc'[<<q, w>>] = pc[<<q, w>>]
  BY <1>1, RunMoves
<1>3. TypeOK'
  BY <1>2 DEF Control, TypeOK, Places, dataVars, localVars, histVars
<1>4. SoleRun' /\ Phases'
  BY <1>2, RunStep
  DEF Control, SoleRun, Phases, Clean, HistoryKept, Active, Entering, RunEnds, histVars
<1> QED
  BY <1>3, <1>4 DEF Control

LEMMA CompleteControl ==
    ASSUME Control, NEW r \in Runs, CompleteJob(r) \/ FailJob(r)
    PROVE  Control'
<1>1. /\ Goto(r, "ended")
      /\ UNCHANGED <<dataVars, erred, localVars, badVars>>
      /\ stale' = [stale EXCEPT ![r] = FALSE]
      /\ \E status \in JobStatuses : job' = [job EXCEPT ![r] = status]
  BY DEF CompleteJob, FailJob, Heartbeat, JobStatuses
<1>2. /\ \A s \in Services : pc[<<r, s>>] \in Settled
      /\ \A w \in Windows : pc[<<r, w>>] \in Settled
  BY DEF CompleteJob, FailJob, Ended, Settled, Control, Phases
<1>3. /\ job' \in [Runs -> JobStatuses] /\ \A q \in Runs : q # r => job'[q] = job[q]
      /\ stale' \in [Runs -> BOOLEAN] /\ \A q \in Runs : stale'[q] => stale[q]
  BY <1>1 DEF Control, TypeOK
<1>4. faults' \in Nat /\ "ended" \in RunEnds
  BY <1>1 DEF badVars, Control, TypeOK, RunEnds
<1> QED
  BY <1>1, <1>2, <1>3, <1>4, EndControl DEF badVars

\* A run that goes on although the query for an active run failed is no clean
\* run.
LEMMA CheckFailsControl ==
    ASSUME Control, NEW r \in Runs, pc[r] = "check", Goto(r, "create"),
           raced' = raced \cup {r},
           UNCHANGED <<dataVars, jobVars, localVars, lapsed, crashes>>, faults' \in Nat
    PROVE  Control'
<1>1. Places
  BY DEF Control, TypeOK, Places
<1>2. /\ Places'
      /\ pc'[r] = "create"
      /\ \A q \in Runs : q # r => pc'[q] = pc[q]
      /\ \A q \in Runs, s \in Services : pc'[<<q, s>>] = pc[<<q, s>>]
      /\ \A q \in Runs, w \in Windows : pc'[<<q, w>>] = pc[<<q, w>>]
  BY <1>1, RunMoves DEF RunPlaces
<1>3. TypeOK'
  BY <1>2 DEF Control, TypeOK, Places, dataVars, jobVars, localVars
<1>4. HistoryKept /\ ~Clean(r)'
  BY DEF HistoryKept, Clean
<1>5. \A q \in Runs : Clean(q)' /\ Active(q) => job'[q] = "Running"
  BY <1>4 DEF Control, SoleRun, Clean, HistoryKept, jobVars
<1>6. SoleRun' /\ Phases'
  BY <1>2, <1>4, <1>5, RunStep DEF Control, Phases, jobVars
<1> QED
  BY <1>3, <1>6 DEF Control

LEMMA JobCallControl ==
    ASSUME Control, NEW r \in Runs, JobCallFails(r), Fault, UNCHANGED crashes
    PROVE  Control'
<1>1. /\ UNCHANGED <<dataVars, jobVars, localVars, lapsed>>
      /\ faults' \in Nat
  BY DEF JobCallFails, Fault, Control, TypeOK
<1>2. CASE EnterCheck(r)
  <2>1. /\ pc[r] = "idle" /\ Goto(r, "check")
        /\ HistoryKept /\ raced' \in SUBSET Runs
        /\ Clean(r)' => \A q \in Runs : ~Entering(q)
    BY <1>1, <1>2, EnterMarks DEF Control
  <2>2. Places
    BY DEF Control, TypeOK, Places
  <2>3. /\ Places'
        /\ pc'[r] = "check"
        /\ \A q \in Runs : q # r => pc'[q] = pc[q]
        /\ \A q \in Runs, s \in Services : pc'[<<q, s>>] = pc[<<q, s>>]
        /\ \A q \in Runs, w \in Windows : pc'[<<q, w>>] = pc[<<q, w>>]
    BY <2>1, <2>2, RunMoves DEF RunPlaces
  <2>4. TypeOK'
    BY <1>1, <2>1, <2>3 DEF Control, TypeOK, Places, dataVars, jobVars, localVars
  <2>5. /\ \A q \in Runs : Clean(q)' /\ Active(q) => job'[q] = "Running"
        /\ ~Active(r)' /\ pc'[r] # "create"
        /\ Clean(r)' => ~stale[r]
    BY <1>1, <2>1, <2>3 DEF Active, Control, SoleRun, Clean, HistoryKept, RunEnds, jobVars
  <2>6. SoleRun' /\ Phases'
    BY <1>1, <2>1, <2>3, <2>5, RunStep DEF Control, Phases, jobVars
  <2> QED
    BY <2>4, <2>6 DEF Control
<1>3. CASE pc[r] = "check" /\ Goto(r, "create") /\ raced' = raced \cup {r}
  BY <1>1, <1>3, CheckFailsControl
<1>4. CASE /\ \/ pc[r] = "create"
              \/ pc[r] = "uploading" /\ \A w \in Windows : Ended(<<r, w>>)
              \/ pc[r] = "failing" /\ \A s \in Services : Ended(<<r, s>>)
           /\ Goto(r, "ended")
           /\ UNCHANGED raced
  <2>1. /\ \A s \in Services : pc[<<r, s>>] \in Settled
        /\ \A w \in Windows : pc[<<r, w>>] \in Settled
    BY <1>4 DEF Ended, Settled, Control, Phases
  <2>2. /\ job' \in [Runs -> JobStatuses] /\ \A q \in Runs : q # r => job'[q] = job[q]
        /\ stale' \in [Runs -> BOOLEAN] /\ \A q \in Runs : stale'[q] => stale[q]
    BY <1>1 DEF jobVars, Control, TypeOK
  <2>3. "ended" \in RunEnds /\ UNCHANGED <<erred, histVars>>
    BY <1>1, <1>4 DEF RunEnds, jobVars, histVars
  <2> QED
    BY <1>1, <1>4, <2>1, <2>2, <2>3, EndControl
<1> QED
  BY <1>2, <1>3, <1>4 DEF JobCallFails

\* A crash takes the run and all its threads.
LEMMA CrashMoves ==
    ASSUME Places, NEW r \in Runs, Crash(r)
    PROVE  /\ Places'
           /\ pc'[r] = "crashed"
           /\ \A q \in Runs : q # r => pc'[q] = pc[q]
           /\ \A q \in Runs, x \in Services \cup Windows :
                 pc'[<<q, x>>] = IF q = r THEN "crashed" ELSE pc[<<q, x>>]
<1> DEFINE mine == {r} \X (Services \cup Windows)
<1>1. pc' = [t \in Threads |-> IF t = r \/ t \in mine THEN "crashed" ELSE pc[t]]
  BY DEF Crash
<1>2. /\ \A t \in mine : t[1] = r /\ t[2] \in Services \cup Windows /\ t = <<r, t[2]>>
      /\ \A x \in Services \cup Windows : <<r, x>> \in mine
  OBVIOUS
<1> HIDE DEF mine
<1>3. /\ \A q \in Runs : q \in Threads
      /\ \A q \in Runs, x \in Services \cup Windows : <<q, x>> \in Threads
  BY DEF Threads, ServiceThreads, UploadThreads
<1>4. /\ \A q \in Runs : q \notin mine
      /\ \A q \in Runs, x \in Services \cup Windows : <<q, x>> \in mine <=> q = r
  BY <1>2, ThreadsDiffer
<1>5. /\ pc'[r] = "crashed"
      /\ \A q \in Runs : q # r => pc'[q] = pc[q]
      /\ \A q \in Runs, x \in Services \cup Windows :
            pc'[<<q, x>>] = IF q = r THEN "crashed" ELSE pc[<<q, x>>]
  BY <1>1, <1>3, <1>4, ThreadsDiffer
<1>6. Places'
  <2>1. \A t \in Threads : pc'[t] = "crashed" \/ pc'[t] = pc[t]
    BY <1>1
  <2>2. pc' \in [Threads -> RunPlaces \cup ServicePlaces \cup UploadPlaces]
    BY <2>1, <1>1 DEF Places, UploadPlaces
  <2>3. \A t \in Threads : t \in Runs => pc'[t] \in RunPlaces
    BY <2>1 DEF Places, RunPlaces, RunEnds
  <2>4. \A t \in Threads : t \in ServiceThreads => pc'[t] \in ServicePlaces
    BY <2>1 DEF Places, ServicePlaces
  <2>5. \A t \in Threads : t \in UploadThreads => pc'[t] \in UploadPlaces
    BY <2>1 DEF Places, UploadPlaces
  <2> QED
    BY <2>2, <2>3, <2>4, <2>5 DEF Places, Threads
<1> QED
  BY <1>5, <1>6

LEMMA CrashControl ==
    ASSUME Control, NEW r \in Runs, Crash(r)
    PROVE  Control'
<1>1. /\ UNCHANGED <<dataVars, jobVars, localVars, histVars, faults>>
      /\ crashes' \in Nat
  BY DEF Crash, Control, TypeOK
<1>2. Places
  BY DEF Control, TypeOK, Places
<1>3. /\ Places'
      /\ pc'[r] = "crashed"
      /\ \A q \in Runs : q # r => pc'[q] = pc[q]
      /\ \A q \in Runs, x \in Services \cup Windows :
            pc'[<<q, x>>] = IF q = r THEN "crashed" ELSE pc[<<q, x>>]
  BY <1>2, CrashMoves
<1>4. TypeOK'
  BY <1>1, <1>3 DEF Control, TypeOK, Places, dataVars, jobVars, localVars, histVars
<1>5. SoleRun' /\ Phases'
  BY <1>1, <1>3, RunStep
  DEF Control, SoleRun, Phases, Clean, HistoryKept, Active, Entering, RunEnds, jobVars, histVars,
      Settled
<1> QED
  BY <1>4, <1>5 DEF Control

LEMMA TimeControl ==
    ASSUME Control, NEW r \in Runs, TimePasses(r)
    PROVE  Control'
<1>1. /\ stale' = [stale EXCEPT ![r] = TRUE]
      /\ lapsed' = IF pc[r] \in RunEnds THEN lapsed ELSE lapsed \cup {r}
      /\ UNCHANGED <<dataVars, job, erred, pc, localVars, raced, faults, crashes>>
  BY DEF TimePasses
<1>2. TypeOK'
  BY <1>1 DEF Control, TypeOK, dataVars, localVars
<1>3. \A q \in Runs : stale'[q] => stale[q] \/ q = r
  BY <1>1 DEF Control, TypeOK
<1>4. /\ \A q \in Runs : Clean(q)' => Clean(q)
      /\ Clean(r)' => pc[r] \in RunEnds
  BY <1>1 DEF Clean
<1>5. SoleRun' /\ Phases'
  BY <1>1, <1>3, <1>4 DEF Control, SoleRun, Phases, AloneUnlessRaced, Clean, Active, Entering
<1> QED
  BY <1>2, <1>5 DEF Control

\* A run that is alone begins what it has found.
LEMMA DiscoverControl ==
    ASSUME Control, NEW r \in Runs,
           Discover(r) \/ (ListingFails(r) /\ Fault /\ UNCHANGED <<histVars, crashes>>)
    PROVE  Control'
<1>1. PICK kind \in SUBSET Services, after \in {"archiving", "failing"} :
         StartServices(r, kind, after)
  BY BackupAssumption DEF Discover, ListingFails
<1>2. /\ UNCHANGED <<histVars, crashes>>
      /\ faults' \in Nat
  BY DEF Discover, Fault, badVars, Control, TypeOK
<1>3. pc[r] \in {"discover", "archiving"}
  BY DEF Discover, ListingFails
<1>4. Active(r) /\ \A w \in Windows : pc[<<r, w>>] \in Settled
  BY <1>3 DEF Active, Control, Phases
<1> QED
  BY <1>1, <1>2, <1>4, StartControl

\* What the variables other than pc may hold.
Values ==
    /\ {source, archive, blob} \subseteq [Windows -> SUBSET Logs]
    /\ listed \in [Windows -> BOOLEAN]
    /\ job \in [Runs -> JobStatuses]
    /\ {erred, stale} \subseteq [Runs -> BOOLEAN]
    /\ {todo, wrote} \subseteq [ServiceThreads -> SUBSET Logs]
    /\ got \in [UploadThreads -> SUBSET Logs]
    /\ {raced, lapsed} \subseteq SUBSET Runs
    /\ {faults, crashes} \subseteq Nat

\* A step of a service that is being archived.
LEMMA ServiceStep ==
    ASSUME Control, NEW r \in Runs, NEW s \in Services, NEW place \in ServicePlaces,
           Goto(<<r, s>>, place), pc[<<r, s>>] \notin Settled,
           Values', UNCHANGED <<job, histVars>>, \A q \in Runs : stale'[q] => stale[q]
    PROVE  /\ Control'
           /\ pc'[<<r, s>>] = place
           /\ \A q \in Runs : pc'[q] = pc[q]
           /\ \A q \in Runs, x \in Services :
                 ~(q = r /\ x = s) => pc'[<<q, x>>] = pc[<<q, x>>]
           /\ \A q \in Runs, w \in Windows : pc'[<<q, w>>] = pc[<<q, w>>]
<1>1. Places
  BY DEF Control, TypeOK, Places
<1>2. /\ Places'
      /\ pc'[<<r, s>>] = place
      /\ \A q \in Runs : pc'[q] = pc[q]
      /\ \A q \in Runs, x \in Services :
            ~(q = r /\ x = s) => pc'[<<q, x>>] = pc[<<q, x>>]
      /\ \A q \in Runs, w \in Windows : pc'[<<q, w>>] = pc[<<q, w>>]
  BY <1>1, ServiceMoves
<1>3. TypeOK'
  BY <1>2 DEF TypeOK, Values, Places
<1>4. SoleRun' /\ Phases'
  BY <1>2, SideStep
<1> QED
  BY <1>2, <1>3, <1>4 DEF Control

\* A step of a collection that is being uploaded.
LEMMA UploadStep ==
    ASSUME Control, NEW r \in Runs, NEW v \in Windows, NEW place \in UploadPlaces,
           Goto(<<r, v>>, place), pc[<<r, v>>] \notin Settled,
           Values', UNCHANGED <<job, histVars>>, \A q \in Runs : stale'[q] => stale[q]
    PROVE  /\ Control'
           /\ pc'[<<r, v>>] = place
           /\ \A q \in Runs : pc'[q] = pc[q]
           /\ \A q \in Runs, s \in Services : pc'[<<q, s>>] = pc[<<q, s>>]
           /\ \A q \in Runs, w \in Windows :
                 ~(q = r /\ w = v) => pc'[<<q, w>>] = pc[<<q, w>>]
<1>1. Places
  BY DEF Control, TypeOK, Places
<1>2. /\ Places'
      /\ pc'[<<r, v>>] = place
      /\ \A q \in Runs : pc'[q] = pc[q]
      /\ \A q \in Runs, s \in Services : pc'[<<q, s>>] = pc[<<q, s>>]
      /\ \A q \in Runs, w \in Windows :
            ~(q = r /\ w = v) => pc'[<<q, w>>] = pc[<<q, w>>]
  BY <1>1, UploadMoves
<1>3. TypeOK'
  BY <1>2 DEF TypeOK, Values, Places
<1>4. SoleRun' /\ Phases'
  BY <1>2, SideStep
<1> QED
  BY <1>2, <1>3, <1>4 DEF Control

-----------------------------------------------------------------------------
(* Data.                                                                   *)

\* Threads that stay where they are, give up or end leave the data in order.
LEMMA DataKept ==
    ASSUME Data, UNCHANGED <<dataVars, todo, got>>,
           \A r \in Runs : NotBegun(r)' => NotBegun(r),
           \A r \in Runs, s \in Services :
              pc'[<<r, s>>] \in Settled \cup {"markFailed", pc[<<r, s>>]},
           \A r \in Runs, w \in Windows :
              pc'[<<r, w>>] \in Settled \cup {pc[<<r, w>>]}
    PROVE  Data'
<1> USE DEF Data, dataVars
<1>1. Untouched'
  BY DEF Untouched
<1>2. Archiving'
  <2> SUFFICES ASSUME NEW r \in Runs, NEW s \in Services
               PROVE  ArchivingOf(r, s)'
    BY DEF Archiving
  <2>1. CASE pc'[<<r, s>>] = pc[<<r, s>>]
    <3>1. ArchivingOf(r, s)
      BY DEF Archiving
    <3> QED
      BY <2>1, <3>1 DEF ArchivingOf
  <2>2. CASE pc'[<<r, s>>] \in Settled \cup {"markFailed"}
    BY <2>2 DEF ArchivingOf, Settled
  <2> QED
    BY <2>1, <2>2
<1>3. Uploading'
  <2> SUFFICES ASSUME NEW r \in Runs, NEW w \in Windows
               PROVE  UploadingOf(r, w)'
    BY DEF Uploading
  <2>1. CASE pc'[<<r, w>>] = pc[<<r, w>>]
    <3>1. UploadingOf(r, w)
      BY DEF Uploading
    <3> QED
      BY <2>1, <3>1 DEF UploadingOf
  <2>2. CASE pc'[<<r, w>>] \in Settled
    BY <2>2 DEF UploadingOf, Settled
  <2> QED
    BY <2>1, <2>2
<1>4. BlobCovers' /\ NoLogLost'
  BY DEF BlobCovers, NoLogLost
<1> QED
  BY <1>1, <1>2, <1>3, <1>4

\* The steps of a run other than listing and beginning.
LEMMA RunData ==
    ASSUME Control, Data, NEW r \in Runs,
           \/ ReleaseStale(r) \/ CheckActive(r) \/ CreateJob(r)
           \/ CompleteJob(r) \/ FailJob(r) \/ JobCallFails(r)
    PROVE  Data'
<1>1. PICK place \in RunPlaces :
         Goto(r, place) /\ (NotBegun(r) \/ place = "ended")
  <2>1. CASE ReleaseStale(r)
    BY <2>1 DEF ReleaseStale, EnterCheck, NotBegun, RunPlaces
  <2>2. CASE CheckActive(r)
    BY <2>2 DEF CheckActive, NotBegun, RunPlaces, RunEnds
  <2>3. CASE CreateJob(r)
    BY <2>3 DEF CreateJob, NotBegun, RunPlaces
  <2>4. CASE CompleteJob(r) \/ FailJob(r)
    BY <2>4 DEF CompleteJob, FailJob, RunPlaces, RunEnds
  <2>5. CASE JobCallFails(r)
    BY <2>5 DEF JobCallFails, EnterCheck, NotBegun, RunPlaces, RunEnds
  <2> QED
    BY <2>1, <2>2, <2>3, <2>4, <2>5
<1>2. Places
  BY DEF Control, TypeOK, Places
<1>3. /\ pc'[r] = place
      /\ \A q \in Runs : q # r => pc'[q] = pc[q]
      /\ \A q \in Runs, s \in Services : pc'[<<q, s>>] = pc[<<q, s>>]
      /\ \A q \in Runs, w \in Windows : pc'[<<q, w>>] = pc[<<q, w>>]
  BY <1>1, <1>2, RunMoves
<1>4. UNCHANGED <<dataVars, todo, got>>
  BY DEF ReleaseStale, CheckActive, CreateJob, CompleteJob, FailJob, JobCallFails, localVars
<1>5. \A q \in Runs : NotBegun(q)' => NotBegun(q)
  BY <1>1, <1>3 DEF NotBegun
<1> QED
  BY <1>3, <1>4, <1>5, DataKept

LEMMA CrashData ==
    ASSUME Control, Data, NEW r \in Runs, Crash(r)
    PROVE  Data'
<1>1. Places
  BY DEF Control, TypeOK, Places
<1>2. UNCHANGED <<dataVars, todo, got>>
  BY DEF Crash, localVars
<1> QED
  BY <1>1, <1>2, CrashMoves, DataKept DEF NotBegun, Settled

\* Nothing has happened to the window of the run that begins.
LEMMA DiscoverData ==
    ASSUME Control, Data, NEW r \in Runs, Discover(r) \/ ListingFails(r)
    PROVE  Data'
<1>1. PICK kind \in SUBSET Services, after \in {"archiving", "failing"} :
         /\ StartServices(r, kind, after)
         /\ pc[r] = "discover" \/ kind = {}
  BY BackupAssumption DEF Discover, ListingFails
<1>2. Places /\ after \in RunPlaces
  BY DEF Control, TypeOK, Places, RunPlaces
<1>3. /\ pc'[r] = after
      /\ \A q \in Runs : q # r => pc'[q] = pc[q]
      /\ \A q \in Runs, s \in Services :
            pc'[<<q, s>>] # pc[<<q, s>>] => q = r /\ pc'[<<q, s>>] = "open" /\ s \in kind
      /\ \A q \in Runs, w \in Windows : pc'[<<q, w>>] = pc[<<q, w>>]
  BY <1>1, <1>2, StartMoves
<1>4. UNCHANGED <<dataVars, todo, got>>
  BY <1>1 DEF StartServices, localVars
<1>5. \A q \in Runs : NotBegun(q)' => NotBegun(q)
  BY <1>3 DEF NotBegun
<1>6. Untouched' /\ Uploading' /\ BlobCovers' /\ NoLogLost'
  BY <1>3, <1>4, <1>5
  DEF Data, Untouched, Uploading, UploadingOf, BlobCovers, NoLogLost, dataVars
<1>7. Archiving'
  <2> SUFFICES ASSUME NEW q \in Runs, NEW s \in Services
               PROVE  ArchivingOf(q, s)'
    BY DEF Archiving
  <2>1. CASE pc'[<<q, s>>] = pc[<<q, s>>]
    BY <2>1, <1>4 DEF Data, Archiving, ArchivingOf, dataVars
  <2>2. CASE pc'[<<q, s>>] # pc[<<q, s>>]
    <3>1. q = r /\ pc'[<<q, s>>] = "open" /\ NotBegun(r)
      BY <2>2, <1>1, <1>3 DEF NotBegun
    <3>2. blob[WindowOf[r]] = {} /\ source[WindowOf[r]] = Logs
      BY <3>1 DEF Data, Untouched
    <3> QED
      BY <3>1, <3>2, <1>4 DEF ArchivingOf, LogsOf, Logs, dataVars
  <2> QED
    BY <2>1, <2>2
<1> QED
  BY <1>6, <1>7 DEF Data

\* A collection that exists is of a window whose run has begun.
LEMMA ListData ==
    ASSUME Control, Data, NEW r \in Runs, ListCollections(r)
    PROVE  Data'
<1>1. Places
  BY DEF Control, TypeOK, Places
<1>2. /\ pc'[r] = "uploading"
      /\ \A q \in Runs : q # r => pc'[q] = pc[q]
      /\ \A q \in Runs, s \in Services : pc'[<<q, s>>] = pc[<<q, s>>]
      /\ \A q \in Runs, w \in Windows :
            pc'[<<q, w>>] # pc[<<q, w>>] => pc'[<<q, w>>] = "read" /\ listed[w]
  BY <1>1, ListMoves
<1>3. UNCHANGED <<dataVars, todo, got>>
  BY DEF ListCollections, localVars
<1>4. \A q \in Runs : NotBegun(q)' => NotBegun(q)
  BY <1>2 DEF NotBegun
<1>5. \A q \in Runs, w \in Windows : listed[w] /\ WindowOf[q] = w => ~NotBegun(q)
  BY DEF Data, Untouched
<1>6. Untouched' /\ Archiving' /\ BlobCovers' /\ NoLogLost'
  BY <1>2, <1>3, <1>4
  DEF Data, Untouched, Archiving, ArchivingOf, BlobCovers, NoLogLost, dataVars
<1>7. Uploading'
  <2> SUFFICES ASSUME NEW q \in Runs, NEW w \in Windows
               PROVE  UploadingOf(q, w)'
    BY DEF Uploading
  <2>1. CASE pc'[<<q, w>>] = pc[<<q, w>>]
    <3>1. UploadingOf(q, w)
      BY DEF Data, Uploading
    <3> QED
      BY <2>1, <3>1, <1>3, <1>4 DEF UploadingOf, dataVars
  <2>2. CASE pc'[<<q, w>>] = "read" /\ listed[w]
    <3>1. \A p \in Runs : WindowOf[p] = w => ~NotBegun(p)'
      BY <2>2, <1>4, <1>5
    <3> QED
      BY <2>2, <3>1 DEF UploadingOf
  <2> QED
    BY <2>1, <2>2, <1>2
<1> QED
  BY <1>6, <1>7 DEF Data

\* A service that gives up, or whose logs are counted as failed.
LEMMA ServiceQuits ==
    ASSUME Control, NEW r \in Runs, NEW s \in Services,
           MarkFailed(<<r, s>>) \/ StreamFails(<<r, s>>) \/ CallFails(<<r, s>>),
           UNCHANGED histVars, {faults, crashes}' \subseteq Nat
    PROVE  Control' /\ (Data => Data')
<1>1. PICK place \in {"markFailed", "done"} : Goto(<<r, s>>, place)
  BY DEF MarkFailed, StreamFails, CallFails
<1>2. pc[<<r, s>>] \notin Settled
  BY DEF MarkFailed, StreamFails, CallFails, Settled
<1>3. UNCHANGED <<dataVars, job, stale, localVars>>
  BY DEF MarkFailed, StreamFails, CallFails, jobVars
<1>4. erred' \in [Runs -> BOOLEAN]
  BY DEF MarkFailed, StreamFails, CallFails, jobVars, Control, TypeOK
<1>5. Values'
  BY <1>3, <1>4 DEF Values, Control, TypeOK, dataVars, localVars, histVars
<1>6. /\ Control'
      /\ pc'[<<r, s>>] = place
      /\ \A q \in Runs : pc'[q] = pc[q]
      /\ \A q \in Runs, x \in Services :
            ~(q = r /\ x = s) => pc'[<<q, x>>] = pc[<<q, x>>]
      /\ \A q \in Runs, w \in Windows : pc'[<<q, w>>] = pc[<<q, w>>]
  BY <1>1, <1>2, <1>3, <1>5, ServiceStep DEF ServicePlaces
<1> SUFFICES ASSUME Data PROVE Data'
  BY <1>6
<1> QED
  BY <1>1, <1>3, <1>6, DataKept DEF NotBegun, Settled, localVars

\* An upload that gives up.
LEMMA UploadQuits ==
    ASSUME Control, NEW r \in Runs, NEW v \in Windows,
           UploadFails(<<r, v>>) \/ CallFails(<<r, v>>),
           UNCHANGED histVars, {faults, crashes}' \subseteq Nat
    PROVE  Control' /\ (Data => Data')
<1>1. pc[<<r, v>>] \in UploadPlaces
  BY DEF Control, TypeOK, UploadThreads
<1>2. Goto(<<r, v>>, "done") /\ pc[<<r, v>>] \notin Settled
  BY <1>1 DEF UploadFails, CallFails, Settled, UploadPlaces
<1>3. UNCHANGED <<dataVars, job, stale, localVars>>
  BY DEF UploadFails, CallFails, jobVars
<1>4. erred' \in [Runs -> BOOLEAN]
  BY DEF UploadFails, CallFails, jobVars, Control, TypeOK
<1>5. Values'
  BY <1>3, <1>4 DEF Values, Control, TypeOK, dataVars, localVars, histVars
<1>6. /\ Control'
      /\ pc'[<<r, v>>] = "done"
      /\ \A q \in Runs : pc'[q] = pc[q]
      /\ \A q \in Runs, s \in Services : pc'[<<q, s>>] = pc[<<q, s>>]
      /\ \A q \in Runs, w \in Windows :
            ~(q = r /\ w = v) => pc'[<<q, w>>] = pc[<<q, w>>]
  BY <1>2, <1>3, <1>5, UploadStep DEF UploadPlaces
<1> SUFFICES ASSUME Data PROVE Data'
  BY <1>6
<1> QED
  BY <1>3, <1>6, DataKept DEF NotBegun, Settled, localVars

\* Every log is of one service.
LEMMA LogsSplit ==
    /\ \A log \in Logs : \E x \in Services : log \in LogsOf(x)
    /\ \A x, y \in Services : x # y => LogsOf(x) \cap LogsOf(y) = {}
    /\ \A x \in Services : LogsOf(x) \subseteq Logs
BY DEF Logs, LogsOf

\* The archiving of a service may move its own logs as long as they are in the
\* source or the archive: no other thread looks at them.
LEMMA ServiceData ==
    ASSUME Control, Control', Calm, Data, OneRunAWindow, NEW r \in Runs, NEW s \in Services,
           pc[<<r, s>>] \in {"open", "stream", "delete", "discard"},
           \A q \in Runs : pc'[q] = pc[q],
           \A q \in Runs, x \in Services :
              ~(q = r /\ x = s) => pc'[<<q, x>>] = pc[<<q, x>>],
           \A q \in Runs, w \in Windows : pc'[<<q, w>>] = pc[<<q, w>>],
           UNCHANGED blob,
           \A w \in Windows \ {WindowOf[r]} :
              /\ source'[w] = source[w]
              /\ archive'[w] = archive[w]
              /\ listed'[w] = listed[w],
           \A x \in Services \ {s} :
              /\ LogsOf(x) \cap source[WindowOf[r]] \subseteq source'[WindowOf[r]]
              /\ LogsOf(x) \cap archive[WindowOf[r]] \subseteq archive'[WindowOf[r]]
              /\ todo'[<<r, x>>] = todo[<<r, x>>],
           LogsOf(s) \subseteq source'[WindowOf[r]] \cup archive'[WindowOf[r]],
           ArchivingOf(r, s)'
    PROVE  Data'
<1> DEFINE v == WindowOf[r]
<1>1. v \in Windows /\ blob[v] = {} /\ ~NotBegun(r)
  <2>1. pc[r] \in {"archiving", "failing"}
    BY ServiceAlone DEF Settled
  <2>2. ArchivingOf(r, s)
    BY DEF Data, Archiving
  <2> QED
    BY <2>1, <2>2, BackupAssumption DEF ArchivingOf, NotBegun
<1>2. /\ \A q \in Runs, w \in Windows : pc'[<<q, w>>] \in Settled
      /\ \A q \in Runs, x \in Services : q # r => pc'[<<q, x>>] \in Settled
  <2>1. pc[<<r, s>>] \notin Settled
    BY DEF Settled
  <2>2. /\ \A q \in Runs, w \in Windows : pc[<<q, w>>] \in Settled
        /\ \A q \in Runs, x \in Services : q # r => pc[<<q, x>>] \in Settled
    BY <2>1, ServiceAlone
  <2> QED
    BY <2>2
<1>3. Untouched'
  <2>1. \A q \in Runs : NotBegun(q)' => NotBegun(q) /\ WindowOf[q] \in Windows \ {v}
    BY <1>1, BackupAssumption DEF NotBegun, OneRunAWindow
  <2> QED
    BY <2>1 DEF Data, Untouched
<1>4. Archiving'
  <2> SUFFICES ASSUME NEW q \in Runs, NEW x \in Services
               PROVE  ArchivingOf(q, x)'
    BY DEF Archiving
  <2>1. CASE q # r
    BY <2>1, <1>2 DEF ArchivingOf, Settled
  <2>2. CASE q = r /\ x # s
    <3>1. ArchivingOf(r, x) /\ pc'[<<r, x>>] = pc[<<r, x>>]
      BY <2>2 DEF Data, Archiving
    <3>2. /\ LogsOf(x) \subseteq source[v] => LogsOf(x) \subseteq source'[v]
          /\ LogsOf(x) \subseteq archive[v] => LogsOf(x) \subseteq archive'[v]
          /\ LogsOf(x) \cap archive[v] \subseteq archive'[v]
          /\ todo'[<<r, x>>] = todo[<<r, x>>]
      BY <2>2
    <3> QED
      BY <2>2, <3>1, <3>2, <1>1 DEF ArchivingOf
  <2> QED
    BY <2>1, <2>2
<1>5. Uploading'
  BY <1>2 DEF Uploading, UploadingOf, Settled
<1>6. BlobCovers'
  BY <1>1 DEF Data, BlobCovers
<1>7. NoLogLost'
  <2> SUFFICES ASSUME NEW w \in Windows, NEW log \in Logs
               PROVE  log \in source'[w] \cup archive'[w] \cup blob'[w]
    BY DEF NoLogLost
  <2>1. log \in source[w] \cup archive[w] \cup blob[w]
    BY DEF Data, NoLogLost
  <2>2. CASE w # v
    BY <2>1, <2>2
  <2>3. CASE w = v
    <3>1. PICK x \in Services : log \in LogsOf(x)
      BY LogsSplit
    <3>2. CASE x = s
      BY <2>3, <3>1, <3>2
    <3>3. CASE x # s
      BY <2>1, <2>3, <3>1, <3>3, <1>1
    <3> QED
      BY <3>2, <3>3
  <2> QED
    BY <2>2, <2>3
<1> QED
  BY <1>3, <1>4, <1>5, <1>6, <1>7 DEF Data

\* The cursor returns all that is in the source.
LEMMA OpenKeeps ==
    ASSUME Control, NEW r \in Runs, NEW s \in Services,
           OpenCursor(<<r, s>>)
    PROVE  Control' /\ (Calm /\ Data /\ OneRunAWindow => Data')
<1> DEFINE t == <<r, s>>
           v == WindowOf[r]
<1>1. /\ pc[t] = "open" /\ Goto(t, "stream")
      /\ todo' = [todo EXCEPT ![t] = LogsOf(s) \cap source[v]]
      /\ UNCHANGED <<dataVars, jobVars, wrote, got, badVars>>
  BY DEF OpenCursor, Window
<1>2. t \in ServiceThreads /\ v \in Windows /\ LogsOf(s) \subseteq Logs
  BY BackupAssumption, LogsSplit DEF ServiceThreads
<1>3. Values'
  BY <1>1, <1>2 DEF Values, Control, TypeOK, dataVars, jobVars, badVars, histVars
<1>4. /\ Control'
      /\ pc'[t] = "stream"
      /\ \A q \in Runs : pc'[q] = pc[q]
      /\ \A q \in Runs, x \in Services : ~(q = r /\ x = s) => pc'[<<q, x>>] = pc[<<q, x>>]
      /\ \A q \in Runs, w \in Windows : pc'[<<q, w>>] = pc[<<q, w>>]
  BY <1>1, <1>3, ServiceStep DEF ServicePlaces, Settled, jobVars, badVars
<1> SUFFICES ASSUME Calm, Data, OneRunAWindow PROVE Data'
  BY <1>4
<1>5. /\ todo'[t] = LogsOf(s) \cap source[v]
      /\ \A x \in Services \ {s} : todo'[<<r, x>>] = todo[<<r, x>>]
  BY <1>1, <1>2 DEF Control, TypeOK, ServiceThreads
<1>6. blob[v] = {} /\ LogsOf(s) \subseteq source[v]
  BY <1>1 DEF Data, Archiving, ArchivingOf
<1>7. ArchivingOf(r, s)'
  BY <1>1, <1>4, <1>5, <1>6 DEF ArchivingOf, dataVars
<1> QED
  BY <1>1, <1>4, <1>5, <1>6, <1>7, ServiceData DEF dataVars

\* A log of the cursor is now in the archive.
LEMMA BatchKeeps ==
    ASSUME Control, NEW r \in Runs, NEW s \in Services,
           NEW log \in todo[<<r, s>>], ArchiveBatch(<<r, s>>, log)
    PROVE  Control' /\ (Calm /\ Data /\ OneRunAWindow => Data')
<1> DEFINE t == <<r, s>>
           v == WindowOf[r]
<1>1. /\ pc[t] = "stream" /\ pc' = pc
      /\ archive' = [archive EXCEPT ![v] = @ \cup {log}]
      /\ listed' = [listed EXCEPT ![v] = TRUE]
      /\ wrote' = [wrote EXCEPT ![t] = @ \cup {log}]
      /\ todo' = [todo EXCEPT ![t] = @ \ {log}]
      /\ stale' = [stale EXCEPT ![r] = FALSE]
      /\ UNCHANGED <<source, blob, job, erred, got, badVars>>
  BY DEF ArchiveBatch, Window, Heartbeat
<1>2. t \in ServiceThreads /\ v \in Windows /\ log \in Logs
  BY BackupAssumption DEF ServiceThreads, Control, TypeOK
<1>3. Values'
  BY <1>1, <1>2 DEF Values, Control, TypeOK, badVars, histVars
<1>4. Control'
  <2>1. TypeOK'
    BY <1>1, <1>3 DEF Control, TypeOK, Values
  <2>2. \A q \in Runs : stale'[q] => stale[q]
    BY <1>1 DEF Control, TypeOK
  <2> QED
    BY <1>1, <2>1, <2>2, SideStep DEF Control, badVars
<1> SUFFICES ASSUME Calm, Data, OneRunAWindow PROVE Data'
  BY <1>4
<1>5. /\ todo'[t] = todo[t] \ {log}
      /\ \A x \in Services \ {s} : todo'[<<r, x>>] = todo[<<r, x>>]
      /\ archive'[v] = archive[v] \cup {log}
      /\ \A w \in Windows \ {v} : archive'[w] = archive[w] /\ listed'[w] = listed[w]
  BY <1>1, <1>2 DEF Control, TypeOK, ServiceThreads
<1>6. ArchivingOf(r, s)
  BY DEF Data, Archiving
<1>7. ArchivingOf(r, s)'
  BY <1>1, <1>5, <1>6 DEF ArchivingOf
<1>8. LogsOf(s) \subseteq source'[v] \cup archive'[v]
  BY <1>1, <1>6 DEF ArchivingOf
<1> QED
  BY <1>1, <1>4, <1>5, <1>7, <1>8, ServiceData

\* When the cursor is empty all that it returned is in the archive.
LEMMA EndKeeps ==
    ASSUME Control, NEW r \in Runs, NEW s \in Services,
           EndStream(<<r, s>>)
    PROVE  Control' /\ (Calm /\ Data /\ OneRunAWindow => Data')
<1> DEFINE t == <<r, s>>
           v == WindowOf[r]
<1>1. /\ pc[t] = "stream" /\ todo[t] = {}
      /\ UNCHANGED <<dataVars, jobVars, localVars, badVars>>
  BY DEF EndStream
<1>2. PICK place \in {"done", "delete"} : Goto(t, place)
  BY DEF EndStream
<1>3. Values'
  BY <1>1 DEF Values, Control, TypeOK, dataVars, jobVars, localVars, badVars, histVars
<1>4. /\ Control'
      /\ pc'[t] = place
      /\ \A q \in Runs : pc'[q] = pc[q]
      /\ \A q \in Runs, x \in Services : ~(q = r /\ x = s) => pc'[<<q, x>>] = pc[<<q, x>>]
      /\ \A q \in Runs, w \in Windows : pc'[<<q, w>>] = pc[<<q, w>>]
  BY <1>1, <1>2, <1>3, ServiceStep DEF ServicePlaces, Settled, jobVars, badVars
<1> SUFFICES ASSUME Calm, Data, OneRunAWindow PROVE Data'
  BY <1>4
<1>5. ArchivingOf(r, s)
  BY DEF Data, Archiving
<1>6. ArchivingOf(r, s)'
  BY <1>1, <1>4, <1>5 DEF ArchivingOf, dataVars
<1>7. LogsOf(s) \subseteq source[v] \cup archive[v]
  BY <1>1, <1>5 DEF ArchivingOf
<1> QED
  BY <1>1, <1>4, <1>6, <1>7, ServiceData DEF dataVars, localVars

\* What is deleted from the source is in the archive.
LEMMA DeleteKeeps ==
    ASSUME Control, NEW r \in Runs, NEW s \in Services,
           DeleteSource(<<r, s>>)
    PROVE  Control' /\ (Calm /\ Data /\ OneRunAWindow => Data')
<1> DEFINE t == <<r, s>>
           v == WindowOf[r]
<1>1. /\ pc[t] = "delete" /\ Goto(t, "done")
      /\ source' = [source EXCEPT ![v] = @ \ LogsOf(s)]
      /\ stale' = [stale EXCEPT ![r] = FALSE]
      /\ UNCHANGED <<archive, listed, blob, job, erred, localVars, badVars>>
  BY DEF DeleteSource, Window, Heartbeat
<1>2. v \in Windows
  BY BackupAssumption
<1>3. Values' /\ \A q \in Runs : stale'[q] => stale[q]
  BY <1>1, <1>2 DEF Values, Control, TypeOK, localVars, badVars, histVars
<1>4. /\ Control'
      /\ pc'[t] = "done"
      /\ \A q \in Runs : pc'[q] = pc[q]
      /\ \A q \in Runs, x \in Services : ~(q = r /\ x = s) => pc'[<<q, x>>] = pc[<<q, x>>]
      /\ \A q \in Runs, w \in Windows : pc'[<<q, w>>] = pc[<<q, w>>]
  BY <1>1, <1>3, ServiceStep DEF ServicePlaces, Settled, badVars
<1> SUFFICES ASSUME Calm, Data, OneRunAWindow PROVE Data'
  BY <1>4
<1>5. /\ source'[v] = source[v] \ LogsOf(s)
      /\ \A w \in Windows \ {v} : source'[w] = source[w]
  BY <1>1, <1>2 DEF Control, TypeOK
<1>6. \A x \in Services \ {s} : LogsOf(x) \cap source[v] \subseteq source'[v]
  BY <1>5, LogsSplit
<1>7. LogsOf(s) \subseteq archive[v]
  BY <1>1 DEF Data, Archiving, ArchivingOf
<1>8. ArchivingOf(r, s)'
  BY <1>4 DEF ArchivingOf
<1> QED
  BY <1>1, <1>4, <1>5, <1>6, <1>7, <1>8, ServiceData DEF localVars

\* What is discarded from the archive is in the source.
LEMMA DiscardKeeps ==
    ASSUME Control, NEW r \in Runs, NEW s \in Services,
           DiscardPartial(<<r, s>>)
    PROVE  Control' /\ (Calm /\ Data /\ OneRunAWindow => Data')
<1> DEFINE t == <<r, s>>
           v == WindowOf[r]
<1>1. /\ pc[t] = "discard" /\ Goto(t, "markFailed")
      /\ archive' = [archive EXCEPT ![v] = @ \ LogsOf(s)]
      /\ UNCHANGED <<source, listed, blob, jobVars, localVars, badVars>>
  BY DEF DiscardPartial, Window
<1>2. v \in Windows
  BY BackupAssumption
<1>3. Values' /\ UNCHANGED <<job, stale, histVars>>
  BY <1>1, <1>2 DEF Values, Control, TypeOK, jobVars, localVars, badVars, histVars
<1>4. /\ Control'
      /\ pc'[t] = "markFailed"
      /\ \A q \in Runs : pc'[q] = pc[q]
      /\ \A q \in Runs, x \in Services : ~(q = r /\ x = s) => pc'[<<q, x>>] = pc[<<q, x>>]
      /\ \A q \in Runs, w \in Windows : pc'[<<q, w>>] = pc[<<q, w>>]
  BY <1>1, <1>3, ServiceStep DEF ServicePlaces, Settled
<1> SUFFICES ASSUME Calm, Data, OneRunAWindow PROVE Data'
  BY <1>4
<1>5. /\ archive'[v] = archive[v] \ LogsOf(s)
      /\ \A w \in Windows \ {v} : archive'[w] = archive[w]
  BY <1>1, <1>2 DEF Control, TypeOK
<1>6. \A x \in Services \ {s} : LogsOf(x) \cap archive[v] \subseteq archive'[v]
  BY <1>5, LogsSplit
<1>7. LogsOf(s) \subseteq source[v]
  BY <1>1 DEF Data, Archiving, ArchivingOf
<1>8. ArchivingOf(r, s)'
  BY <1>4 DEF ArchivingOf
<1> QED
  BY <1>1, <1>4, <1>5, <1>6, <1>7, <1>8, ServiceData DEF localVars

\* Whatever a failed insert wrote, the logs are still in the source.
LEMMA InsertFailsKeeps ==
    ASSUME Control, NEW r \in Runs, NEW s \in Services,
           InsertFails(<<r, s>>), UNCHANGED histVars, {faults, crashes}' \subseteq Nat
    PROVE  Control' /\ (Calm /\ Data /\ OneRunAWindow => Data')
<1> DEFINE t == <<r, s>>
           v == WindowOf[r]
<1>1. /\ pc[t] = "stream"
      /\ UNCHANGED <<source, blob, jobVars, localVars>>
  BY DEF InsertFails
<1>2. PICK place \in {"markFailed", "discard"} : Goto(t, place)
  BY DEF InsertFails
<1>3. t \in ServiceThreads /\ v \in Windows
  BY BackupAssumption DEF ServiceThreads
<1>4. /\ archive' \in [Windows -> SUBSET Logs] /\ listed' \in [Windows -> BOOLEAN]
      /\ archive[v] \subseteq archive'[v]
      /\ \A w \in Windows \ {v} : archive'[w] = archive[w] /\ listed'[w] = listed[w]
  <2>1. PICK log \in todo[t], written \in BOOLEAN :
           /\ written  => /\ archive' = [archive EXCEPT ![v] = @ \cup {log}]
                          /\ listed' = [listed EXCEPT ![v] = TRUE]
           /\ ~written => UNCHANGED <<archive, listed>>
    BY DEF InsertFails, Window
  <2>2. /\ log \in Logs
        /\ archive \in [Windows -> SUBSET Logs] /\ listed \in [Windows -> BOOLEAN]
    BY <1>3 DEF Control, TypeOK
  <2>3. CASE written
    <3>1. /\ archive' = [archive EXCEPT ![v] = @ \cup {log}]
          /\ listed' = [listed EXCEPT ![v] = TRUE]
      BY <2>1, <2>3
    <3> QED
      BY <3>1, <2>2, <1>3
  <2>4. CASE ~written
    BY <2>1, <2>2, <2>4
  <2> QED
    BY <2>3, <2>4
<1>5. Values' /\ UNCHANGED <<job, stale, histVars>>
  BY <1>1, <1>4 DEF Values, Control, TypeOK, jobVars, localVars, histVars
<1>6. /\ Control'
      /\ pc'[t] = place
      /\ \A q \in Runs : pc'[q] = pc[q]
      /\ \A q \in Runs, x \in Services : ~(q = r /\ x = s) => pc'[<<q, x>>] = pc[<<q, x>>]
      /\ \A q \in Runs, w \in Windows : pc'[<<q, w>>] = pc[<<q, w>>]
  BY <1>1, <1>2, <1>5, ServiceStep DEF ServicePlaces, Settled
<1> SUFFICES ASSUME Calm, Data, OneRunAWindow PROVE Data'
  BY <1>6
<1>7. blob[v] = {} /\ LogsOf(s) \subseteq source[v]
  BY <1>1 DEF Data, Archiving, ArchivingOf
<1>8. ArchivingOf(r, s)'
  BY <1>1, <1>6, <1>7 DEF ArchivingOf
<1> QED
  BY <1>1, <1>4, <1>6, <1>7, <1>8, ServiceData DEF localVars

\* The upload of a window may move its logs from the archive to the blob: no
\* other thread looks at them.
LEMMA UploadData ==
    ASSUME Control, Calm, Data, NEW r \in Runs, NEW v \in Windows,
           pc[<<r, v>>] \notin Settled,
           \A q \in Runs : pc'[q] = pc[q],
           \A q \in Runs, s \in Services : pc'[<<q, s>>] = pc[<<q, s>>],
           \A q \in Runs, w \in Windows :
              ~(q = r /\ w = v) =>
                 pc'[<<q, w>>] = pc[<<q, w>>] /\ got'[<<q, w>>] = got[<<q, w>>],
           UNCHANGED source,
           \A w \in Windows \ {v} :
              /\ archive'[w] = archive[w]
              /\ listed'[w] = listed[w]
              /\ blob'[w] = blob[w],
           archive'[v] = {} \/ blob'[v] \subseteq archive'[v],
           archive[v] \cup blob[v] \subseteq archive'[v] \cup blob'[v],
           pc'[<<r, v>>] = "store" => got'[<<r, v>>] = archive'[v] /\ archive'[v] # {},
           pc'[<<r, v>>] = "drop" => archive'[v] \subseteq blob'[v]
    PROVE  Data'
<1>1. \A q \in Runs : WindowOf[q] = v => ~NotBegun(q)
  <2>1. UploadingOf(r, v)
    BY DEF Data, Uploading
  <2> QED
    BY <2>1 DEF UploadingOf
<1>2. \A q \in Runs, s \in Services : pc'[<<q, s>>] \in Settled
  <2>1. \A q \in Runs, s \in Services : pc[<<q, s>>] \in Settled
    BY UploadAlone
  <2> QED
    BY <2>1
<1>3. \A q \in Runs, w \in Windows : pc[<<q, w>>] \notin Settled => q = r
  BY UploadAlone
<1>4. Untouched'
  <2>1. \A q \in Runs : NotBegun(q)' => NotBegun(q) /\ WindowOf[q] \in Windows \ {v}
    BY <1>1, BackupAssumption DEF NotBegun
  <2> QED
    BY <2>1 DEF Data, Untouched
<1>5. Archiving'
  BY <1>2 DEF Archiving, ArchivingOf, Settled
<1>6. Uploading'
  <2> SUFFICES ASSUME NEW q \in Runs, NEW w \in Windows
               PROVE  UploadingOf(q, w)'
    BY DEF Uploading
  <2>1. \A p \in Runs : NotBegun(p)' <=> NotBegun(p)
    BY DEF NotBegun
  <2>2. CASE q = r /\ w = v
    BY <2>1, <2>2, <1>1 DEF UploadingOf
  <2>3. CASE w = v /\ q # r
    <3>1. pc'[<<q, w>>] \in Settled
      BY <2>3, <1>3
    <3> QED
      BY <3>1 DEF UploadingOf, Settled
  <2>4. CASE w # v
    <3>1. UploadingOf(q, w)
      BY DEF Data, Uploading
    <3>2. /\ pc'[<<q, w>>] = pc[<<q, w>>] /\ got'[<<q, w>>] = got[<<q, w>>]
          /\ archive'[w] = archive[w] /\ blob'[w] = blob[w]
      BY <2>4
    <3> QED
      BY <3>1, <3>2, <2>1 DEF UploadingOf
  <2> QED
    BY <2>2, <2>3, <2>4
<1>7. BlobCovers'
  <2> SUFFICES ASSUME NEW w \in Windows
               PROVE  archive'[w] = {} \/ blob'[w] \subseteq archive'[w]
    BY DEF BlobCovers
  <2> QED
    BY DEF Data, BlobCovers
<1>8. NoLogLost'
  <2> SUFFICES ASSUME NEW w \in Windows, NEW log \in Logs
               PROVE  log \in source'[w] \cup archive'[w] \cup blob'[w]
    BY DEF NoLogLost
  <2>1. log \in source[w] \cup archive[w] \cup blob[w]
    BY DEF Data, NoLogLost
  <2>2. CASE w = v
    BY <2>1, <2>2
  <2>3. CASE w # v
    BY <2>1, <2>3
  <2> QED
    BY <2>2, <2>3
<1> QED
  BY <1>4, <1>5, <1>6, <1>7, <1>8 DEF Data

\* What is to be stored is what is archived; nothing is stored for an empty
\* collection.
LEMMA ReadKeeps ==
    ASSUME Control, NEW r \in Runs, NEW v \in Windows, ReadCollection(<<r, v>>)
    PROVE  Control' /\ (Calm /\ Data => Data')
<1> DEFINE u == <<r, v>>
<1>1. /\ pc[u] = "read"
      /\ got' = [got EXCEPT ![u] = archive[v]]
      /\ UNCHANGED <<dataVars, jobVars, todo, wrote, badVars>>
  BY DEF ReadCollection
<1>2. PICK place \in {"drop", "store"} :
         /\ Goto(u, place)
         /\ place = "drop" <=> archive[v] = {}
  BY DEF ReadCollection
<1>3. u \in UploadThreads
  BY DEF UploadThreads
<1>4. Values' /\ UNCHANGED <<job, stale, histVars>>
  BY <1>1, <1>3 DEF Values, Control, TypeOK, dataVars, jobVars, badVars, histVars
<1>5. pc[u] \notin Settled
  BY <1>1 DEF Settled
<1>6. /\ Control'
      /\ pc'[u] = place
      /\ \A q \in Runs : pc'[q] = pc[q]
      /\ \A q \in Runs, s \in Services : pc'[<<q, s>>] = pc[<<q, s>>]
      /\ \A q \in Runs, w \in Windows : ~(q = r /\ w = v) => pc'[<<q, w>>] = pc[<<q, w>>]
  BY <1>2, <1>4, <1>5, UploadStep DEF UploadPlaces
<1> SUFFICES ASSUME Calm, Data PROVE Data'
  BY <1>6
<1>7. /\ got'[u] = archive[v]
      /\ \A q \in Runs, w \in Windows : ~(q = r /\ w = v) => got'[<<q, w>>] = got[<<q, w>>]
  BY <1>1, <1>3 DEF Control, TypeOK, UploadThreads
<1>8. archive[v] = {} \/ blob[v] \subseteq archive[v]
  BY DEF Data, BlobCovers
<1> QED
  BY <1>1, <1>2, <1>5, <1>6, <1>7, <1>8, UploadData DEF dataVars

\* The blob that is written over held no more than what is stored.
LEMMA StoreKeeps ==
    ASSUME Control, NEW r \in Runs, NEW v \in Windows, StoreBlob(<<r, v>>)
    PROVE  Control' /\ (Calm /\ Data => Data')
<1> DEFINE u == <<r, v>>
<1>1. /\ pc[u] = "store" /\ Goto(u, "drop")
      /\ blob' = [blob EXCEPT ![v] = got[u]]
      /\ UNCHANGED <<source, archive, listed, jobVars, localVars, badVars>>
  BY DEF StoreBlob
<1>2. u \in UploadThreads
  BY DEF UploadThreads
<1>3. Values' /\ UNCHANGED <<job, stale, histVars>>
  BY <1>1, <1>2 DEF Values, Control, TypeOK, jobVars, localVars, badVars, histVars
<1>4. pc[u] \notin Settled
  BY <1>1 DEF Settled
<1>5. /\ Control'
      /\ pc'[u] = "drop"
      /\ \A q \in Runs : pc'[q] = pc[q]
      /\ \A q \in Runs, s \in Services : pc'[<<q, s>>] = pc[<<q, s>>]
      /\ \A q \in Runs, w \in Windows : ~(q = r /\ w = v) => pc'[<<q, w>>] = pc[<<q, w>>]
  BY <1>1, <1>3, <1>4, UploadStep DEF UploadPlaces
<1> SUFFICES ASSUME Calm, Data PROVE Data'
  BY <1>5
<1>6. got[u] = archive[v] /\ blob[v] \subseteq archive[v]
  <2>1. UploadingOf(r, v)
    BY DEF Data, Uploading
  <2> QED
    BY <1>1, <2>1 DEF UploadingOf, Data, BlobCovers
<1>7. /\ blob'[v] = archive[v]
      /\ \A w \in Windows \ {v} : blob'[w] = blob[w]
  BY <1>1, <1>6 DEF Control, TypeOK
<1> QED
  BY <1>1, <1>4, <1>5, <1>6, <1>7, UploadData DEF localVars

\* What is dropped is in the blob.
LEMMA DropKeeps ==
    ASSUME Control, NEW r \in Runs, NEW v \in Windows, DropCollection(<<r, v>>)
    PROVE  Control' /\ (Calm /\ Data => Data')
<1> DEFINE u == <<r, v>>
<1>1. /\ pc[u] = "drop" /\ Goto(u, "done")
      /\ archive' = [archive EXCEPT ![v] = {}]
      /\ listed' = [listed EXCEPT ![v] = FALSE]
      /\ stale' = [stale EXCEPT ![r] = FALSE]
      /\ UNCHANGED <<source, blob, job, erred, localVars, badVars>>
  BY DEF DropCollection, Heartbeat
<1>2. Values' /\ \A q \in Runs : stale'[q] => stale[q]
  BY <1>1 DEF Values, Control, TypeOK, localVars, badVars, histVars
<1>3. pc[u] \notin Settled
  BY <1>1 DEF Settled
<1>4. /\ Control'
      /\ pc'[u] = "done"
      /\ \A q \in Runs : pc'[q] = pc[q]
      /\ \A q \in Runs, s \in Services : pc'[<<q, s>>] = pc[<<q, s>>]
      /\ \A q \in Runs, w \in Windows : ~(q = r /\ w = v) => pc'[<<q, w>>] = pc[<<q, w>>]
  BY <1>1, <1>2, <1>3, UploadStep DEF UploadPlaces, badVars
<1> SUFFICES ASSUME Calm, Data PROVE Data'
  BY <1>4
<1>5. archive[v] \subseteq blob[v]
  <2>1. UploadingOf(r, v)
    BY DEF Data, Uploading
  <2> QED
    BY <1>1, <2>1 DEF UploadingOf
<1>6. /\ archive'[v] = {}
      /\ \A w \in Windows \ {v} : archive'[w] = archive[w] /\ listed'[w] = listed[w]
  BY <1>1 DEF Control, TypeOK
<1> QED
  BY <1>1, <1>3, <1>4, <1>5, <1>6, UploadData DEF localVars

-----------------------------------------------------------------------------
(* The theorems.                                                           *)

LEMMA InitControl == Init => Control
<1> SUFFICES ASSUME Init PROVE Control
  OBVIOUS
<1>1. /\ \A q \in Runs : pc[q] = "idle"
      /\ \A t \in ServiceThreads \cup UploadThreads : pc[t] = "idle"
      /\ pc \in [Threads -> RunPlaces \cup ServicePlaces \cup UploadPlaces]
  BY DEF Init, Threads, RunPlaces
<1>2. TypeOK
  BY <1>1 DEF Init, TypeOK, RunPlaces, ServicePlaces, UploadPlaces, JobStatuses
<1>3. SoleRun
  BY <1>1 DEF Init, SoleRun, AloneUnlessRaced, Active, Entering
<1>4. Phases
  BY <1>1 DEF Phases, Settled, ServiceThreads, UploadThreads
<1> QED
  BY <1>2, <1>3, <1>4 DEF Control

LEMMA InitData == Init => Data
<1> SUFFICES ASSUME Init PROVE Data
  OBVIOUS
<1>1. \A t \in ServiceThreads \cup UploadThreads : pc[t] = "idle"
  BY DEF Init, Threads
<1>2. Archiving /\ Uploading
  BY <1>1 DEF Archiving, ArchivingOf, Uploading, UploadingOf, Settled, ServiceThreads, UploadThreads
<1>3. Untouched /\ BlobCovers /\ NoLogLost
  BY BackupAssumption DEF Init, Untouched, BlobCovers, NoLogLost
<1> QED
  BY <1>2, <1>3 DEF Data

LEMMA NextControl ==
    ASSUME Control, [Next]_vars
    PROVE  Control'
<1>1. Fault /\ UNCHANGED <<histVars, crashes>> =>
         UNCHANGED histVars /\ {faults, crashes}' \subseteq Nat
  BY DEF Fault, Control, TypeOK
<1>2. UNCHANGED badVars => UNCHANGED histVars /\ {faults, crashes}' \subseteq Nat
  BY DEF badVars, Control, TypeOK
<1>3. CASE UNCHANGED vars
  BY <1>3 DEF vars, dataVars, jobVars, localVars, badVars, histVars, Control, TypeOK, SoleRun,
              Phases, AloneUnlessRaced, Clean, Active, Entering
<1>4. ASSUME NEW r \in Runs,
             \/ Run(r)
             \/ ListingFails(r) /\ Fault /\ UNCHANGED <<histVars, crashes>>
             \/ JobCallFails(r) /\ Fault /\ UNCHANGED crashes
      PROVE  Control'
  BY <1>4, ReleaseControl, CheckControl, CreateControl, DiscoverControl, ListControl,
     CompleteControl, JobCallControl DEF Run
<1>5. ASSUME NEW r \in Runs, Crash(r) \/ TimePasses(r)
      PROVE  Control'
  BY <1>5, CrashControl, TimeControl
<1>6. ASSUME NEW r \in Runs, NEW s \in Services,
             \/ ArchiveService(<<r, s>>)
             \/ (InsertFails(<<r, s>>) \/ StreamFails(<<r, s>>) \/ CallFails(<<r, s>>))
                  /\ Fault /\ UNCHANGED <<histVars, crashes>>
      PROVE  Control'
  <2>1. CASE \/ OpenCursor(<<r, s>>) \/ EndStream(<<r, s>>) \/ DeleteSource(<<r, s>>)
             \/ DiscardPartial(<<r, s>>)
    BY <2>1, OpenKeeps, EndKeeps, DeleteKeeps, DiscardKeeps
  <2>2. CASE \E log \in todo[<<r, s>>] : ArchiveBatch(<<r, s>>, log)
    BY <2>2, BatchKeeps
  <2>3. CASE MarkFailed(<<r, s>>)
    <3>1. UNCHANGED badVars
      BY <2>3 DEF MarkFailed
    <3> QED
      BY <2>3, <3>1, <1>2, ServiceQuits
  <2>4. CASE (InsertFails(<<r, s>>) \/ StreamFails(<<r, s>>) \/ CallFails(<<r, s>>))
               /\ Fault /\ UNCHANGED <<histVars, crashes>>
    BY <2>4, <1>1, InsertFailsKeeps, ServiceQuits
  <2> QED
    BY <1>6, <2>1, <2>2, <2>3, <2>4 DEF ArchiveService
<1>7. ASSUME NEW r \in Runs, NEW v \in Windows,
             \/ UploadCollection(<<r, v>>)
             \/ (UploadFails(<<r, v>>) \/ CallFails(<<r, v>>))
                  /\ Fault /\ UNCHANGED <<histVars, crashes>>
      PROVE  Control'
  BY <1>7, <1>1, ReadKeeps, StoreKeeps, DropKeeps, UploadQuits DEF UploadCollection
<1>8. CASE Terminating
  BY <1>3, <1>8 DEF Terminating
<1>9. CASE Next
  <2>1. ASSUME NEW t \in ServiceThreads,
               \/ ArchiveService(t)
               \/ (InsertFails(t) \/ StreamFails(t) \/ CallFails(t))
                    /\ Fault /\ UNCHANGED <<histVars, crashes>>
        PROVE  Control'
    BY <2>1, <1>6 DEF ServiceThreads
  <2>2. ASSUME NEW u \in UploadThreads,
               \/ UploadCollection(u)
               \/ (UploadFails(u) \/ CallFails(u))
                    /\ Fault /\ UNCHANGED <<histVars, crashes>>
        PROVE  Control'
    BY <2>2, <1>7 DEF UploadThreads
  <2> QED
    BY <1>9, <1>4, <1>5, <1>8, <2>1, <2>2 DEF Next
<1> QED
  BY <1>3, <1>9

LEMMA NextData ==
    ASSUME OneRunAWindow, Control, Control', Calm, Data, [Next]_vars
    PROVE  Data'
<1>1. Fault /\ UNCHANGED <<histVars, crashes>> =>
         UNCHANGED histVars /\ {faults, crashes}' \subseteq Nat
  BY DEF Fault, Control, TypeOK
<1>2. UNCHANGED badVars => UNCHANGED histVars /\ {faults, crashes}' \subseteq Nat
  BY DEF badVars, Control, TypeOK
<1>3. CASE UNCHANGED <<dataVars, pc, localVars>>
  BY <1>3, DataKept DEF localVars, NotBegun
<1>4. ASSUME NEW r \in Runs,
             Run(r) \/ ListingFails(r) \/ JobCallFails(r)
      PROVE  Data'
  BY <1>4, RunData, DiscoverData, ListData DEF Run
<1>5. ASSUME NEW r \in Runs, Crash(r) \/ TimePasses(r)
      PROVE  Data'
  BY <1>3, <1>5, CrashData DEF TimePasses
<1>6. ASSUME NEW r \in Runs, NEW s \in Services,
             \/ ArchiveService(<<r, s>>)
             \/ (InsertFails(<<r, s>>) \/ StreamFails(<<r, s>>) \/ CallFails(<<r, s>>))
                  /\ Fault /\ UNCHANGED <<histVars, crashes>>
      PROVE  Data'
  <2>1. CASE \/ OpenCursor(<<r, s>>) \/ EndStream(<<r, s>>) \/ DeleteSource(<<r, s>>)
             \/ DiscardPartial(<<r, s>>)
    BY <2>1, OpenKeeps, EndKeeps, DeleteKeeps, DiscardKeeps
  <2>2. CASE \E log \in todo[<<r, s>>] : ArchiveBatch(<<r, s>>, log)
    BY <2>2, BatchKeeps
  <2>3. CASE MarkFailed(<<r, s>>)
    <3>1. UNCHANGED badVars
      BY <2>3 DEF MarkFailed
    <3> QED
      BY <2>3, <3>1, <1>2, ServiceQuits
  <2>4. CASE (InsertFails(<<r, s>>) \/ StreamFails(<<r, s>>) \/ CallFails(<<r, s>>))
               /\ Fault /\ UNCHANGED <<histVars, crashes>>
    BY <2>4, <1>1, InsertFailsKeeps, ServiceQuits
  <2> QED
    BY <1>6, <2>1, <2>2, <2>3, <2>4 DEF ArchiveService
<1>7. ASSUME NEW r \in Runs, NEW v \in Windows,
             \/ UploadCollection(<<r, v>>)
             \/ (UploadFails(<<r, v>>) \/ CallFails(<<r, v>>))
                  /\ Fault /\ UNCHANGED <<histVars, crashes>>
      PROVE  Data'
  BY <1>7, <1>1, ReadKeeps, StoreKeeps, DropKeeps, UploadQuits DEF UploadCollection
<1>8. CASE UNCHANGED vars
  BY <1>3, <1>8 DEF vars
<1>9. CASE Next
  <2>1. ASSUME NEW t \in ServiceThreads,
               \/ ArchiveService(t)
               \/ (InsertFails(t) \/ StreamFails(t) \/ CallFails(t))
                    /\ Fault /\ UNCHANGED <<histVars, crashes>>
        PROVE  Data'
    BY <2>1, <1>6 DEF ServiceThreads
  <2>2. ASSUME NEW u \in UploadThreads,
               \/ UploadCollection(u)
               \/ (UploadFails(u) \/ CallFails(u))
                    /\ Fault /\ UNCHANGED <<histVars, crashes>>
        PROVE  Data'
    BY <2>2, <1>7 DEF UploadThreads
  <2> QED
    BY <1>9, <1>4, <1>5, <1>8, <2>1, <2>2 DEF Next, Terminating
<1> QED
  BY <1>8, <1>9

\* A history that has begun does not end.
LEMMA CalmBefore ==
    ASSUME Control, [Next]_vars, Calm'
    PROVE  Calm
<1>1. CASE UNCHANGED vars
  BY <1>1 DEF vars, badVars, histVars, Calm
<1>2. CASE UNCHANGED histVars
  BY <1>2 DEF histVars, Calm
<1>3. CASE HistoryKept
  BY <1>3 DEF HistoryKept, Calm
<1>4. ASSUME NEW r \in Runs,
             \/ Run(r) \/ Crash(r) \/ TimePasses(r) \/ JobCallFails(r)
      PROVE  Calm
  <2>1. CASE ReleaseStale(r)
    <3>1. EnterCheck(r) /\ UNCHANGED lapsed
      BY <2>1 DEF ReleaseStale
    <3> QED
      BY <3>1, <1>3, EnterMarks DEF Control
  <2>2. CASE \/ CheckActive(r) \/ CreateJob(r) \/ Discover(r) \/ ListCollections(r)
             \/ CompleteJob(r) \/ FailJob(r)
    <3>1. UNCHANGED badVars
      BY <2>2 DEF CheckActive, CreateJob, Discover, ListCollections, CompleteJob, FailJob
    <3> QED
      BY <3>1, <1>2 DEF badVars
  <2>3. CASE Crash(r)
    BY <2>3, <1>2 DEF Crash
  <2>4. CASE TimePasses(r)
    BY <2>4, <1>3 DEF TimePasses, HistoryKept
  <2>5. CASE JobCallFails(r)
    <3>1. CASE EnterCheck(r)
      BY <2>5, <3>1, <1>3, EnterMarks DEF JobCallFails, Control
    <3>2. CASE ~EnterCheck(r)
      BY <2>5, <3>2, <1>3 DEF JobCallFails, HistoryKept
    <3> QED
      BY <3>1, <3>2
  <2> QED
    BY <1>4, <2>1, <2>2, <2>3, <2>4, <2>5 DEF Run
<1>5. ASSUME NEW t \in ServiceThreads, ArchiveService(t)
      PROVE  UNCHANGED histVars
  <2>1. UNCHANGED badVars
    BY <1>5 DEF ArchiveService, OpenCursor, ArchiveBatch, EndStream, DeleteSource, DiscardPartial,
                MarkFailed
  <2> QED
    BY <2>1 DEF badVars
<1>6. ASSUME NEW u \in UploadThreads, UploadCollection(u)
      PROVE  UNCHANGED histVars
  <2>1. UNCHANGED badVars
    BY <1>6 DEF UploadCollection, ReadCollection, StoreBlob, DropCollection
  <2> QED
    BY <2>1 DEF badVars
<1>7. CASE Next
  BY <1>7, <1>1, <1>2, <1>4, <1>5, <1>6 DEF Next, Terminating
<1> QED
  BY <1>1, <1>7

\* Each run works in the phase its services and uploads are in, a clean run
\* with no other clean run at work.
LEMMA ControlHolds == Spec => []Control
<1>1. Init => Control
  BY InitControl
<1>2. Control /\ [Next]_vars => Control'
  BY NextControl
<1> QED
  BY <1>1, <1>2, PTL DEF Spec

\* The variables keep their types.
THEOREM TypeCorrect == Spec => []TypeOK
<1>1. Control => TypeOK
  BY DEF Control
<1> QED
  BY <1>1, ControlHolds, PTL

\* Two runs work at the same time only when one of the two entered its check
\* while another was inside, had its check query fail, or missed its heartbeats
\* while it worked, whatever else fails or crashes (CheckActive, CreateJob and
\* ReleaseStale of ArchiveService).
THEOREM RunsAlone == Spec => []AloneUnlessRaced
<1>1. Control => AloneUnlessRaced
  BY DEF Control, SoleRun
<1> QED
  BY <1>1, ControlHolds, PTL

\* As long as no trigger overlapped another, no check failed and no heartbeat was
\* late, and when no window is backed up twice, no log is lost: it is in the hot
\* database, in the archive or in the blob (ArchiveService, both phases).
THEOREM NothingLost ==
    ASSUME OneRunAWindow
    PROVE  Spec => [](Calm => NoLogLost)
<1>1. Init => (Calm => Data)
  BY InitData
<1>2. Control /\ Control' /\ (Calm => Data) /\ [Next]_vars => (Calm' => Data')
  BY NextData, CalmBefore
<1>3. (Calm => Data) => (Calm => NoLogLost)
  BY DEF Data
<1> QED
  BY <1>1, <1>2, <1>3, ControlHolds, PTL DEF Spec
=============================================================================

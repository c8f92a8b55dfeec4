-------------------------- MODULE MigrationProofs --------------------------
(***************************************************************************)
(* Environment migration, for any requests, services, codes and calls, and *)
(* any number of failures.                                                 *)
(***************************************************************************)
EXTENDS Migration, TLAPS

\* Outside the review step the wizard has forgotten what was composed, and the
\* codes it still knows of are those of the form under review, or expired.
Composed ==
    /\ place # "review" => form = None /\ asking = None /\ vid = None /\ dialog = FALSE
    /\ dialog => vid # None
    /\ \A i \in {asking, vid} \ {None} : mailed[i] # "unused" /\ cache[i] \in {None, form}

\* A call carries the form it was entered under, and its code stands for it.
Carried ==
    \A c \in Calls :
        /\ calls[c].id # None =>
              /\ mailed[calls[c].id] # "unused"
              /\ cache[calls[c].id] \in {None, calls[c].seen}
              /\ calls[c].asked \in {None, calls[c].seen}
        /\ calls[c].id = None => calls[c].seen = None
        /\ calls[c].step = "idle" => calls[c].id = None /\ calls[c].asked = None
        /\ calls[c].step \in {"exists", "get", "remove"} => calls[c].id # None
        /\ calls[c].step \in {"remove", "track"} => calls[c].asked # None

\* Before its tracker exists, a migration has sent nothing and nothing came back.
Early == {"idle", "exists", "get", "remove", "track"}
NothingYet ==
    \A c \in Calls :
        calls[c].step \in Early =>
            /\ tracker[c] = NoServices
            /\ calls[c].unsent = {}
            /\ \A s \in Services :
                  <<c, s>> \notin work /\ \A ok \in BOOLEAN : reports[<<c, s, ok>>] = "none"

\* Without failures a service is asked once, reports once, and the tracker says
\* what it reported.
ReportOf(c, s) ==
    /\ <<c, s>> \in work => s \notin calls[c].unsent
    /\ <<c, s>> \in work \/ s \in calls[c].unsent =>
          tracker[c][s] = "running" /\ \A ok \in BOOLEAN : reports[<<c, s, ok>>] = "none"
    /\ reports[<<c, s, TRUE>>] = "none" \/ reports[<<c, s, FALSE>>] = "none"
    /\ \A ok \in BOOLEAN :
          /\ reports[<<c, s, ok>>] = "queued" => tracker[c][s] = "running"
          /\ reports[<<c, s, ok>>] \in {"updated", "consumed"} =>
                tracker[c][s] = IF ok THEN "done" ELSE "failed"
OneReport == faults = 0 => \A c \in Calls, s \in Services : ReportOf(c, s)

\* A service is failed because it reported so, and a failure is told because of one.
FailuresReported ==
    \A c \in Calls :
        /\ \A s \in Services : tracker[c][s] = "failed" => reports[<<c, s, FALSE>>] # "none"
        /\ "failed" \in told[c] => \E s \in Services : reports[<<c, s, FALSE>>] # "none"

\* Without failures the end is told only when it is there, and somebody who will
\* tell it is on the way until it is told.
Teller ==
    faults = 0 => \A c \in Calls :
        /\ told[c] # {} => Over(c)
        /\ told[c] \subseteq {IF AllCompleted(c) THEN "completed" ELSE "failed"}
        /\ Over(c) => \/ told[c] # {}
                      \/ \E s \in Services, ok \in BOOLEAN : reports[<<c, s, ok>>] = "updated"

Reviewed == Composed /\ Carried
Ledger   == NothingYet /\ OneReport /\ FailuresReported /\ Teller
IInv     == TypeOK /\ Reviewed /\ Ledger

-----------------------------------------------------------------------------
(* Types.                                                                  *)

\* A call is a call after each of its steps.
LEMMA CallMoves ==
    ASSUME NEW k \in CallType, NEW st \in CallSteps
    PROVE  [k EXCEPT !.step = st] \in CallType
  BY DEF CallType

LEMMA CallAsks ==
    ASSUME NEW k \in CallType, NEW st \in CallSteps, NEW r \in Requests \cup {None}
    PROVE  [k EXCEPT !.step = st, !.asked = r] \in CallType
  BY DEF CallType

LEMMA CallSends ==
    ASSUME NEW k \in CallType, NEW st \in CallSteps, NEW S \in SUBSET Services
    PROVE  /\ [k EXCEPT !.step = st, !.unsent = S] \in CallType
           /\ [k EXCEPT !.unsent = S] \in CallType
  BY DEF CallType

LEMMA CallEntered ==
    ASSUME NEW k \in CallType, NEW i \in Issues \cup {None}, NEW b \in BOOLEAN,
           NEW r \in Requests \cup {None}
    PROVE  [k EXCEPT !.step = "exists", !.id = i, !.right = b, !.seen = r] \in CallType
  BY DEF CallType, CallSteps

\* What the page is given is a list of trackers, and a card has one of three looks.
LEMMA ListingType ==
    ASSUME tracker \in TrackerType
    PROVE  Listing \in TrackerType
  BY DEF Listing, NoServices, TrackerType

LEMMA DrawnType == \A d : Drawn(d) \in {"done", "in-progress", "failed"}
  BY DEF Drawn

LEMMA OngoingType == \A d : HasOngoing(d) \in BOOLEAN
  BY DEF HasOngoing

LEMMA FaultType == TypeOK => (Throws => faults' \in Nat)
  BY DEF TypeOK, Throws

LEMMA FreshCalls == \A c \in FreshCall : c \in Calls /\ calls[c].step = "idle"
  BY DEF FreshCall, AnyOf

LEMMA FreshIssues == \A i \in FreshIssue : i \in Issues /\ mailed[i] = "unused"
  BY DEF FreshIssue, AnyOf

LEMMA InitHolds == Init => IInv
<1> SUFFICES ASSUME Init PROVE IInv
  OBVIOUS
<1>1. TypeOK
  <2>1. NoCall \in CallType /\ NoServices \in [Services -> {"absent", "running", "done", "failed"}]
    BY DEF NoCall, NoServices, CallType, CallSteps
  <2>2. calls \in [Calls -> CallType] /\ tracker \in TrackerType /\ data \in TrackerType
    BY <2>1 DEF Init, TrackerType
  <2> QED
    BY <2>2 DEF Init, TypeOK
<1>2. Reviewed
  BY DEF Init, Reviewed, Composed, Carried, NoCall
<1>3. NothingYet /\ OneReport /\ FailuresReported
  BY DEF Init, NothingYet, OneReport, ReportOf, FailuresReported, NoCall, NoServices, Messages, Early
<1>4. Teller
  BY DEF Init, Teller, Over
<1> QED
  BY <1>1, <1>2, <1>3, <1>4 DEF IInv, Ledger

\* The wizard and the page.
LEMMA WizardType ==
    ASSUME TypeOK, Reviewed, Wizard \/ Page
    PROVE  TypeOK'
<1> USE MigrationAssumption DEF TypeOK, codeVars, serverVars, wizardVars, cardVars
<1>1. CASE OpenWizard \/ GoBack \/ CloseDialog
  BY <1>1 DEF OpenWizard, GoBack, CloseDialog, Unmounted
<1>2. ASSUME NEW b \in BOOLEAN, ShowEnvironments(b)
      PROVE  /\ place' \in {"environments", "select", "review"}
             /\ owed' \in BOOLEAN /\ polling' \in BOOLEAN
             /\ data' = data
             /\ shown' \in {"done", "in-progress", "failed"}
  BY <1>2, DrawnType, OngoingType DEF ShowEnvironments
<1>3. CASE CloseWizard
  BY <1>2, <1>3 DEF CloseWizard, Unmounted
<1>0. UNCHANGED faults \/ Throws => faults' \in Nat
  BY FaultType
<1>4. CASE InitiateAnswered
  BY <1>0, <1>4 DEF InitiateAnswered
<1>5. CASE VerifyAnswered
  <2>0. /\ faults' \in Nat /\ verifying' = None
        /\ UNCHANGED <<codeVars, serverVars>>
        /\ UNCHANGED <<form, asking, resend, vid, dialog>> \/ Unmounted
    BY <1>0, <1>5 DEF VerifyAnswered
  <2>1. CASE UNCHANGED <<place, data, owed, shown, polling>>
    BY <2>0, <2>1 DEF Unmounted
  <2>2. CASE owed' = TRUE /\ UNCHANGED <<place, data, shown, polling>>
    BY <2>0, <2>2 DEF Unmounted
  <2>3. CASE ShowEnvironments(TRUE)
    BY <1>2, <2>0, <2>3 DEF Unmounted
  <2> QED
    BY <1>5, <2>1, <2>2, <2>3 DEF VerifyAnswered
<1>6. ASSUME NEW r \in Offered, Continue(r) PROVE TypeOK'
  BY <1>6 DEF Continue
<1>7. ASSUME NEW i \in FreshIssue, Initiate(i) PROVE TypeOK'
  BY <1>7, FreshIssues DEF Initiate
<1>8. ASSUME NEW c \in FreshCall, NEW code \in Issues, EnterCode(c, code) PROVE TypeOK'
  <2>1. c \in Calls /\ calls[c] \in CallType
    BY FreshCalls
  <2>2. calls' \in [Calls -> CallType]
    BY <1>8, <2>1, CallEntered DEF EnterCode
  <2> QED
    BY <1>8, <2>1, <2>2 DEF EnterCode
<1>9. CASE Page
  <2>1. Listing \in TrackerType
    BY ListingType DEF TrackerType
  <2>2. ASSUME Refetched
        PROVE  /\ data' \in TrackerType /\ shown' \in {"done", "in-progress", "failed"}
               /\ polling' \in BOOLEAN
    BY <2>1, <2>2, DrawnType, OngoingType DEF Refetched
  <2>3. CASE Fetch
    BY <2>2, <2>3 DEF Fetch, TrackerType
  <2>4. CASE PushArrives
    BY <2>2, <2>4 DEF PushArrives, TrackerType
  <2>5. CASE Redraw
    BY <2>5, DrawnType, OngoingType DEF Redraw
  <2> QED
    BY <1>9, <2>3, <2>4, <2>5 DEF Page
<1> QED
  BY <1>1, <1>3, <1>4, <1>5, <1>6, <1>7, <1>8, <1>9 DEF Wizard

\* The calls of the service: the id of a call that looks it up is a code's, and a
\* migration that starts is asked for.
LEMMA ServerType ==
    ASSUME TypeOK, Reviewed, NEW c \in Calls,
           CallStep(c) \/ CallFails(c) \/ WindowEnds(c)
    PROVE  TypeOK'
<1> USE MigrationAssumption DEF TypeOK, codeVars, wizardVars, cardVars, Step
<1>0. calls[c] \in CallType
  OBVIOUS
<1>1. CASE KeyExists(c) \/ NotifyStarted(c) \/ CallFails(c)
  <2>1. PICK st \in CallSteps : calls' = [calls EXCEPT ![c].step = st]
    BY <1>1 DEF KeyExists, NotifyStarted, CallFails, CallSteps
  <2>2. calls' \in [Calls -> CallType]
    BY <1>0, <2>1, CallMoves
  <2>3. faults' \in Nat
    BY <1>1, FaultType DEF KeyExists, NotifyStarted, CallFails
  <2> QED
    BY <1>1, <2>2, <2>3 DEF KeyExists, NotifyStarted, CallFails
<1>2. CASE GetValue(c)
  <2>1. calls[c].id \in Issues
    BY <1>0, <1>2 DEF GetValue, Reviewed, Carried, CallType
  <2>2. cache[calls[c].id] \in Requests \cup {None}
    BY <2>1
  <2>3. calls' \in [Calls -> CallType]
    <3>1. CASE cache[calls[c].id] # None /\ calls[c].right
      <4>1. [calls[c] EXCEPT !.step = "remove", !.asked = cache[calls[c].id]] \in CallType
        BY <1>0, <2>2, CallAsks DEF CallSteps
      <4> QED
        BY <1>2, <3>1, <4>1 DEF GetValue
    <3>2. CASE ~(cache[calls[c].id] # None /\ calls[c].right)
      BY <1>0, <1>2, <3>2, CallMoves DEF GetValue, CallSteps
    <3> QED
      BY <3>1, <3>2
  <2> QED
    BY <1>2, <2>3 DEF GetValue
<1>3. CASE RemoveKey(c)
  <2>1. calls' \in [Calls -> CallType]
    BY <1>0, <1>3, CallMoves DEF RemoveKey, CallSteps
  <2>2. cache' \in [Issues -> Requests \cup {None}]
    BY <1>3 DEF RemoveKey
  <2> QED
    BY <1>3, <2>1, <2>2 DEF RemoveKey
<1>4. CASE CreateTracker(c)
  <2>1. calls[c].asked \in Requests
    BY <1>0, <1>4 DEF CreateTracker, Reviewed, Carried, CallType
  <2>2. ServicesOf[calls[c].asked] \in SUBSET Services
    BY <2>1
  <2>3. calls' \in [Calls -> CallType]
    BY <1>0, <1>4, <2>2, CallSends DEF CreateTracker, CallSteps
  <2>4. tracker' \in TrackerType
    BY <1>4 DEF CreateTracker, TrackerType
  <2>5. recent' \in [Calls -> BOOLEAN]
    BY <1>4 DEF CreateTracker
  <2> QED
    BY <1>4, <2>3, <2>4, <2>5 DEF CreateTracker
<1>5. CASE Send(c)
  <2>1. \A s : calls[c].unsent \ {s} \in SUBSET Services
    BY <1>0 DEF CallType
  <2>2. calls' \in [Calls -> CallType]
    <3>1. ASSUME NEW s \in calls[c].unsent, calls' = [calls EXCEPT ![c].unsent = @ \ {s}]
          PROVE  calls' \in [Calls -> CallType]
      <4>1. [calls[c] EXCEPT !.unsent = calls[c].unsent \ {s}] \in CallType
        BY <1>0, <2>1 DEF CallType
      <4> QED
        BY <3>1, <4>1
    <3>2. CASE Step(c, "notify")
      BY <1>0, <3>2, CallMoves DEF CallSteps
    <3> QED
      BY <1>5, <3>1, <3>2 DEF Send
  <2>3. work' \subseteq Calls \X Queued
    BY <1>5 DEF Send
  <2> QED
    BY <1>5, <2>2, <2>3 DEF Send
<1>6. CASE WindowEnds(c)
  BY <1>6 DEF WindowEnds
<1> QED
  BY <1>1, <1>2, <1>3, <1>4, <1>5, <1>6 DEF CallStep

\* The workers, the consumers of their messages, and a code that expires.
LEMMA ReportType ==
    ASSUME TypeOK
    PROVE  /\ \A c \in Calls, s \in Services, ok \in BOOLEAN : Report(c, s, ok) => TypeOK'
           /\ \A m \in Messages : Consume(m) \/ TellFails(m) => TypeOK'
           /\ \A i \in Issues : CodeExpires(i) => TypeOK'
           /\ \A c \in Calls, r \in Requests : ApiVerified(c, r) => TypeOK'
<1> USE DEF TypeOK, codeVars, serverVars, wizardVars, cardVars
<1>1. ASSUME NEW c \in Calls, NEW s \in Services, NEW ok \in BOOLEAN, Report(c, s, ok)
      PROVE  TypeOK'
  <2>1. work' \subseteq Calls \X Queued /\ faults' \in Nat
    BY <1>1, FaultType DEF Report
  <2>2. reports' \in [Messages -> {"none", "queued", "updated", "consumed"}]
    BY <1>1 DEF Report
  <2> QED
    BY <1>1, <2>1, <2>2 DEF Report
<1>2. ASSUME NEW m \in Messages, UpdateStatus(m) PROVE TypeOK'
  <2>1. m[1] \in Calls /\ m[2] \in Services
    BY DEF Messages
  <2>2. tracker' \in TrackerType
    BY <1>2, <2>1 DEF UpdateStatus, TrackerType
  <2>3. reports' \in [Messages -> {"none", "queued", "updated", "consumed"}]
    BY <1>2 DEF UpdateStatus
  <2> QED
    BY <1>2, <2>2, <2>3 DEF UpdateStatus
<1>3. ASSUME NEW m \in Messages, TellEnd(m) PROVE TypeOK'
  BY <1>3 DEF TellEnd, Messages
<1>4. ASSUME NEW m \in Messages, TellFails(m) PROVE TypeOK'
  BY <1>4, FaultType DEF TellFails
<1>5. ASSUME NEW i \in Issues, CodeExpires(i) PROVE TypeOK'
  BY <1>5 DEF CodeExpires
<1>6. ASSUME NEW c \in Calls, NEW r \in Requests, ApiVerified(c, r) PROVE TypeOK'
  <2>1. calls' \in [Calls -> CallType]
    BY <1>6, CallAsks DEF ApiVerified, CallSteps
  <2> QED
    BY <1>6, <2>1 DEF ApiVerified
<1> QED
  BY <1>1, <1>2, <1>3, <1>4, <1>5, <1>6 DEF Consume

LEMMA TypeStep ==
    ASSUME TypeOK, Reviewed, [Next]_vars
    PROVE  TypeOK'
<1>1. CASE UNCHANGED vars
  BY <1>1 DEF TypeOK, vars, codeVars, serverVars, wizardVars, cardVars
<1>2. CASE Next
  BY <1>2, WizardType, ServerType, ReportType, FreshCalls DEF Next
<1> QED
  BY <1>1, <1>2

-----------------------------------------------------------------------------
(* What a code starts is what was reviewed.                                *)

\* Steps that leave the calls and the codes alone, or only take codes away.
LEMMA CarriedQuiet ==
    ASSUME TypeOK, Carried, UNCHANGED calls,
           \A i \in Issues : mailed[i] # "unused" =>
              mailed'[i] # "unused" /\ cache'[i] \in {None, cache[i]}
    PROVE  Carried'
  BY DEF Carried, TypeOK, CallType

\* Initiate takes a code nobody knows; EnterCode takes the one of the form.
LEMMA WizardReviewed ==
    ASSUME TypeOK, Reviewed, Wizard \/ Page
    PROVE  Reviewed'
<1> USE DEF TypeOK, codeVars, serverVars, wizardVars, cardVars
<1>1. CASE OpenWizard \/ GoBack \/ CloseDialog \/ CloseWizard \/ InitiateAnswered \/ VerifyAnswered
           \/ Page \/ \E r \in Offered : Continue(r)
  <2>1. UNCHANGED <<calls, cache, mailed>>
    BY <1>1 DEF OpenWizard, GoBack, CloseDialog, CloseWizard, InitiateAnswered, VerifyAnswered,
       Page, Fetch, Redraw, PushArrives, Continue
  <2>2. Carried'
    BY <2>1, CarriedQuiet DEF Reviewed
  <2>3. Composed'
    <3>1. CASE OpenWizard \/ CloseDialog
      BY <3>1 DEF Reviewed, Composed, OpenWizard, CloseDialog
    <3>6. ASSUME Unmounted PROVE Composed'
      BY <3>6 DEF Unmounted, Composed
    <3>7. CASE GoBack \/ CloseWizard
      BY <3>6, <3>7 DEF GoBack, CloseWizard
    <3>2. CASE InitiateAnswered
      BY <3>2 DEF Reviewed, Composed, InitiateAnswered
    <3>3. CASE VerifyAnswered
      <4>1. CASE UNCHANGED <<place, form, asking, vid, dialog>>
        BY <2>1, <4>1 DEF Reviewed, Composed
      <4> QED
        BY <3>3, <3>6, <4>1 DEF VerifyAnswered
    <3>4. CASE Page
      BY <3>4 DEF Reviewed, Composed, Page, Fetch, Redraw, PushArrives
    <3>5. CASE \E r \in Offered : Continue(r)
      BY <3>5 DEF Reviewed, Composed, Continue
    <3> QED
      BY <1>1, <3>1, <3>2, <3>3, <3>4, <3>5, <3>7
  <2> QED
    BY <2>2, <2>3 DEF Reviewed
<1>2. ASSUME NEW i \in FreshIssue, Initiate(i) PROVE Reviewed'
  <2>1. i \in Issues /\ mailed[i] = "unused" /\ i # None
    BY FreshIssues, MigrationAssumption
  <2>2. \A j \in Issues \ {i} : mailed'[j] = mailed[j] /\ cache'[j] = cache[j]
    BY <1>2 DEF Initiate
  <2>3. Carried'
    BY <1>2, <2>1, <2>2, CarriedQuiet DEF Initiate, Reviewed
  <2>4. asking' = i /\ mailed'[i] # "unused" /\ cache'[i] = form /\ vid' = vid /\ vid # i
    BY <1>2, <2>1 DEF Initiate, Reviewed, Composed
  <2>5. Composed'
    BY <1>2, <2>2, <2>4 DEF Initiate, Reviewed, Composed
  <2> QED
    BY <2>3, <2>5 DEF Reviewed
<1>3. ASSUME NEW c \in FreshCall, NEW code \in Issues, EnterCode(c, code) PROVE Reviewed'
  <2>1. c \in Calls /\ calls[c].step = "idle" /\ calls[c].asked = None
    BY FreshCalls DEF Reviewed, Carried
  <2>2. Composed'
    BY <1>3 DEF EnterCode, Reviewed, Composed
  <2>3. /\ calls'[c].id = vid /\ calls'[c].seen = form /\ calls'[c].asked = None
        /\ calls'[c].step = "exists"
        /\ \A d \in Calls \ {c} : calls'[d] = calls[d]
        /\ UNCHANGED <<cache, mailed>>
    BY <1>3, <2>1 DEF EnterCode
  <2>4. vid # None /\ mailed[vid] # "unused" /\ cache[vid] \in {None, form}
    BY <1>3 DEF EnterCode, Reviewed, Composed
  <2>5. Carried'
    BY <2>3, <2>4 DEF Reviewed, Carried
  <2> QED
    BY <2>2, <2>5 DEF Reviewed
<1> QED
  BY <1>1, <1>2, <1>3 DEF Wizard

\* The server reads what was cached, and forgets it.
LEMMA ServerReviewed ==
    ASSUME TypeOK, Reviewed,
           \/ \E c \in Calls : CallStep(c) \/ CallFails(c) \/ WindowEnds(c)
           \/ \E c \in Calls, r \in Requests : ApiVerified(c, r)
           \/ \E i \in Issues : CodeExpires(i)
           \/ \E c \in Calls, s \in Services, ok \in BOOLEAN : Report(c, s, ok)
           \/ \E m \in Messages : Consume(m) \/ TellFails(m)
    PROVE  Reviewed'
<1> USE DEF codeVars, serverVars, wizardVars, cardVars, Step
<1>1. /\ UNCHANGED <<mailed, place, form, asking, vid, dialog>>
      /\ \A i \in Issues : cache'[i] \in {None, cache[i]}
  BY DEF TypeOK, CallStep, KeyExists, GetValue, RemoveKey, CreateTracker, Send, NotifyStarted, CallFails,
     WindowEnds, ApiVerified, CodeExpires, Report, Consume, UpdateStatus, TellEnd, TellFails
<1>2. Composed'
  BY <1>1 DEF Reviewed, Composed, TypeOK
<1>0. calls \in [Calls -> CallType]
  BY DEF TypeOK
<1>3. ASSUME NEW c \in Calls,
             \A d \in Calls \ {c} : calls'[d] = calls[d],
             calls'[c].id = calls[c].id, calls'[c].seen = calls[c].seen,
             \/ calls'[c].asked = calls[c].asked
             \/ calls[c].id # None /\ calls'[c].asked = cache[calls[c].id],
             calls'[c].step # "idle",
             calls'[c].step \in {"exists", "get", "remove"} => calls[c].id # None,
             calls'[c].step \in {"remove", "track"} => calls'[c].asked # None
      PROVE  Carried'
  BY <1>0, <1>1, <1>3 DEF Reviewed, Carried, CallType
<1>4. ASSUME NEW c \in Calls, CallStep(c) \/ CallFails(c) PROVE Carried'
  <2>1. ASSUME calls' = [calls EXCEPT ![c].step = "refused"]
        PROVE  Carried'
    BY <1>0, <1>3, <2>1 DEF CallType, Reviewed, Carried
  <2>2. CASE KeyExists(c)
    BY <1>0, <1>3, <2>1, <2>2 DEF KeyExists, CallType, Reviewed, Carried
  <2>3. CASE GetValue(c)
    <3>1. CASE cache[calls[c].id] # None /\ calls[c].right
      <4>1. calls' = [calls EXCEPT ![c] = [@ EXCEPT !.step = "remove", !.asked = cache[calls[c].id]]]
        BY <2>3, <3>1 DEF GetValue
      <4>2. calls[c].id # None
        BY <2>3 DEF GetValue, Reviewed, Carried
      <4> QED
        BY <1>0, <1>3, <3>1, <4>1, <4>2 DEF CallType
    <3> QED
      BY <2>1, <2>3, <3>1 DEF GetValue
  <2>4. CASE RemoveKey(c)
    BY <1>0, <1>3, <2>4 DEF RemoveKey, CallType, Reviewed, Carried
  <2>5. ASSUME NEW st \in {"notify", "started", "error"}, calls' = [calls EXCEPT ![c].step = st]
        PROVE  Carried'
    BY <1>0, <1>3, <2>5 DEF CallType
  <2>6. CASE NotifyStarted(c) \/ CallFails(c)
    BY <2>5, <2>6 DEF NotifyStarted, CallFails
  <2>7. CASE CreateTracker(c)
    <3>1. calls' = [calls EXCEPT ![c] = [@ EXCEPT !.step = "send",
                                                 !.unsent = ServicesOf[calls[c].asked]]]
      BY <2>7 DEF CreateTracker
    <3> QED
      BY <1>0, <1>3, <3>1 DEF CallType
  <2>8. CASE Send(c)
    <3>1. ASSUME NEW s \in calls[c].unsent, calls' = [calls EXCEPT ![c].unsent = @ \ {s}],
                 calls[c].step = "send"
          PROVE  Carried'
      BY <1>0, <1>3, <3>1 DEF CallType
    <3> QED
      BY <2>5, <2>8, <3>1 DEF Send
  <2> QED
    BY <1>4, <2>2, <2>3, <2>4, <2>6, <2>7, <2>8 DEF CallStep
<1>5. ASSUME NEW c \in Calls, NEW r \in Requests, ApiVerified(c, r) PROVE Carried'
  <2>1. /\ \A d \in Calls \ {c} : calls'[d] = calls[d]
        /\ calls'[c].id = None /\ calls'[c].seen = None
        /\ calls'[c].asked = r /\ calls'[c].step = "track" /\ r # None
    <3>1. calls' = [calls EXCEPT ![c] = [@ EXCEPT !.step = "track", !.asked = r]]
      BY <1>5 DEF ApiVerified
    <3>2. calls[c].id = None /\ calls[c].seen = None
      BY <1>5 DEF ApiVerified, Reviewed, Carried
    <3> QED
      BY <1>0, <3>1, <3>2, MigrationAssumption DEF CallType
  <2> QED
    BY <1>0, <1>1, <2>1 DEF Reviewed, Carried, CallType
<1>6. ASSUME UNCHANGED calls PROVE Carried'
  <2>1. \A i \in Issues : mailed[i] # "unused" =>
              mailed'[i] # "unused" /\ cache'[i] \in {None, cache[i]}
    BY <1>1
  <2> QED
    BY <1>6, <2>1, CarriedQuiet DEF Reviewed
<1>7. Carried'
  BY <1>4, <1>5, <1>6
     DEF WindowEnds, CodeExpires, Report, Consume, UpdateStatus, TellEnd, TellFails
<1> QED
  BY <1>2, <1>7 DEF Reviewed

LEMMA ReviewedStep ==
    ASSUME TypeOK, Reviewed, [Next]_vars
    PROVE  Reviewed'
<1>1. CASE UNCHANGED vars
  BY <1>1 DEF Reviewed, Composed, Carried, vars, codeVars, serverVars, wizardVars
<1>2. CASE Next
  BY <1>2, WizardReviewed, ServerReviewed, FreshCalls DEF Next
<1> QED
  BY <1>1, <1>2
-----------------------------------------------------------------------------
(* What the services report and what is told.                              *)

\* Steps that leave the migrations alone: no call goes back before its tracker.
LEMMA LedgerQuiet ==
    ASSUME TypeOK, Ledger, UNCHANGED <<tracker, work, reports, told>>,
           faults' = faults \/ Throws,
           \A c \in Calls : /\ calls'[c].unsent = calls[c].unsent
                            /\ calls'[c].step \in Early => calls[c].step \in Early
    PROVE  Ledger'
<1>1. faults' = 0 => faults = 0
  BY DEF TypeOK, Throws
<1>2. NothingYet'
  BY DEF Ledger, NothingYet
<1>3. ASSUME NEW c \in Calls, NEW s \in Services, faults' = 0 PROVE ReportOf(c, s)'
  <2>1. ReportOf(c, s)
    BY <1>1, <1>3 DEF Ledger, OneReport
  <2> QED
    BY <2>1 DEF ReportOf
<1>4. FailuresReported'
  BY DEF Ledger, FailuresReported
<1>5. Teller'
  BY <1>1 DEF Ledger, Teller, Over, AllCompleted
<1> QED
  BY <1>2, <1>3, <1>4, <1>5 DEF Ledger, OneReport

\* The tracker of a migration nobody has worked on yet.
LEMMA LedgerTrack ==
    ASSUME TypeOK, Reviewed, Ledger, NEW c \in Calls, CreateTracker(c)
    PROVE  Ledger'
<1> USE DEF CreateTracker
<1>1. /\ tracker[c] = NoServices /\ \A s \in Services : <<c, s>> \notin work
      /\ UNCHANGED <<work, reports, told, faults>>
  BY DEF Ledger, NothingYet, Early
<1>2. /\ \A d \in Calls \ {c} : tracker'[d] = tracker[d] /\ calls'[d] = calls[d]
      /\ \A s \in Services : tracker'[c][s] \in {"running", "absent"}
      /\ \A s \in Services : s \in ServicesOf[calls[c].asked] => tracker'[c][s] = "running"
      /\ tracker'[c] \in [Services -> {"running", "absent"}]
  BY DEF TypeOK, TrackerType
<1>3. /\ calls'[c].step = "send" /\ calls'[c].unsent = ServicesOf[calls[c].asked]
  BY DEF TypeOK, CallType
<1>4. NothingYet'
  BY <1>1, <1>2, <1>3 DEF Ledger, NothingYet, Early
<1>5. ASSUME NEW d \in Calls, NEW s \in Services, faults' = 0 PROVE ReportOf(d, s)'
  <2>1. ReportOf(d, s)
    BY <1>1, <1>5 DEF Ledger, OneReport
  <2>2. CASE d # c
    BY <1>1, <1>2, <2>1, <2>2 DEF ReportOf
  <2>3. CASE d = c
    <3>1. tracker[c][s] = "absent" /\ <<c, s>> \notin work
      BY <1>1 DEF NoServices
    <3>2. \A ok \in BOOLEAN : reports[<<c, s, ok>>] \in {"none", "queued", "updated", "consumed"}
      BY DEF TypeOK, Messages
    <3>3. \A ok \in BOOLEAN : reports[<<c, s, ok>>] = "none"
      BY <2>1, <2>3, <3>1, <3>2 DEF ReportOf
    <3> QED
      BY <1>1, <1>2, <1>3, <2>3, <3>1, <3>3 DEF ReportOf
  <2> QED
    BY <2>2, <2>3
<1>6. FailuresReported'
  <2>1. ASSUME NEW d \in Calls, NEW s \in Services, tracker'[d][s] = "failed"
        PROVE  reports'[<<d, s, FALSE>>] # "none"
    BY <1>1, <1>2, <2>1 DEF Ledger, FailuresReported
  <2> QED
    BY <1>1, <2>1 DEF Ledger, FailuresReported
<1>7. Teller'
  <2>1. SUFFICES ASSUME faults = 0 PROVE Teller'
    BY <1>1 DEF Teller
  <2>2. ~Over(c) /\ told[c] = {}
    BY <1>1, <2>1 DEF Ledger, Teller, Over
  <2>3. ~Over(c)'
    BY <1>2 DEF Over, NoServices
  <2>4. \A d \in Calls \ {c} : (Over(d)' <=> Over(d)) /\ (AllCompleted(d)' <=> AllCompleted(d))
    BY <1>2 DEF Over, AllCompleted
  <2> QED
    BY <1>1, <2>1, <2>2, <2>3, <2>4 DEF Ledger, Teller
<1> QED
  BY <1>4, <1>5, <1>6, <1>7 DEF Ledger, OneReport

LEMMA LedgerSend ==
    ASSUME TypeOK, Ledger, NEW c \in Calls, Send(c)
    PROVE  Ledger'
<1>1. CASE Step(c, "notify") /\ UNCHANGED work
  <2>1. \A d \in Calls : /\ calls'[d].unsent = calls[d].unsent
                         /\ calls'[d].step \in Early => calls[d].step \in Early
    BY <1>1 DEF Step, Early, TypeOK, CallType
  <2> QED
    BY <1>1, <2>1, LedgerQuiet DEF Send
<1>2. ASSUME NEW s \in calls[c].unsent, calls' = [calls EXCEPT ![c].unsent = @ \ {s}],
             work' = work \cup ({<<c, s>>} \cap (Calls \X Queued)),
             calls[c].step = "send", UNCHANGED <<tracker, reports, told, faults>>
      PROVE  Ledger'
  <2>1. /\ s \in Services
        /\ \A d \in Calls \ {c} : calls'[d] = calls[d]
        /\ calls'[c].unsent = calls[c].unsent \ {s} /\ calls'[c].step = "send"
        /\ work' \subseteq work \cup {<<c, s>>}
    BY <1>2 DEF TypeOK, CallType
  <2>2. NothingYet'
    BY <1>2, <2>1 DEF Ledger, NothingYet, Early
  <2>3. ASSUME NEW d \in Calls, NEW x \in Services, faults' = 0 PROVE ReportOf(d, x)'
    <3>1. ReportOf(d, x)
      BY <1>2, <2>3 DEF Ledger, OneReport
    <3>2. CASE <<d, x>> # <<c, s>>
      BY <1>2, <2>1, <3>1, <3>2 DEF ReportOf
    <3>3. CASE <<d, x>> = <<c, s>>
      BY <1>2, <2>1, <3>1, <3>3 DEF ReportOf
    <3> QED
      BY <3>2, <3>3
  <2>4. FailuresReported' /\ Teller'
    BY <1>2 DEF Ledger, FailuresReported, Teller, Over, AllCompleted
  <2> QED
    BY <2>2, <2>3, <2>4 DEF Ledger, OneReport
<1> QED
  BY <1>1, <1>2 DEF Send

\* What a service has to do with a step of another one.
LEMMA ReportStays ==
    ASSUME NEW d \in Calls, NEW x \in Services, ReportOf(d, x),
           <<d, x>> \in work' => <<d, x>> \in work,
           x \in calls'[d].unsent => x \in calls[d].unsent,
           tracker'[d][x] = tracker[d][x],
           \A b \in BOOLEAN : reports'[<<d, x, b>>] = reports[<<d, x, b>>]
    PROVE  ReportOf(d, x)'
  BY DEF ReportOf

\* A worker reports: the message it took was still in the queue.
LEMMA LedgerReport ==
    ASSUME TypeOK, Ledger, NEW c \in Calls, NEW s \in Services, NEW ok \in BOOLEAN,
           Report(c, s, ok)
    PROVE  Ledger'
<1>1. /\ <<c, s>> \in work /\ <<c, s, ok>> \in Messages
      /\ UNCHANGED <<calls, tracker, told>>
      /\ faults' = faults \/ Throws
      /\ work' \subseteq work
      /\ reports' = [reports EXCEPT ![<<c, s, ok>>] = "queued"]
  BY DEF Report, Messages
<1>2. \A d \in Calls, x \in Services, b \in BOOLEAN :
          reports'[<<d, x, b>>] = IF <<d, x, b>> = <<c, s, ok>> THEN "queued"
                                  ELSE reports[<<d, x, b>>]
  BY <1>1 DEF TypeOK, Messages
<1>3. faults' = 0 => faults = 0 /\ work' = work \ {<<c, s>>}
  BY DEF TypeOK, Report, Throws
<1>4. NothingYet'
  BY <1>1, <1>2 DEF Ledger, NothingYet
<1>5. ASSUME NEW d \in Calls, NEW x \in Services, faults' = 0 PROVE ReportOf(d, x)'
  <2>1. ReportOf(d, x) /\ ReportOf(c, s)
    BY <1>3, <1>5 DEF Ledger, OneReport
  <2>2. CASE <<d, x>> # <<c, s>>
    <3>1. \A b \in BOOLEAN : reports'[<<d, x, b>>] = reports[<<d, x, b>>]
      BY <1>2, <2>2
    <3> QED
      BY <1>1, <2>1, <3>1, ReportStays
  <2>3. CASE <<d, x>> = <<c, s>>
    <3>1. /\ s \notin calls[c].unsent /\ tracker[c][s] = "running"
          /\ \A b \in BOOLEAN : reports[<<c, s, b>>] = "none"
      BY <1>1, <2>1 DEF ReportOf
    <3>2. /\ <<c, s>> \notin work' /\ UNCHANGED <<calls, tracker>>
      BY <1>1, <1>3, <1>5
    <3>3. \A b \in BOOLEAN : reports'[<<c, s, b>>] = IF b = ok THEN "queued" ELSE "none"
      BY <1>2, <3>1
    <3> QED
      BY <2>3, <3>1, <3>2, <3>3 DEF ReportOf
  <2> QED
    BY <2>2, <2>3
<1>6. FailuresReported'
  <2>1. \A d \in Calls, x \in Services :
            reports[<<d, x, FALSE>>] # "none" => reports'[<<d, x, FALSE>>] # "none"
    BY <1>2
  <2> QED
    BY <1>1, <2>1 DEF Ledger, FailuresReported
<1>7. Teller'
  <2>1. SUFFICES ASSUME faults' = 0, NEW d \in Calls
        PROVE  Over(d) => \/ told[d] # {}
                          \/ \E x \in Services, b \in BOOLEAN : reports'[<<d, x, b>>] = "updated"
    BY <1>1, <1>3 DEF Ledger, Teller, Over, AllCompleted
  <2>2. ASSUME NEW x \in Services, NEW b \in BOOLEAN, reports[<<d, x, b>>] = "updated"
        PROVE  reports'[<<d, x, b>>] = "updated"
    BY <1>2, <2>2 DEF Report
  <2> QED
    BY <1>3, <2>1, <2>2 DEF Ledger, Teller
<1> QED
  BY <1>4, <1>5, <1>6, <1>7 DEF Ledger, OneReport

\* A consumer writes what it was told into the tracker.
LEMMA LedgerUpdate ==
    ASSUME TypeOK, Ledger, NEW c \in Calls, NEW s \in Services, NEW ok \in BOOLEAN,
           UpdateStatus(<<c, s, ok>>)
    PROVE  Ledger'
<1>1. /\ reports[<<c, s, ok>>] = "queued" /\ <<c, s, ok>> \in Messages
      /\ UNCHANGED <<calls, work, told, faults>>
      /\ reports' = [reports EXCEPT ![<<c, s, ok>>] = "updated"]
      /\ tracker' = [tracker EXCEPT ![c][s] = IF ok THEN "done" ELSE "failed"]
  BY DEF UpdateStatus, Messages
<1>2. \A d \in Calls, x \in Services, b \in BOOLEAN :
          reports'[<<d, x, b>>] = IF <<d, x, b>> = <<c, s, ok>> THEN "updated"
                                  ELSE reports[<<d, x, b>>]
  BY <1>1 DEF TypeOK, Messages
<1>3. \A d \in Calls, x \in Services :
          tracker'[d][x] = IF <<d, x>> = <<c, s>> THEN (IF ok THEN "done" ELSE "failed")
                           ELSE tracker[d][x]
  BY <1>1 DEF TypeOK, TrackerType
<1>4. \A d \in Calls \ {c} : tracker'[d] = tracker[d]
  BY <1>1 DEF TypeOK, TrackerType
<1>5. NothingYet'
  <2>1. calls[c].step \notin Early
    BY <1>1 DEF Ledger, NothingYet
  <2>2. ASSUME NEW d \in Calls, calls[d].step \in Early,
               NEW x \in Services, NEW b \in BOOLEAN
        PROVE  tracker'[d] = tracker[d] /\ reports'[<<d, x, b>>] = reports[<<d, x, b>>]
    BY <1>2, <1>4, <2>1, <2>2
  <2> QED
    BY <1>1, <1>4, <2>1, <2>2 DEF Ledger, NothingYet
<1>6. FailuresReported'
  <2>1. ASSUME NEW d \in Calls, NEW x \in Services, tracker'[d][x] = "failed"
        PROVE  reports'[<<d, x, FALSE>>] # "none"
    BY <1>2, <1>3, <2>1 DEF Ledger, FailuresReported
  <2>2. ASSUME NEW d \in Calls, NEW x \in Services, reports[<<d, x, FALSE>>] # "none"
        PROVE  reports'[<<d, x, FALSE>>] # "none"
    BY <1>2, <2>2
  <2> QED
    BY <1>1, <2>1, <2>2 DEF Ledger, FailuresReported
<1>7. ASSUME NEW d \in Calls, NEW x \in Services, faults' = 0 PROVE ReportOf(d, x)'
  <2>1. ReportOf(d, x) /\ ReportOf(c, s)
    BY <1>1, <1>7 DEF Ledger, OneReport
  <2>2. CASE <<d, x>> # <<c, s>>
    <3>1. \A b \in BOOLEAN : reports'[<<d, x, b>>] = reports[<<d, x, b>>]
      BY <1>2, <2>2
    <3> QED
      BY <1>1, <1>3, <2>1, <2>2, <3>1, ReportStays
  <2>3. CASE <<d, x>> = <<c, s>>
    <3>1. <<c, s>> \notin work /\ s \notin calls[c].unsent
      BY <1>1, <2>1 DEF ReportOf
    <3>2. reports[<<c, s, TRUE>>] = "none" \/ reports[<<c, s, FALSE>>] = "none"
      BY <2>1 DEF ReportOf
    <3>3. CASE ok = TRUE
      <4>1. /\ reports'[<<c, s, TRUE>>] = "updated" /\ reports'[<<c, s, FALSE>>] = "none"
            /\ tracker'[c][s] = "done"
        <5>1. reports[<<c, s, TRUE>>] = "queued"
          BY <1>1, <3>3
        <5>2. reports[<<c, s, FALSE>>] = "none"
          BY <3>2, <5>1
        <5>3. reports'[<<c, s, TRUE>>] = "updated"
          BY <1>2, <3>3
        <5>4. reports'[<<c, s, FALSE>>] = reports[<<c, s, FALSE>>]
          BY <1>2, <3>3
        <5>5. tracker'[c][s] = "done"
          BY <1>3, <3>3
        <5> QED
          BY <5>2, <5>3, <5>4, <5>5
      <4> QED
        BY <1>1, <2>3, <3>1, <4>1 DEF ReportOf
    <3>4. CASE ok = FALSE
      <4>1. /\ reports'[<<c, s, FALSE>>] = "updated" /\ reports'[<<c, s, TRUE>>] = "none"
            /\ tracker'[c][s] = "failed"
        <5>1. reports[<<c, s, FALSE>>] = "queued"
          BY <1>1, <3>4
        <5>2. reports[<<c, s, TRUE>>] = "none"
          BY <3>2, <5>1
        <5>3. reports'[<<c, s, FALSE>>] = "updated"
          BY <1>2, <3>4
        <5>4. reports'[<<c, s, TRUE>>] = reports[<<c, s, TRUE>>]
          BY <1>2, <3>4
        <5>5. tracker'[c][s] = "failed"
          BY <1>3, <3>4
        <5> QED
          BY <5>2, <5>3, <5>4, <5>5
      <4> QED
        BY <1>1, <2>3, <3>1, <4>1 DEF ReportOf
    <3> QED
      BY <3>3, <3>4
  <2> QED
    BY <2>2, <2>3
<1>8. ASSUME NEW d \in Calls, faults' = 0
      PROVE  /\ told[d] # {} => Over(d)'
             /\ told[d] \subseteq {IF AllCompleted(d)' THEN "completed" ELSE "failed"}
             /\ Over(d)' => \/ told[d] # {}
                           \/ \E x \in Services, b \in BOOLEAN : reports'[<<d, x, b>>] = "updated"
  <2>1. CASE d = c
    <3>1. tracker[c][s] = "running"
      <4>1. ReportOf(c, s)
        BY <1>1, <1>8 DEF Ledger, OneReport
      <4> QED
        BY <1>1, <4>1 DEF ReportOf
    <3>2. told[c] = {}
      BY <1>1, <1>8, <3>1 DEF Ledger, Teller, Over
    <3>3. reports'[<<c, s, ok>>] = "updated"
      BY <1>2
    <3> QED
      BY <2>1, <3>2, <3>3
  <2>2. CASE d # c
    <3>1. (Over(d)' <=> Over(d)) /\ (AllCompleted(d)' <=> AllCompleted(d))
      BY <1>4, <2>2 DEF Over, AllCompleted
    <3>2. \A x \in Services, b \in BOOLEAN : reports'[<<d, x, b>>] = reports[<<d, x, b>>]
      BY <1>2, <2>2
    <3> QED
      BY <1>1, <1>8, <3>1, <3>2 DEF Ledger, Teller
  <2> QED
    BY <2>1, <2>2
<1>9. Teller'
  BY <1>1, <1>8 DEF Teller
<1> QED
  BY <1>5, <1>6, <1>7, <1>9 DEF Ledger, OneReport

\* A consumer that throws before it tells: the message is left or given up.
LEMMA LedgerThrows ==
    ASSUME TypeOK, Ledger, NEW m \in Messages, TellFails(m)
    PROVE  Ledger'
<1>1. /\ UNCHANGED <<calls, tracker, work, told>>
      /\ reports[m] = "updated"
      /\ faults' # 0
      /\ \A n \in Messages : reports'[n] = "none" <=> reports[n] = "none"
  BY DEF TellFails, Throws, TypeOK
<1>2. \A c \in Calls, s \in Services, ok \in BOOLEAN : <<c, s, ok>> \in Messages
  BY DEF Messages
<1>3. NothingYet' /\ FailuresReported'
  BY <1>1, <1>2 DEF Ledger, NothingYet, FailuresReported
<1> QED
  BY <1>1, <1>3 DEF Ledger, OneReport, Teller

\* The last consumer to look finds every service reported, and tells.
LEMMA LedgerTell ==
    ASSUME TypeOK, Ledger, NEW c \in Calls, NEW s \in Services, NEW ok \in BOOLEAN,
           TellEnd(<<c, s, ok>>)
    PROVE  Ledger'
<1> DEFINE m == <<c, s, ok>>
<1>1. /\ reports[m] = "updated" /\ m \in Messages
      /\ UNCHANGED <<calls, tracker, work, faults>>
      /\ reports' = [reports EXCEPT ![m] = "consumed"]
  BY DEF TellEnd, Messages
<1>2. \A d \in Calls, x \in Services, b \in BOOLEAN :
          reports'[<<d, x, b>>] = IF <<d, x, b>> = m THEN "consumed" ELSE reports[<<d, x, b>>]
  BY <1>1 DEF TypeOK, Messages
<1>3. /\ \A d \in Calls \ {c} : told'[d] = told[d]
      /\ told'[c] = told[c] \cup (IF AllCompleted(c) THEN {"completed"}
                                 ELSE IF FinishedWithFailures(m) THEN {"failed"} ELSE {})
  BY DEF TellEnd, TypeOK
<1>4. NothingYet'
  BY <1>1, <1>2 DEF Ledger, NothingYet
<1>5. FailuresReported'
  <2>1. \A d \in Calls, x \in Services :
            reports[<<d, x, FALSE>>] # "none" => reports'[<<d, x, FALSE>>] # "none"
    BY <1>2
  <2>2. FinishedWithFailures(m) => \E x \in Services : reports[<<c, x, FALSE>>] # "none"
    BY <1>1 DEF FinishedWithFailures, Ledger, FailuresReported
  <2>3. ASSUME NEW d \in Calls, "failed" \in told'[d]
        PROVE  \E x \in Services : reports[<<d, x, FALSE>>] # "none"
    <3>1. CASE "failed" \in told[d]
      BY <3>1 DEF Ledger, FailuresReported
    <3>2. CASE "failed" \notin told[d]
      <4>1. d = c
        BY <1>3, <2>3, <3>2
      <4>2. CASE FinishedWithFailures(m)
        BY <2>2, <4>1, <4>2
      <4>3. CASE ~FinishedWithFailures(m)
        BY <1>3, <2>3, <3>2, <4>1, <4>3
      <4> QED
        BY <4>2, <4>3
    <3> QED
      BY <3>1, <3>2
  <2> QED
    BY <1>1, <2>1, <2>3 DEF Ledger, FailuresReported
<1>6. ASSUME NEW d \in Calls, NEW x \in Services, faults' = 0 PROVE ReportOf(d, x)'
  <2>1. ReportOf(d, x)
    BY <1>1, <1>6 DEF Ledger, OneReport
  <2>2. CASE <<d, x>> # <<c, s>>
    <3>1. \A b \in BOOLEAN : reports'[<<d, x, b>>] = reports[<<d, x, b>>]
      BY <1>2, <2>2
    <3> QED
      BY <1>1, <2>1, <3>1, ReportStays
  <2>3. CASE <<d, x>> = <<c, s>>
    <3>1. ASSUME NEW b \in BOOLEAN
          PROVE  /\ (reports'[<<c, s, b>>] = "none" <=> reports[<<c, s, b>>] = "none")
                 /\ reports'[<<c, s, b>>] = "queued" => reports[<<c, s, b>>] = "queued"
                 /\ reports'[<<c, s, b>>] \in {"updated", "consumed"} =>
                       reports[<<c, s, b>>] \in {"updated", "consumed"}
      <4>1. CASE <<c, s, b>> = m
        BY <1>1, <1>2, <4>1
      <4>2. CASE <<c, s, b>> # m
        BY <1>2, <4>2
      <4> QED
        BY <4>1, <4>2
    <3>2. /\ <<c, s>> \in work => s \notin calls[c].unsent
          /\ <<c, s>> \in work \/ s \in calls[c].unsent =>
                tracker[c][s] = "running" /\ \A b \in BOOLEAN : reports'[<<c, s, b>>] = "none"
          /\ reports'[<<c, s, TRUE>>] = "none" \/ reports'[<<c, s, FALSE>>] = "none"
      BY <2>1, <2>3, <3>1 DEF ReportOf
    <3>3. ASSUME NEW b \in BOOLEAN
          PROVE  /\ reports'[<<c, s, b>>] = "queued" => tracker[c][s] = "running"
                 /\ reports'[<<c, s, b>>] \in {"updated", "consumed"} =>
                       tracker[c][s] = IF b THEN "done" ELSE "failed"
      BY <2>1, <2>3, <3>1 DEF ReportOf
    <3> QED
      BY <1>1, <2>3, <3>2, <3>3 DEF ReportOf
  <2> QED
    BY <2>2, <2>3
<1>7. ASSUME faults' = 0
      PROVE  /\ told'[c] # {} => Over(c)
             /\ told'[c] \subseteq {IF AllCompleted(c) THEN "completed" ELSE "failed"}
             /\ Over(c) => told'[c] # {}
  <2>1. tracker[c][s] = IF ok THEN "done" ELSE "failed"
    BY <1>1, <1>7 DEF Ledger, OneReport, ReportOf
  <2>2. \A x \in Services : tracker[c][x] \in {"absent", "running", "done", "failed"}
    BY DEF TypeOK, TrackerType
  <2>3. tracker[c] # NoServices
    BY <2>1 DEF NoServices
  <2>4. /\ told[c] # {} => Over(c)
        /\ told[c] \subseteq {IF AllCompleted(c) THEN "completed" ELSE "failed"}
    BY <1>1, <1>7 DEF Ledger, Teller
  <2>5. AllCompleted(c) => Over(c)
    BY <2>3 DEF AllCompleted, Over
  <2>6. FinishedWithFailures(m) => Over(c) /\ ~AllCompleted(c)
    BY <2>1, <2>3 DEF FinishedWithFailures, Reported, Over, AllCompleted
  <2>7. Over(c) /\ ~AllCompleted(c) => FinishedWithFailures(m)
    BY <2>1, <2>2 DEF FinishedWithFailures, Reported, Over, AllCompleted
  <2> QED
    BY <1>3, <2>4, <2>5, <2>6, <2>7
<1>8. Teller'
  <2>1. SUFFICES ASSUME faults' = 0, NEW d \in Calls
        PROVE  /\ told'[d] # {} => Over(d)
               /\ told'[d] \subseteq {IF AllCompleted(d) THEN "completed" ELSE "failed"}
               /\ Over(d) => \/ told'[d] # {}
                             \/ \E x \in Services, b \in BOOLEAN : reports'[<<d, x, b>>] = "updated"
    BY <1>1 DEF Teller, Over, AllCompleted
  <2>2. CASE d = c
    BY <1>7, <2>1, <2>2
  <2>3. CASE d # c
    <3>1. \A x \in Services, b \in BOOLEAN : reports'[<<d, x, b>>] = reports[<<d, x, b>>]
      BY <1>2, <2>3
    <3> QED
      BY <1>1, <1>3, <2>1, <2>3, <3>1 DEF Ledger, Teller
  <2> QED
    BY <2>2, <2>3
<1> QED
  BY <1>4, <1>5, <1>6, <1>8 DEF Ledger, OneReport

LEMMA LedgerStep ==
    ASSUME TypeOK, Reviewed, Ledger, [Next]_vars
    PROVE  Ledger'
<1> DEFINE Quiet == /\ UNCHANGED <<tracker, work, reports, told>>
                    /\ faults' = faults \/ Throws
                    /\ \A c \in Calls : /\ calls'[c].unsent = calls[c].unsent
                                        /\ calls'[c].step \in Early => calls[c].step \in Early
<1>0. /\ Quiet => Ledger'
      /\ calls \in [Calls -> CallType]
  BY LedgerQuiet DEF TypeOK
<1>1. ASSUME UNCHANGED <<calls, tracker, work, reports, told>>, faults' = faults \/ Throws
      PROVE  Ledger'
  BY <1>0, <1>1
<1>2. CASE Wizard
  <2>1. CASE OpenWizard \/ GoBack \/ CloseWizard \/ InitiateAnswered \/ CloseDialog \/ VerifyAnswered
    BY <1>1, <2>1 DEF OpenWizard, GoBack, CloseWizard, InitiateAnswered, CloseDialog,
       VerifyAnswered, serverVars
  <2>2. CASE (\E r \in Offered : Continue(r)) \/ \E i \in FreshIssue : Initiate(i)
    BY <1>1, <2>2 DEF Continue, Initiate, serverVars
  <2>3. ASSUME NEW c \in FreshCall, NEW code \in Issues, EnterCode(c, code) PROVE Ledger'
    <3>1. c \in Calls /\ calls[c].step = "idle"
      BY FreshCalls
    <3>2. calls' = [calls EXCEPT ![c] = [@ EXCEPT !.step = "exists", !.id = vid,
                                                 !.right = code = vid, !.seen = form]]
      BY <2>3 DEF EnterCode
    <3>3. Quiet
      BY <1>0, <2>3, <3>1, <3>2 DEF EnterCode, Early, CallType
    <3> QED
      BY <1>0, <3>3
  <2> QED
    BY <1>2, <2>1, <2>2, <2>3 DEF Wizard
<1>3. CASE Page
  BY <1>1, <1>3 DEF Page, Fetch, Redraw, PushArrives, serverVars
<1>4. ASSUME NEW c \in FreshCall, NEW r \in Requests, ApiVerified(c, r) PROVE Ledger'
  <2>1. c \in Calls /\ calls[c].step = "idle"
    BY FreshCalls
  <2>2. Quiet
    BY <1>0, <1>4, <2>1 DEF ApiVerified, Early, CallType
  <2> QED
    BY <1>0, <2>2
<1>5. ASSUME NEW c \in Calls, CallStep(c) PROVE Ledger'
  <2>1. CASE KeyExists(c) \/ GetValue(c) \/ RemoveKey(c) \/ NotifyStarted(c)
    <3>1. Quiet
      <4>1. CASE KeyExists(c)
        BY <1>0, <4>1 DEF KeyExists, Step, Early, CallType
      <4>2. CASE GetValue(c)
        <5>1. CASE Step(c, "refused")
          BY <1>0, <4>2, <5>1 DEF GetValue, Step, Early, CallType
        <5>2. CASE calls' = [calls EXCEPT ![c] = [@ EXCEPT !.step = "remove",
                                                         !.asked = cache[calls[c].id]]]
          BY <1>0, <4>2, <5>2 DEF GetValue, Early, CallType
        <5> QED
          BY <4>2, <5>1, <5>2 DEF GetValue
      <4>3. CASE RemoveKey(c)
        BY <1>0, <4>3 DEF RemoveKey, Step, Early, CallType
      <4>4. CASE NotifyStarted(c)
        BY <1>0, <4>4 DEF NotifyStarted, Step, Early, CallType
      <4> QED
        BY <2>1, <4>1, <4>2, <4>3, <4>4
    <3> QED
      BY <1>0, <3>1
  <2> QED
    BY <1>5, <2>1, LedgerTrack, LedgerSend DEF CallStep
<1>6. ASSUME NEW c \in Calls, CallFails(c) \/ WindowEnds(c) PROVE Ledger'
  <2>1. CASE CallFails(c)
    <3>1. Quiet
      BY <1>0, <2>1 DEF CallFails, Step, Early, CallType
    <3> QED
      BY <1>0, <3>1
  <2> QED
    BY <1>1, <1>6, <2>1 DEF WindowEnds
<1>7. ASSUME NEW m \in Messages, Consume(m) \/ TellFails(m) PROVE Ledger'
  <2>1. PICK c \in Calls, s \in Services, ok \in BOOLEAN : m = <<c, s, ok>>
    BY DEF Messages
  <2> QED
    BY <1>7, <2>1, LedgerUpdate, LedgerTell, LedgerThrows DEF Consume
<1>8. CASE \E i \in Issues : CodeExpires(i)
  BY <1>1, <1>8 DEF CodeExpires, serverVars
<1>9. CASE UNCHANGED vars
  BY <1>1, <1>9 DEF vars, serverVars
<1> QED
  BY <1>2, <1>3, <1>4, <1>5, <1>6, <1>7, <1>8, <1>9, LedgerReport DEF Next

-----------------------------------------------------------------------------
(* The theorems.                                                           *)

\* The inductive invariant: what the wizard, the codes and the calls know of each
\* other, and where the report of every service is.
THEOREM Invariance == Spec => []IInv
<1>1. IInv /\ [Next]_vars => IInv'
  BY TypeStep, ReviewedStep, LedgerStep DEF IInv
<1> QED
  BY InitHolds, <1>1, PTL DEF Spec

\* Every reachable state of the migration is well typed.
THEOREM TypeCorrect == Spec => []TypeOK
<1>1. IInv => TypeOK
  BY DEF IInv
<1> QED
  BY <1>1, Invariance, PTL

\* What a code starts is what the wizard showed when the code was entered
\* (MigrateAsync caches the request under the id the dialog sends back).
THEOREM Started == Spec => []StartedAsReviewed
<1>1. IInv => StartedAsReviewed
  BY DEF IInv, Reviewed, Carried, StartedAsReviewed, TypeOK, CallType
<1> QED
  BY <1>1, Invariance, PTL

\* The last of the completion messages to be consumed tells the end of a migration,
\* whatever their order and overlap (MigrationCompletionConsumer).
THEOREM Told == Spec => []EndTold
<1>1. IInv => EndTold
  <2>1. SUFFICES ASSUME IInv, NEW c \in Calls
        PROVE  /\ ( /\ Over(c) /\ faults = 0
                    /\ \A m \in Messages : m[1] = c => reports[m] \in {"none", "consumed"}
                  ) => told[c] = {IF AllCompleted(c) THEN "completed" ELSE "failed"}
               /\ "failed" \in told[c] => \E s \in Services : reports[<<c, s, FALSE>>] # "none"
    BY DEF EndTold
  <2>2. ASSUME Over(c), faults = 0,
               \A m \in Messages : m[1] = c => reports[m] \in {"none", "consumed"}
        PROVE  told[c] = {IF AllCompleted(c) THEN "completed" ELSE "failed"}
    <3>1. \A s \in Services, ok \in BOOLEAN : reports[<<c, s, ok>>] # "updated"
      BY <2>2 DEF Messages
    <3> QED
      <4>1. /\ told[c] # {}
            /\ told[c] \subseteq {IF AllCompleted(c) THEN "completed" ELSE "failed"}
        BY <2>1, <2>2, <3>1 DEF IInv, Ledger, Teller
      <4> QED
        BY <4>1
  <2>3. "failed" \in told[c] => \E s \in Services : reports[<<c, s, FALSE>>] # "none"
    BY <2>1 DEF IInv, Ledger, FailuresReported
  <2> QED
    BY <2>2, <2>3
<1> QED
  BY <1>1, Invariance, PTL
=============================================================================

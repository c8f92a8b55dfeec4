------------------------------ MODULE Migration ------------------------------
(***************************************************************************)
(* Environment migration: the wizard that asks for it, the one-time code   *)
(* that confirms it, the tracker document and the messages to the service  *)
(* workers, their completion messages, and the environments page that      *)
(* shows how it goes.  All migrations here aim at one environment.         *)
(*                                                                         *)
(* Each cache, database and messaging step of a call is a step of its own. *)
(* A code is named by the issue that mailed it; a tracker by the call that *)
(* created it.  Who answers the messages is external: the services with    *)
(* queues of their own are other programs, and for the generic queue the   *)
(* repository has code (MigrateEnvironmentDataAsync) but registers no      *)
(* consumer that calls it.                                                 *)
(***************************************************************************)
EXTENDS Naturals, FiniteSets

CONSTANTS Requests,    \* what can be asked for: environments, services, overwriting
          Offered,     \* the requests the wizard's catalogue lets a user compose
          Services,
          ServicesOf,  \* the services of each request
          Queued,      \* services that have a queue
          Served,      \* services whose worker answers
          Issues,      \* bound: one-time codes
          Calls,       \* bound: verify calls
          None,
          MaxFaults    \* bound: calls that throw, answers and processes that are lost

ASSUME MigrationAssumption ==
    /\ Offered \subseteq Requests /\ Served \subseteq Queued /\ Queued \subseteq Services
    /\ ServicesOf \in [Requests -> SUBSET Services]
    /\ None \notin Requests \cup Issues \cup Calls
    /\ MaxFaults \in Nat

VARIABLES cache,     \* request behind each verification id, None if there is none
          mailed,    \* whether each code was mailed
          calls,     \* the verify calls
          tracker,   \* status of each service of each migration
          recent,    \* migrations less than ten minutes old
          work,      \* messages to the service workers
          reports,   \* stage of each completion message
          told,      \* history: final notifications, by migration
          faults,
          place,     \* what the browser shows
          form,      \* the request under review
          asking,    \* the initiate call in flight
          resend,    \* it was sent from the open dialog
          vid,       \* verificationId
          dialog,    \* isVerificationModalOpen
          verifying, \* the verify call in flight
          data,      \* the trackers the page was last given
          owed,      \* the page fetches them when it is mounted
          shown,     \* what the card of the environment was last drawn as
          polling    \* the refetch timer is running

codeVars   == <<cache, mailed>>
serverVars == <<calls, tracker, recent, work, reports, told>>
wizardVars == <<form, asking, resend, vid, dialog, verifying>>
cardVars   == <<data, owed, shown, polling>>
vars == <<codeVars, serverVars, faults, place, wizardVars, cardVars>>

-----------------------------------------------------------------------------
Messages == Calls \X Services \X BOOLEAN
NoServices == [s \in Services |-> "absent"]
NoCall == [step |-> "idle", id |-> None, right |-> FALSE, asked |-> None, seen |-> None, unsent |-> {}]

Reported(status) == status \in {"done", "failed"}

Over(c) == /\ tracker[c] # NoServices
           /\ \A s \in Services : tracker[c][s] # "running"

\* Calls and codes are interchangeable: the next one is any that is free.
AnyOf(S) == IF S = {} THEN {} ELSE {CHOOSE x \in S : TRUE}
FreshCall == AnyOf({c \in Calls : calls[c].step = "idle"})
FreshIssue == AnyOf({i \in Issues : mailed[i] = "unused"})

Throws == faults < MaxFaults /\ faults' = faults + 1
Step(c, step) == calls' = [calls EXCEPT ![c].step = step]

-----------------------------------------------------------------------------
(* The wizard: compose, review, ask for a code, enter it.                  *)

\* What the card shows, and whether the page goes on polling.
InProgress(d, c) ==
    /\ recent[c]
    /\ \E s \in Services : d[c][s] = "running"
    /\ \A s \in Services : d[c][s] # "failed"
Failed(d, c) == recent[c] /\ \E s \in Services : d[c][s] = "failed"
Drawn(d) == IF \E c \in Calls : InProgress(d, c) THEN "in-progress"
            ELSE IF \E c \in Calls : Failed(d, c) THEN "failed" ELSE "done"
HasOngoing(d) == \E c \in Calls : recent[c] /\ d[c] # NoServices

\* Mounting the environments page: drawn from the cache, fetched again if stale.
ShowEnvironments(invalidated) ==
    /\ place' = "environments"
    /\ owed' \in {TRUE, invalidated}
    /\ shown' = Drawn(data)
    /\ polling' = HasOngoing(data)
    /\ UNCHANGED data

\* Slip: an answer that comes late still opens its dialog.
UnmountedLate == form' = None /\ vid' = None /\ dialog' = FALSE /\ UNCHANGED <<asking, resend>>

\* A step of the wizard that is unmounted forgets its code and its late answers.
Unmounted ==
    form' = None /\ asking' = None /\ resend' = FALSE /\ vid' = None /\ dialog' = FALSE

OpenWizard ==
    /\ place = "environments"
    /\ place' = "select"
    /\ owed' = FALSE /\ shown' = "done" /\ polling' = FALSE
    /\ UNCHANGED <<codeVars, serverVars, faults, wizardVars, data>>

Continue(r) ==
    /\ place = "select"
    /\ form' = r
    /\ place' = "review"
    /\ UNCHANGED <<codeVars, serverVars, faults, asking, resend, vid, dialog, verifying, cardVars>>

GoBack ==
    /\ place = "review" /\ ~dialog
    /\ place' = "select"
    /\ Unmounted
    /\ UNCHANGED <<codeVars, serverVars, faults, verifying, cardVars>>

CloseWizard ==
    /\ place \in {"select", "review"} /\ ~dialog
    /\ Unmounted
    /\ ShowEnvironments(FALSE)
    /\ UNCHANGED <<codeVars, serverVars, faults, verifying>>

\* Start and Resend: Migrate caches the request under a new id and mails the code.
\* As a bound, no code is asked for that no call is left to enter.
Initiate(i) ==
    /\ place = "review" /\ asking = None
    /\ FreshCall # {}
    /\ mailed[i] = "unused"
    /\ asking' = i /\ resend' = dialog
    /\ cache' = [cache EXCEPT ![i] = form]
    /\ \E sent \in {"sent", "unsent"} : mailed' = [mailed EXCEPT ![i] = sent]
    /\ UNCHANGED <<serverVars, faults, place, form, vid, dialog, verifying, cardVars>>

\* Only a mailed code is a success; the answer itself may be lost.  That of a
\* resend does not open the dialog again.
InitiateAnswered ==
    /\ asking # None
    /\ asking' = None /\ resend' = FALSE
    /\ \/ mailed[asking] = "sent" /\ vid' = asking /\ dialog' = (dialog \/ ~resend) /\ UNCHANGED faults
       \/ mailed[asking] # "sent" /\ UNCHANGED <<vid, dialog, faults>>
       \/ Throws /\ UNCHANGED <<vid, dialog>>
    /\ UNCHANGED <<codeVars, serverVars, place, form, verifying, cardVars>>

CloseDialog ==
    /\ dialog
    /\ dialog' = FALSE
    /\ UNCHANGED <<codeVars, serverVars, faults, place, form, asking, resend, vid, verifying, cardVars>>

\* The user enters any code that was mailed; it goes with the latest id.
EnterCode(c, code) ==
    /\ dialog /\ verifying = None
    /\ calls[c].step = "idle" /\ mailed[code] = "sent"
    /\ calls' = [calls EXCEPT ![c] = [@ EXCEPT !.step = "exists", !.id = vid, !.right = code = vid,
                                               !.seen = form]]
    /\ verifying' = c
    /\ UNCHANGED <<codeVars, tracker, recent, work, reports, told, faults, place, form,
                   asking, resend, vid, dialog, cardVars>>

\* Success navigates from wherever the wizard is; an error leaves the dialog.
VerifyAnswered ==
    /\ verifying # None
    /\ verifying' = None
    /\ \/ /\ calls[verifying].step = "started"
          /\ Unmounted
          /\ IF place = "environments" THEN owed' = TRUE /\ UNCHANGED <<place, data, shown, polling>>
             ELSE ShowEnvironments(TRUE)
          /\ UNCHANGED faults
       \/ /\ calls[verifying].step \in {"refused", "error"}
          /\ UNCHANGED <<place, form, asking, resend, vid, dialog, cardVars, faults>>
       \/ Throws /\ UNCHANGED <<place, form, asking, resend, vid, dialog, cardVars>>
    /\ UNCHANGED <<codeVars, serverVars>>

-----------------------------------------------------------------------------
(* VerifyAsync and HandleServiceMigrations.                                *)

\* The id must be known and its code the one given.
KeyExists(c) ==
    /\ calls[c].step = "exists"
    /\ Step(c, IF cache[calls[c].id] = None THEN "refused" ELSE "get")
    /\ UNCHANGED <<codeVars, tracker, recent, work, reports, told, faults, place,
                   wizardVars, cardVars>>

GetValue(c) ==
    /\ calls[c].step = "get"
    /\ IF cache[calls[c].id] # None /\ calls[c].right
         THEN calls' = [calls EXCEPT ![c] = [@ EXCEPT !.step = "remove",
                                                      !.asked = cache[calls[c].id]]]
         ELSE Step(c, "refused")
    /\ UNCHANGED <<codeVars, tracker, recent, work, reports, told, faults, place,
                   wizardVars, cardVars>>

RemoveKey(c) ==
    /\ calls[c].step = "remove"
    /\ cache' = [cache EXCEPT ![calls[c].id] = None]
    /\ Step(c, "track")
    /\ UNCHANGED <<mailed, tracker, recent, work, reports, told, faults, place,
                   wizardVars, cardVars>>

\* Another client of the API had its own code verified; it may ask for anything.
\* As a bound, it comes before the wizard asks for a code.
ApiVerified(c, r) ==
    /\ calls[c].step = "idle"
    /\ \A i \in Issues : mailed[i] = "unused"
    /\ calls' = [calls EXCEPT ![c] = [@ EXCEPT !.step = "track", !.asked = r]]
    /\ UNCHANGED <<codeVars, tracker, recent, work, reports, told, faults, place,
                   wizardVars, cardVars>>

CreateTracker(c) ==
    /\ calls[c].step = "track"
    /\ tracker' = [tracker EXCEPT ![c] =
           [s \in Services |-> IF s \in ServicesOf[calls[c].asked] THEN "running" ELSE "absent"]]
    /\ recent' = [recent EXCEPT ![c] = TRUE]
    /\ calls' = [calls EXCEPT ![c] = [@ EXCEPT !.step = "send",
                                               !.unsent = ServicesOf[calls[c].asked]]]
    /\ UNCHANGED <<codeVars, work, reports, told, faults, place, wizardVars, cardVars>>

\* Slip: a service without a queue gets a message all the same.
SendAll(c) ==
    /\ calls[c].step = "send"
    /\ \/ \E s \in calls[c].unsent :
             work' = work \cup {<<c, s>>} /\ calls' = [calls EXCEPT ![c].unsent = @ \ {s}]
       \/ calls[c].unsent = {} /\ Step(c, "notify") /\ UNCHANGED work
    /\ UNCHANGED <<codeVars, tracker, recent, reports, told, faults, place, wizardVars,
                   cardVars>>

\* A service without a queue gets no message.
Send(c) ==
    /\ calls[c].step = "send"
    /\ \/ \E s \in calls[c].unsent :
             /\ work' = work \cup ({<<c, s>>} \cap (Calls \X Queued))
             /\ calls' = [calls EXCEPT ![c].unsent = @ \ {s}]
       \/ calls[c].unsent = {} /\ Step(c, "notify") /\ UNCHANGED work
    /\ UNCHANGED <<codeVars, tracker, recent, reports, told, faults, place, wizardVars,
                   cardVars>>

NotifyStarted(c) ==
    /\ calls[c].step = "notify"
    /\ Step(c, "started")
    /\ UNCHANGED <<codeVars, tracker, recent, work, reports, told, faults, place, wizardVars,
                   cardVars>>

\* A call that throws, or whose process stops, stays where it was.
CallFails(c) ==
    /\ calls[c].step \notin {"idle", "refused", "error", "started"}
    /\ Step(c, "error")
    /\ Throws
    /\ UNCHANGED <<codeVars, tracker, recent, work, reports, told, place, wizardVars,
                   cardVars>>

-----------------------------------------------------------------------------
(* The workers of the services, and MigrationCompletionConsumer.           *)

\* A worker reports once for its message, or is given it again as a fault.  A
\* failure that is reported twice, as the generic worker does (its catch and the
\* catch around it), is one report here: writing and telling it again changes
\* neither the tracker nor what was told.
Report(c, s, ok) ==
    /\ <<c, s>> \in work /\ s \in Served
    /\ reports[<<c, s, ok>>] = "none"
    /\ reports' = [reports EXCEPT ![<<c, s, ok>>] = "queued"]
    /\ \/ work' = work \ {<<c, s>>} /\ UNCHANGED faults
       \/ Throws /\ UNCHANGED work
    /\ UNCHANGED <<codeVars, calls, tracker, recent, told, place, wizardVars, cardVars>>

\* The update finds its tracker and changes it; one that did not would give no
\* final notification.
UpdateStatus(m) ==
    /\ reports[m] = "queued"
    /\ tracker' = [tracker EXCEPT ![m[1]][m[2]] = IF m[3] THEN "done" ELSE "failed"]
    /\ reports' = [reports EXCEPT ![m] = "updated"]
    /\ UNCHANGED <<codeVars, calls, recent, work, told, faults, place, wizardVars, cardVars>>

\* The service that just reported counts as it reported, whatever the tracker says.
AllCompleted(c) == \A s \in Services : tracker[c][s] \in {"absent", "done"}
\* Slip: only the service that reports last is looked at.
FinishedFailing(m) == ~m[3] /\ \A s \in Services : s = m[2] \/ tracker[m[1]][s] # "running"

FinishedWithFailures(m) ==
    LET c == m[1] IN
    /\ \A s \in Services : s = m[2] \/ tracker[c][s] = "absent" \/ Reported(tracker[c][s])
    /\ \E s \in Services : IF s = m[2] THEN ~m[3] ELSE tracker[c][s] = "failed"

\* The final success goes to the page; the failure has a notification of its own.
TellEnd(m) ==
    /\ reports[m] = "updated"
    /\ reports' = [reports EXCEPT ![m] = "consumed"]
    /\ \/ /\ AllCompleted(m[1])
          /\ told' = [told EXCEPT ![m[1]] = @ \cup {"completed"}]
       \/ /\ ~AllCompleted(m[1])
          /\ told' = [told EXCEPT ![m[1]] =
                 IF FinishedWithFailures(m) THEN @ \cup {"failed"} ELSE @]
    /\ UNCHANGED <<codeVars, calls, tracker, recent, work, faults, place, wizardVars, cardVars>>

\* The progress notification throws before the final one; the message comes back
\* or is given up.
TellFails(m) ==
    /\ reports[m] = "updated"
    /\ \E stage \in {"queued", "consumed"} : reports' = [reports EXCEPT ![m] = stage]
    /\ Throws
    /\ UNCHANGED <<codeVars, calls, tracker, recent, work, told, place, wizardVars, cardVars>>

-----------------------------------------------------------------------------
(* The environments page.                                                  *)

\* The server lists the trackers with a service that is not done.
Listing == [c \in Calls |-> IF \E s \in Services : tracker[c][s] \in {"running", "failed"}
                              THEN tracker[c] ELSE NoServices]

\* Slip: the page fetches once.
RefetchedOnce == data' = Listing /\ shown' = Drawn(Listing) /\ polling' = FALSE

\* The page is drawn again only when what it was given changed.
Refetched ==
    /\ data' = Listing
    /\ shown' = IF Listing # data THEN Drawn(Listing) ELSE shown
    /\ polling' = HasOngoing(Listing)

Fetch ==
    /\ place = "environments" /\ (owed \/ polling)
    /\ Refetched
    /\ owed' = FALSE
    /\ UNCHANGED <<codeVars, serverVars, faults, place, wizardVars>>

\* The notification of a start or of a success, late or never: it is lost while the
\* socket is rebuilt.  That of a failure has another name, which nobody listens to.
PushArrives ==
    /\ place = "environments"
    /\ \E c \in Calls : calls[c].step = "started" \/ "completed" \in told[c]
    /\ Refetched
    /\ UNCHANGED <<codeVars, serverVars, faults, place, wizardVars, owed>>

\* Anything else that draws the page again.
Redraw ==
    /\ place = "environments"
    /\ shown' = Drawn(data)
    /\ polling' = HasOngoing(data)
    /\ UNCHANGED <<codeVars, serverVars, faults, place, wizardVars, data, owed>>

\* Ten minutes after a code was mailed, and after a migration was created.
CodeExpires(i) ==
    /\ cache[i] # None
    /\ cache' = [cache EXCEPT ![i] = None]
    /\ UNCHANGED <<mailed, serverVars, faults, place, wizardVars, cardVars>>

WindowEnds(c) ==
    /\ recent[c]
    /\ recent' = [recent EXCEPT ![c] = FALSE]
    /\ UNCHANGED <<codeVars, calls, tracker, work, reports, told, faults, place, wizardVars,
                   cardVars>>

-----------------------------------------------------------------------------
Init ==
    /\ cache = [i \in Issues |-> None]
    /\ mailed = [i \in Issues |-> "unused"]
    /\ calls = [c \in Calls |-> NoCall]
    /\ tracker = [c \in Calls |-> NoServices]
    /\ recent = [c \in Calls |-> FALSE]
    /\ work = {}
    /\ reports = [m \in Messages |-> "none"]
    /\ told = [c \in Calls |-> {}]
    /\ faults = 0
    /\ place = "environments"
    /\ form = None /\ asking = None /\ resend = FALSE /\ vid = None /\ dialog = FALSE /\ verifying = None
    /\ data = [c \in Calls |-> NoServices]
    /\ owed = TRUE /\ shown = "done" /\ polling = FALSE

Wizard ==
    \/ OpenWizard \/ GoBack \/ CloseWizard \/ InitiateAnswered \/ CloseDialog \/ VerifyAnswered
    \/ \E r \in Offered : Continue(r)
    \/ \E i \in FreshIssue : Initiate(i)
    \/ \E c \in FreshCall, code \in Issues : EnterCode(c, code)

CallStep(c) ==
    \/ KeyExists(c) \/ GetValue(c) \/ RemoveKey(c) \/ CreateTracker(c) \/ Send(c) \/ NotifyStarted(c)

Consume(m) == UpdateStatus(m) \/ TellEnd(m)

Page == Fetch \/ Redraw \/ PushArrives

Next ==
    \/ Wizard \/ Page
    \/ \E c \in FreshCall, r \in Requests : ApiVerified(c, r)
    \/ \E c \in Calls : CallStep(c) \/ CallFails(c) \/ WindowEnds(c)
    \/ \E c \in Calls, s \in Services, ok \in BOOLEAN : Report(c, s, ok)
    \/ \E m \in Messages : Consume(m) \/ TellFails(m)
    \/ \E i \in Issues : CodeExpires(i)

\* The page fetches when it is due.
Spec == Init /\ [][Next]_vars /\ WF_vars(Fetch)

-----------------------------------------------------------------------------
(* Properties.                                                             *)

CallSteps == {"idle", "exists", "get", "remove", "track", "send", "notify",
              "started", "refused", "error"}
CallType == [step : CallSteps, id : Issues \cup {None}, right : BOOLEAN,
             asked : Requests \cup {None}, seen : Requests \cup {None},
             unsent : SUBSET Services]
TrackerType == [Calls -> [Services -> {"absent", "running", "done", "failed"}]]

TypeOK ==
    /\ cache \in [Issues -> Requests \cup {None}]
    /\ mailed \in [Issues -> {"unused", "sent", "unsent"}]
    /\ calls \in [Calls -> CallType]
    /\ tracker \in TrackerType
    /\ recent \in [Calls -> BOOLEAN]
    /\ work \subseteq Calls \X Queued
    /\ reports \in [Messages -> {"none", "queued", "updated", "consumed"}]
    /\ told \in [Calls -> SUBSET {"completed", "failed"}]
    /\ faults \in Nat
    /\ place \in {"environments", "select", "review"}
    /\ form \in Offered \cup {None}
    /\ asking \in Issues \cup {None} /\ vid \in Issues \cup {None}
    /\ verifying \in Calls \cup {None}
    /\ resend \in BOOLEAN /\ dialog \in BOOLEAN /\ owed \in BOOLEAN /\ polling \in BOOLEAN
    /\ data \in TrackerType
    /\ shown \in {"done", "in-progress", "failed"}

\* "Please ensure that all the details below are correct, as this action is
\* permanent.": what a code entered in the wizard starts is what the wizard showed
\* when it was entered, whatever was composed, resent and answered late before.
StartedAsReviewed ==
    \A c \in Calls : calls[c].seen # None /\ calls[c].asked # None => calls[c].asked = calls[c].seen

\* When the last service of a migration has reported, no call threw and no answer,
\* message or process was lost or doubled, its end has been told, however its
\* completion messages overlapped; and a failure that was told was reported
\* (Consume, NotifyIfFinishedWithFailuresAsync).
EndTold ==
    \A c \in Calls :
        /\ ( /\ Over(c) /\ faults = 0
             /\ \A m \in Messages : m[1] = c => reports[m] \in {"none", "consumed"}
           ) => told[c] = {IF AllCompleted(c) THEN "completed" ELSE "failed"}
        /\ "failed" \in told[c] => \E s \in Services : reports[<<c, s, FALSE>>] # "none"

\* A migration that ends within its ten minutes does not keep its environment drawn
\* as in progress, even when every notification is lost.
Running(c) == \E s \in Services : data[c][s] = "running"
PageCatchesUp ==
    \A c \in Calls :
        Over(c) /\ recent[c] /\ Running(c)
            ~> ~Running(c) \/ shown # "in-progress" \/ place # "environments"

\* "The environments page treats one as ongoing for ten minutes after it was
\* created": a card drawn as in progress is still followed by a poll.
SpinnerFollowed == place = "environments" /\ shown = "in-progress" => polling \/ owed

\* A code starts one migration.
OneStartPerCode ==
    \A c, d \in Calls :
        /\ {c, d} \cap {None} = {} /\ c # d
        /\ calls[c].id # None /\ calls[c].id = calls[d].id
        => tracker[c] = NoServices \/ tracker[d] = NoServices
=============================================================================

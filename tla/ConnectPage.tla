----------------------------- MODULE ConnectPage -----------------------------
(***************************************************************************)
(* The "Connect with Blocks OS" page in one browser tab, composed with the *)
(* server of ConnectServer and the site that opened the request.           *)
(*                                                                         *)
(* The tenant a request runs under is in a cookie: impersonation answers   *)
(* set it, in the order they arrive, and so do other tabs.  The page keeps *)
(* what the user chose; nothing but the readiness wait ties the two.       *)
(*                                                                         *)
(* A generation of the readiness wait is represented by `live': the checks *)
(* of an older generation are no longer live.  An effect of React runs     *)
(* after the change it depends on and before the next answer or timer, or  *)
(* later: it is an action of its own.                                      *)
(***************************************************************************)
EXTENDS ConnectServer, Sequences

CONSTANTS Slots,      \* bound: readiness checks in flight
          MaxClicks,  \* bound: clicks on Connect and Retry
          MaxPolls,   \* bound: polls before the two minutes are over
          MaxAway     \* bound: sessions that end, and tenants other tabs open

ASSUME PageAssumption == {MaxClicks, MaxPolls, MaxAway} \subseteq Nat

\* A callback that carries a code is not the one that says access_denied.
ASSUME CallbackAssumption == "denied" \notin Calls

VARIABLES place,      \* what the tab shows
          auth,       \* isAuthenticated
          saved,      \* the pending request in localStorage
          known,      \* requestId
          abandoned,  \* calls of a page that was unmounted, still to be answered
          cookie,     \* environment the next request runs under, None for the root
          tenant,     \* the environment the impersonation store knows of
          cached,     \* tenants whose cache holds the request
          failed,     \* tenants whose cache holds a failure to read it
          selected,   \* selectedEnvironment
          elsewhere,  \* the project on the screen is not that of the selected environment
          template,   \* templateKey
          checks,     \* readiness checks in flight
          timers,     \* poll timers that will fire
          polls,      \* polls since startedAt
          phase,      \* state of the readiness wait
          startedFor, \* approvalStartedFor
          sending,    \* the approve call in flight
          cancelling, \* the cancel call in flight
          code,       \* the code of successRedirectUrl
          leaving,    \* leftForSite
          visits,     \* history: callback URLs the browser loaded
          consent,    \* history: the environment selected when a call was sent
          clicked,    \* history: a click on Connect no approval has followed yet
          clicks,
          away

tabVars   == <<place, auth, saved, known, abandoned>>
tokenVars == <<cookie, tenant>>
viewVars  == <<cached, failed>>
chosenVars == <<selected, elsewhere, template>>
waitVars  == <<checks, timers, polls, phase>>
sendVars  == <<startedFor, sending, cancelling, code, leaving>>
pastVars  == <<visits, consent, clicked>>
pageVars  == <<tabVars, tokenVars, viewVars, chosenVars, waitVars, sendVars,
              pastVars, clicks, away>>
vars == <<serverVars, pageVars>>

-----------------------------------------------------------------------------
Tenants == Envs \cup {None}

\* Calls are interchangeable, and so are checks: the next one is any that is free.
AnyOf(S) == IF S = {} THEN {} ELSE {CHOOSE x \in S : TRUE}
NextCall == AnyOf({c \in Calls : pc[c] = "idle"})

NoCheck == [step |-> "none", env |-> None, template |-> None, under |-> None, live |-> FALSE]
Idle == [p |-> "idle", env |-> None, template |-> None]
Phase(p) == [Idle EXCEPT !.p = p]
Ready(e, t) == [p |-> "ready", env |-> e, template |-> t]

Waiting == phase.p \in {"checking", "waiting"}
Working == Waiting \/ sending # None
NoSelection == <<None, None>>
Selection == <<selected, template>>

OnPage == place = "connect" /\ auth /\ known
Shown == tenant \in cached \ failed

\* The form is on the screen.
FormShown == OnPage /\ Shown /\ code = None

LiveChecks == {s \in Slots : checks[s].step # "none" /\ checks[s].live}

\* reset and begin start a new generation and clear the timer they know of.
Superseded == [s \in Slots |-> [checks[s] EXCEPT !.live = FALSE]]
OneTimerLess == IF timers = 0 THEN 0 ELSE timers - 1

\* Slip: the generation stays, and late answers count.
ResetWaitInPlace == UNCHANGED checks /\ timers' = OneTimerLess /\ polls' = 0 /\ phase' = Idle

ResetWait ==
    /\ checks' = Superseded
    /\ timers' = OneTimerLess
    /\ polls' = 0
    /\ phase' = Idle

\* check: impersonate the chosen environment, then ask for its readiness.
StartCheck(from) ==
    \E s \in AnyOf({s \in Slots : from[s].step = "none"}) :
        /\ checks' = [from EXCEPT ![s] = [step |-> "impersonate", env |-> selected,
                                          template |-> template, under |-> None, live |-> TRUE]]
        /\ phase' = Phase("checking")

\* What a page that is mounted again starts from.  The promises of the calls it
\* has sent are not cancelled: what follows them still runs.
Mounted ==
    /\ abandoned' = abandoned \cup ({sending, cancelling} \ {None})
    /\ cached' = {} /\ failed' = {}
    /\ selected' = None /\ template' = None /\ elsewhere' = FALSE
    /\ checks' = Superseded /\ timers' = 0 /\ polls' = 0 /\ phase' = Idle
    /\ startedFor' = NoSelection /\ sending' = None /\ cancelling' = None
    /\ code' = None /\ leaving' = FALSE
    /\ clicked' = FALSE

-----------------------------------------------------------------------------
(* Arriving, logging in and coming back.                                   *)

\* The entry step opens the request.  A visitor who is not logged in will need
\* the hand-off.
RequestCreated ==
    /\ place = "connect" /\ ~known
    /\ known' = TRUE
    /\ saved' = (saved \/ ~auth)
    /\ UNCHANGED <<serverVars, place, auth, abandoned, tokenVars, viewVars, chosenVars, waitVars,
                   sendVars, pastVars, clicks, away>>

SessionEnds ==
    /\ place = "connect" /\ auth
    /\ away < MaxAway /\ away' = away + 1
    /\ auth' = FALSE
    /\ UNCHANGED <<serverVars, place, saved, known, abandoned, tokenVars, viewVars, chosenVars,
                   waitVars, sendVars, pastVars, clicks>>

\* The page saves the request again before it sends the user to log in.
ToLogin ==
    /\ place = "connect" /\ known /\ ~auth
    /\ saved' = TRUE
    /\ place' = "login"
    /\ Mounted
    /\ UNCHANGED <<serverVars, auth, known, tokenVars, visits, consent, clicks, away>>

\* Some ways to log in load the application anew.
LogIn ==
    /\ place = "login"
    /\ abandoned' \in {abandoned, {}}
    /\ auth' = TRUE
    /\ place' = "console"
    /\ cookie' = None /\ tenant' = None
    /\ UNCHANGED <<serverVars, saved, known, viewVars, chosenVars, waitVars, sendVars, pastVars,
                   clicks, away>>

\* PendingConnectRedirect consumes the hand-off; an expired one is dropped.
PendingRedirect ==
    /\ place = "console"
    /\ \/ saved /\ place' = "connect"
       \/ (~saved \/ expired) /\ place' = "out"
    /\ saved' = FALSE
    /\ Mounted
    /\ UNCHANGED <<serverVars, auth, known, tokenVars, visits, consent, clicks, away>>

\* Reading the request claims it.  A failure to read it drops the hand-off.
FetchRequest(u) ==
    /\ OnPage
    /\ claimedBy' = IF Claimable(u) THEN u ELSE claimedBy
    /\ IF Visible /\ claimedBy' = u
         THEN /\ cached' = cached \cup {tenant} /\ failed' = failed \ {tenant}
              /\ UNCHANGED saved
         ELSE /\ failed' = failed \cup {tenant}
              /\ saved' = FALSE
              /\ UNCHANGED cached
    /\ UNCHANGED <<status, stale, expired, grant, iamVars, pc, arg, answer, left, handed, badVars,
                   place, auth, known, abandoned, tokenVars, chosenVars, waitVars, sendVars,
                   pastVars, clicks, away>>

-----------------------------------------------------------------------------
(* Choosing.  Each choice takes back the readiness of the one before.      *)

Choose ==
    /\ ResetWait
    /\ startedFor' = NoSelection
    /\ clicked' = FALSE
    /\ UNCHANGED <<serverVars, tabVars, tokenVars, viewVars, sending, cancelling, code, leaving,
                   visits, consent, clicks, away>>

SelectProject ==
    /\ FormShown
    /\ selected' = None /\ template' = None /\ elsewhere' = FALSE
    /\ Choose

\* Also while a check or an approval is on its way.
SelectEnvironment(e) ==
    /\ FormShown
    /\ e # selected \/ elsewhere
    /\ selected' = e /\ template' \in Templates /\ elsewhere' = FALSE
    /\ Choose

SelectTemplate(t) ==
    /\ FormShown /\ selected # None /\ ~Working
    /\ template' = t
    /\ UNCHANGED <<selected, elsewhere>>
    /\ Choose

\* A project created here is shown at once; what was selected stays selected.
ProjectCreated ==
    /\ FormShown /\ selected # None /\ ~elsewhere
    /\ elsewhere' = TRUE
    /\ UNCHANGED <<serverVars, tabVars, tokenVars, viewVars, selected, template, waitVars,
                   sendVars, pastVars, clicks, away>>

-----------------------------------------------------------------------------
(* The readiness wait.                                                     *)

\* An impersonation that fails leaves the tenant as it is, and the check goes on.
ImpersonationAnswered(s) ==
    /\ checks[s].step = "impersonate"
    /\ \/ cookie' = checks[s].env /\ tenant' = checks[s].env
       \/ UNCHANGED tokenVars
    /\ checks' = [checks EXCEPT ![s] =
           IF @.live THEN [@ EXCEPT !.step = "readiness", !.under = cookie'] ELSE NoCheck]
    /\ UNCHANGED <<serverVars, tabVars, viewVars, chosenVars, timers, polls, phase, sendVars,
                   pastVars, clicks, away>>

\* Slip: the two minutes are not counted.
ReadinessUntimed(s) ==
    /\ checks[s].step = "readiness"
    /\ checks' = [checks EXCEPT ![s] = NoCheck]
    /\ IF checks[s].live
         THEN phase' = Phase("waiting") /\ timers' = timers + 1
         ELSE UNCHANGED <<phase, timers>>
    /\ UNCHANGED <<serverVars, tabVars, tokenVars, viewVars, chosenVars, polls, sendVars, pastVars,
                   clicks, away>>

\* Outside a project nothing is ready; an environment may still be provisioned.
ReadinessAnswered(s) ==
    /\ checks[s].step = "readiness"
    /\ checks' = [checks EXCEPT ![s] = NoCheck]
    /\ \/ ~checks[s].live /\ UNCHANGED <<timers, polls, phase>>
       \/ /\ checks[s].live
          /\ \/ phase' = Phase("permissionDenied") /\ UNCHANGED <<timers, polls>>
             \/ /\ checks[s].under # None
                /\ phase' = Ready(checks[s].env, checks[s].template)
                /\ UNCHANGED <<timers, polls>>
             \/ polls >= MaxPolls /\ phase' = Phase("timeout") /\ UNCHANGED <<timers, polls>>
             \/ /\ polls < MaxPolls
                /\ phase' = Phase("waiting")
                /\ timers' = timers + 1
                /\ polls' = polls + 1
    /\ UNCHANGED <<serverVars, tabVars, tokenVars, viewVars, chosenVars, sendVars, pastVars,
                   clicks, away>>

TimerFires ==
    /\ timers > 0
    /\ timers' = timers - 1
    /\ StartCheck(checks)
    /\ UNCHANGED <<serverVars, tabVars, tokenVars, viewVars, chosenVars, polls, sendVars, pastVars,
                   clicks, away>>

\* retry starts the two minutes again within the same generation.
Retry ==
    /\ FormShown /\ selected # None /\ phase.p = "timeout"
    /\ clicks < MaxClicks /\ clicks' = clicks + 1
    /\ polls' = 0
    /\ StartCheck(checks)
    /\ UNCHANGED <<serverVars, tabVars, tokenVars, viewVars, chosenVars, timers, sendVars, pastVars,
                   away>>

-----------------------------------------------------------------------------
(* Approving, cancelling, leaving for the site.                            *)

\* handleApprove, under whatever tenant the cookie holds.
SendApproval ==
    \E c \in NextCall, u \in Users :
        /\ ApproveArrives(c, u, cookie, template)
        /\ sending' = c
        /\ consent' = [consent EXCEPT ![c] = selected]
        /\ startedFor' = Selection

IsReady == selected # None /\ phase = Ready(selected, template)

\* A second click after a failed approval sends it again; otherwise the wait begins.
ClickConnect ==
    /\ FormShown /\ selected # None /\ ~Working /\ cancelling = None
    /\ clicks < MaxClicks /\ clicks' = clicks + 1
    /\ \/ /\ IsReady
          /\ SendApproval
          /\ clicked' = FALSE
          /\ UNCHANGED waitVars
       \/ /\ ~IsReady
          /\ StartCheck(Superseded)
          /\ timers' = OneTimerLess
          /\ polls' = 0
          /\ startedFor' = NoSelection
          /\ clicked' = TRUE
          /\ UNCHANGED <<serverVars, sending, consent>>
    /\ UNCHANGED <<tabVars, tokenVars, viewVars, chosenVars, cancelling, code, leaving, visits, away>>

\* Slip: nothing keeps the effect from running again.
AutoApproveAgain ==
    /\ place = "connect" /\ tenant \in cached
    /\ IsReady /\ sending = None
    /\ SendApproval
    /\ clicked' = FALSE
    /\ UNCHANGED <<tabVars, tokenVars, viewVars, chosenVars, waitVars, cancelling, code, leaving,
                   visits, clicks, away>>

\* The effect of "ready": it runs again whenever the mutation or the request
\* changes, and approvalStartedFor stops it.
AutoApprove ==
    /\ place = "connect" /\ tenant \in cached
    /\ IsReady /\ sending = None /\ startedFor # Selection
    /\ SendApproval
    /\ clicked' = FALSE
    /\ UNCHANGED <<tabVars, tokenVars, viewVars, chosenVars, waitVars, cancelling, code, leaving,
                   visits, clicks, away>>

\* An answer that is lost on the way reads as a failure.
ApprovalAnswered ==
    /\ place = "connect" /\ sending # None /\ pc[sending] = "done"
    /\ sending' = None
    /\ \/ answer[sending] = "code" /\ code' = sending /\ saved' = FALSE
       \/ UNCHANGED <<code, saved>>
    /\ UNCHANGED <<serverVars, place, auth, known, abandoned, tokenVars, viewVars, chosenVars,
                   waitVars, startedFor, cancelling, leaving, pastVars, clicks, away>>

ClickCancel ==
    /\ FormShown /\ sending = None /\ cancelling = None
    /\ \E c \in NextCall, u \in Users : CancelArrives(c, u) /\ cancelling' = c
    /\ UNCHANGED <<tabVars, tokenVars, viewVars, chosenVars, waitVars, startedFor, sending, code,
                   leaving, pastVars, clicks, away>>

\* handleCancel, once its call is answered: a denial is taken to the site.
CancelHeard(c) ==
    \/ /\ answer[c] = "denied"
       /\ visits' = Append(visits, "denied")
       /\ saved' = FALSE
    \/ UNCHANGED <<visits, saved>>

CancelAnswered ==
    /\ place = "connect" /\ cancelling # None /\ pc[cancelling] = "done"
    /\ cancelling' = None
    /\ CancelHeard(cancelling)
    /\ UNCHANGED <<serverVars, place, auth, known, abandoned, tokenVars, viewVars, chosenVars,
                   waitVars, startedFor, sending, code, leaving, consent, clicked, clicks, away>>

\* The page that sent the call is gone, the tab is not: the hand-off is dropped, a
\* denial is taken to the site, and a code has no page to show it.
AbandonedAnswered(c) ==
    /\ place # "site" /\ c \in abandoned /\ pc[c] = "done"
    /\ abandoned' = abandoned \ {c}
    /\ \/ CancelHeard(c)
       \/ answer[c] = "code" /\ saved' = FALSE /\ UNCHANGED visits
    /\ UNCHANGED <<serverVars, place, auth, known, tokenVars, viewVars, chosenVars, waitVars,
                   sendVars, consent, clicked, clicks, away>>

\* Slip: the button and the timer each go.
GoToSiteTwice ==
    /\ place = "connect" /\ code # None /\ Len(visits) < 2
    /\ visits' = Append(visits, code)
    /\ UNCHANGED <<serverVars, tabVars, tokenVars, viewVars, chosenVars, waitVars, sendVars,
                   consent, clicked, clicks, away>>

\* Slip: nothing waits for a code.
GoToSiteAtOnce ==
    /\ place = "connect" /\ ~leaving
    /\ leaving' = TRUE
    /\ visits' = Append(visits, code)
    /\ UNCHANGED <<serverVars, tabVars, tokenVars, viewVars, chosenVars, waitVars, startedFor,
                   sending, cancelling, code, consent, clicked, clicks, away>>

\* The button and the timer share one guard.
GoToSite ==
    /\ place = "connect" /\ code # None /\ ~leaving
    /\ leaving' = TRUE
    /\ visits' = Append(visits, code)
    /\ UNCHANGED <<serverVars, tabVars, tokenVars, viewVars, chosenVars, waitVars, startedFor,
                   sending, cancelling, code, consent, clicked, clicks, away>>

\* Whatever the tab shows when the callback loads, it is gone.
Unload ==
    /\ place # "site" /\ visits # <<>>
    /\ place' = "site" /\ abandoned' = {}
    /\ UNCHANGED <<serverVars, auth, saved, known, tokenVars, viewVars, chosenVars, waitVars,
                   sendVars, pastVars, clicks, away>>

\* The site redeems the code of each callback it is loaded with.
SiteRedeems ==
    /\ \E i \in DOMAIN visits, c \in NextCall :
          /\ visits[i] \in Calls
          /\ Cardinality({d \in Calls : arg[d].code = visits[i]})
                < Cardinality({j \in DOMAIN visits : visits[j] = visits[i]})
          /\ ExchangeArrives(c, visits[i], TRUE)
    /\ UNCHANGED pageVars

\* Another tab opens a project, or leaves one.
OtherTab ==
    /\ away < MaxAway /\ away' = away + 1
    /\ cookie' \in Tenants \ {cookie}
    /\ UNCHANGED <<serverVars, tabVars, tenant, viewVars, chosenVars, waitVars, sendVars, pastVars,
                   clicks>>

-----------------------------------------------------------------------------
PageInit ==
    /\ place = "connect"
    /\ auth \in BOOLEAN
    /\ saved = FALSE
    /\ known = FALSE
    /\ abandoned = {}
    /\ cookie = None /\ tenant = None
    /\ cached = {} /\ failed = {}
    /\ selected = None /\ elsewhere = FALSE /\ template = None
    /\ checks = [s \in Slots |-> NoCheck] /\ timers = 0 /\ polls = 0 /\ phase = Idle
    /\ startedFor = NoSelection /\ sending = None /\ cancelling = None
    /\ code = None /\ leaving = FALSE
    /\ visits = <<>>
    /\ consent = [c \in Calls |-> None]
    /\ clicked = FALSE
    /\ clicks = 0 /\ away = 0

Init == ServerInit /\ PageInit

ServerStep == ((\E c \in Calls : CallStep(c)) \/ Expire \/ Remove) /\ UNCHANGED pageVars

Next ==
    \/ RequestCreated \/ SessionEnds \/ ToLogin \/ LogIn \/ PendingRedirect
    \/ \E u \in Users : FetchRequest(u)
    \/ SelectProject \/ ProjectCreated
    \/ \E e \in Envs : SelectEnvironment(e)
    \/ \E t \in Templates : SelectTemplate(t)
    \/ \E s \in Slots : ImpersonationAnswered(s) \/ ReadinessAnswered(s)
    \/ TimerFires \/ Retry
    \/ ClickConnect \/ AutoApprove \/ ApprovalAnswered \/ ClickCancel \/ CancelAnswered
    \/ \E c \in Calls : AbandonedAnswered(c)
    \/ GoToSite \/ Unload \/ SiteRedeems \/ OtherTab
    \/ ServerStep

\* Requests are answered, timers fire and React runs the effects it owes.
Fairness ==
    /\ \A s \in Slots : WF_vars(ImpersonationAnswered(s)) /\ WF_vars(ReadinessAnswered(s))
    /\ WF_vars(TimerFires)
    /\ WF_vars(GoToSite)
    /\ WF_vars(Unload)
    /\ WF_vars(ToLogin)

Spec == Init /\ [][Next]_vars /\ Fairness

-----------------------------------------------------------------------------
(* Properties.                                                             *)

PageTypeOK ==
    /\ place \in {"connect", "login", "console", "site", "out"}
    /\ {auth, saved, known, elsewhere, leaving, clicked} \subseteq BOOLEAN
    /\ {cookie, tenant, selected} \subseteq Tenants
    /\ cached \cup failed \subseteq Tenants /\ abandoned \subseteq Calls
    /\ template \in Templates \cup {None}
    /\ checks \in [Slots -> [step : {"none", "impersonate", "readiness"}, env : Tenants,
                            template : Templates \cup {None}, under : Tenants, live : BOOLEAN]]
    /\ {timers, polls, clicks, away} \subseteq Nat
    /\ phase \in [p : {"idle", "checking", "waiting", "ready", "timeout", "permissionDenied"},
                  env : Tenants, template : Templates \cup {None}]
    /\ startedFor \in Tenants \X (Templates \cup {None})
    /\ {sending, cancelling, code} \subseteq Calls \cup {None}
    /\ visits \in Seq(Calls \cup {"denied"})
    /\ consent \in [Calls -> Tenants]

TypeOK == ServerTypeOK /\ PageTypeOK

\* There is one poll: one live check or one timer while the page waits, and neither
\* otherwise, however the user chooses, retries and clicks.
OnePoll == Cardinality(LiveChecks) + timers = IF Waiting THEN 1 ELSE 0

\* An approval is sent only for a click on Connect made since the last choice, and
\* one for each click: the effect that sends it never loops.
OneApprovalPerClick ==
    [][\A c \in Calls : pc[c] = "idle" /\ pc'[c] = "read" => clicked \/ clicks' = clicks + 1]_vars

\* The browser loads each callback once, and one that says access_denied only when
\* the request was cancelled and no keys went or will go out, also when the answer
\* comes after the page that asked was unmounted and another one took its place.
SiteToldOnce ==
    /\ \A i, j \in DOMAIN visits : visits[i] = visits[j] => i = j
    /\ \A i \in DOMAIN visits :
          visits[i] = "denied" => Len(visits) = 1 /\ status \in {"cancelled", "gone"} /\ handed = {}

\* The wait for readiness ends, however often the user retries: nothing polls for ever.
WaitEnds == Waiting ~> ~Waiting

\* "Select the environment this application can access.": an approval runs in the
\* environment that was selected when it was sent.
ConsentEnvironment == \A c \in Calls : consent[c] # None => arg[c].env = consent[c]
=============================================================================

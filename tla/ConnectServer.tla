---------------------------- MODULE ConnectServer ----------------------------
(***************************************************************************)
(* The server side of "Connect with Blocks OS": one connect request, the   *)
(* calls that claim, approve, cancel and redeem it, the client credential  *)
(* an approval creates in IAM and the connection it records.               *)
(*                                                                         *)
(* A call is a thread; each read or write of the database and each call of *)
(* IAM is one step of it.  A call makes at most one credential, one secret *)
(* and one code, so these are named by the call that made them.  Only the  *)
(* names, the redirect URI and the contents of the keys are left out.      *)
(***************************************************************************)
EXTENDS Naturals, FiniteSets

CONSTANTS Users,       \* users who may open the request
          Envs,        \* project environments
          Templates,   \* active templates of the request's family
          Calls,       \* calls of the service
          None,        \* no user, environment, template or call
          MaxFaults,   \* bound: database or IAM calls that throw
          MaxCuts      \* bound: calls whose client leaves or whose process stops

ASSUME ConnectAssumption ==
    /\ None \notin Users \cup Envs \cup Templates \cup Calls
    /\ {MaxFaults, MaxCuts} \subseteq Nat

VARIABLES status,      \* status of the request, "gone" once the TTL index removed it
          claimedBy,   \* the user who claimed it
          stale,       \* the reservation is more than two minutes old
          expired,     \* ExpiresAt has passed
          grant,       \* what an approval wrote into the request
          creds,       \* client credentials in IAM
          setups,      \* connection records, by credential
          unused,      \* connections marked as never delivered
          pc,          \* where each call is
          arg,         \* what it was called with and what it has obtained
          answer,      \* what its caller was told
          left,        \* calls whose caller is gone: their token is cancelled
          handed,      \* history: keys handed out
          takeover,    \* history: a stale reservation was taken over
          unreleased,  \* history: the release of a failed approval threw
          faults,
          cuts

requestVars == <<status, claimedBy, stale, expired, grant>>
iamVars     == <<creds, setups, unused>>
badVars     == <<takeover, unreleased, faults, cuts>>
serverVars  == <<requestVars, iamVars, pc, arg, answer, left, handed, badVars>>

-----------------------------------------------------------------------------
(* Requests, credentials and calls.                                        *)

NoGrant == [env |-> None, template |-> None, cred |-> None, secret |-> None, code |-> None]
NoCred  == [env |-> None, template |-> None, secret |-> None, live |-> FALSE]
NoArg   == [user |-> None, env |-> None, template |-> None, cred |-> None,
            code |-> None, right |-> FALSE]

Statuses == {"pending", "approving", "approved", "exchanged", "cancelled", "failed", "gone"}

\* Steps of an approval before its connection exists, after it, and undoing it.
SetupSteps == {"check", "name", "find", "credential", "insert"}
HeldSteps  == SetupSteps \cup {"complete", "disconnect", "revoke", "reset", "release"}
Steps == HeldSteps \cup {"idle", "read", "reserve", "reread", "rotate",
                         "readCancel", "claim", "transition",
                         "match", "burn", "undeliver", "done"}
Answers == {"none", "refused", "code", "denied", "keys", "invalid", "lost"}

Visible == status # "gone" /\ ~expired

Go(c, step) == pc' = [pc EXCEPT ![c] = step]
End(c, told) ==
    /\ pc' = [pc EXCEPT ![c] = "done"]
    /\ answer' = [answer EXCEPT ![c] = told]

\* A caller that is gone has cancelled the token of the database calls on the
\* request; those calls throw.  IAM and the connection records take no token.
Cancelled(c) == c \in left

Fault == faults < MaxFaults /\ faults' = faults + 1 /\ UNCHANGED <<takeover, unreleased, cuts>>

-----------------------------------------------------------------------------
(* Reading and cancelling.                                                 *)

Claimable(u) == status = "pending" /\ ~expired /\ claimedBy \in {None, u}

\* GetRequest: the first reader claims the request.
GetRequest(u) ==
    /\ Claimable(u)
    /\ claimedBy' = u
    /\ UNCHANGED <<status, stale, expired, grant, iamVars, pc, arg, answer, left, handed, badVars>>

CancelArrives(c, u) ==
    /\ pc[c] = "idle"
    /\ Go(c, "readCancel")
    /\ arg' = [arg EXCEPT ![c].user = u]
    /\ UNCHANGED <<requestVars, iamVars, answer, left, handed, badVars>>

CancelReads(c) ==
    /\ pc[c] = "readCancel"
    /\ IF Visible /\ claimedBy \in {None, arg[c].user} /\ status = "pending" /\ ~Cancelled(c)
         THEN Go(c, IF claimedBy = None THEN "claim" ELSE "transition") /\ UNCHANGED answer
         ELSE End(c, "refused")
    /\ UNCHANGED <<requestVars, iamVars, arg, left, handed, badVars>>

CancelClaims(c) ==
    /\ pc[c] = "claim" /\ ~Cancelled(c)
    /\ claimedBy' = IF Claimable(arg[c].user) THEN arg[c].user ELSE claimedBy
    /\ Go(c, "transition")
    /\ UNCHANGED <<status, stale, expired, grant, iamVars, arg, answer, left, handed, badVars>>

CancelTransitions(c) ==
    /\ pc[c] = "transition"
    /\ \/ /\ Visible /\ status = "pending" /\ claimedBy = arg[c].user /\ ~Cancelled(c)
          /\ status' = "cancelled"
          /\ End(c, "denied")
       \/ /\ ~(Visible /\ status = "pending" /\ claimedBy = arg[c].user /\ ~Cancelled(c))
          /\ End(c, "refused")
          /\ UNCHANGED status
    /\ UNCHANGED <<claimedBy, stale, expired, grant, iamVars, arg, left, handed, badVars>>

-----------------------------------------------------------------------------
(* Approving: reserve the request, set the integration up, complete.       *)

\* The environment is that of the caller's token, None outside a project.
ApproveArrives(c, u, e, t) ==
    /\ pc[c] = "idle"
    /\ Go(c, "read")
    /\ arg' = [arg EXCEPT ![c] = [@ EXCEPT !.user = u, !.env = e, !.template = t]]
    /\ UNCHANGED <<requestVars, iamVars, answer, left, handed, badVars>>

\* An approved request gets a fresh code for its own template; one that is being
\* approved is refused, however old the reservation.
ApproveReads(c) ==
    /\ pc[c] = "read"
    /\ IF ~Visible \/ claimedBy # arg[c].user \/ Cancelled(c) THEN End(c, "refused")
       ELSE IF status = "pending" THEN Go(c, "reserve") /\ UNCHANGED answer
       ELSE IF status = "approved" /\ grant.template = arg[c].template
              THEN Go(c, "rotate") /\ UNCHANGED answer
              ELSE End(c, "refused")
    /\ UNCHANGED <<requestVars, iamVars, arg, left, handed, badVars>>

\* TryStartApproval.
Reservable(c) ==
    /\ Visible
    /\ claimedBy = arg[c].user
    /\ \/ status = "pending"
       \/ status = "approving" /\ stale

\* Slip: the update finds the request by its id alone.
ReserveById(c) ==
    /\ pc[c] = "reserve" /\ ~Cancelled(c)
    /\ status' = "approving" /\ stale' = FALSE
    /\ Go(c, "check")
    /\ UNCHANGED <<claimedBy, expired, grant, iamVars, arg, answer, left, handed, badVars>>

Reserve(c) ==
    /\ pc[c] = "reserve"
    /\ ~Cancelled(c)
    /\ IF Reservable(c)
         THEN /\ status' = "approving"
              /\ stale' = FALSE
              /\ takeover' = (takeover \/ status = "approving")
              /\ Go(c, "check")
         ELSE Go(c, "reread") /\ UNCHANGED <<status, stale, takeover>>
    /\ UNCHANGED <<claimedBy, expired, grant, iamVars, arg, answer, left, handed, unreleased, faults, cuts>>

\* Another call approved it meanwhile: the loser gets a code of its own.
Reread(c) ==
    /\ pc[c] = "reread"
    /\ IF /\ status = "approved" /\ claimedBy = arg[c].user /\ ~Cancelled(c)
          /\ grant.template = arg[c].template
         THEN Go(c, "rotate") /\ UNCHANGED answer
         ELSE End(c, "refused")
    /\ UNCHANGED <<requestVars, iamVars, arg, left, handed, badVars>>

\* RotateApprovedCode: the new code replaces the old one and lives five minutes.
Rotate(c) ==
    /\ pc[c] = "rotate"
    /\ IF /\ Visible /\ status = "approved" /\ claimedBy = arg[c].user /\ ~Cancelled(c)
          /\ grant.template = arg[c].template
         THEN /\ grant' = [grant EXCEPT !.code = c]
              /\ End(c, "code")
         ELSE End(c, "refused") /\ UNCHANGED grant
    /\ UNCHANGED <<status, claimedBy, stale, expired, iamVars, arg, left, handed, badVars>>

\* The template must be active and the token impersonated.
Check(c) ==
    /\ pc[c] = "check"
    /\ Go(c, IF arg[c].env = None THEN "reset" ELSE "name")
    /\ UNCHANGED <<requestVars, iamVars, arg, answer, left, handed, badVars>>

NameTaken(e) == \E k \in Calls : creds[k].env = e /\ setups[k] = "active"

\* Name, permissions and role: nothing is created that a refusal would leave.
NameChecked(c) ==
    /\ pc[c] = "name"
    /\ \/ ~NameTaken(arg[c].env) /\ Go(c, "find")
       \/ Go(c, "reset")
    /\ UNCHANGED <<requestVars, iamVars, arg, answer, left, handed, badVars>>

\* Credentials are named after the template and the request.
SameName(c) ==
    {k \in Calls : creds[k].live /\ creds[k].env = arg[c].env /\ creds[k].template = arg[c].template}

\* FindCredential: a lookup that fails reads as no credential of that name.
FindCredential(c) ==
    /\ pc[c] = "find"
    /\ \E k \in {None} \cup SameName(c) : arg' = [arg EXCEPT ![c].cred = k]
    /\ Go(c, "credential")
    /\ UNCHANGED <<requestVars, iamVars, answer, left, handed, badVars>>

\* What IAM holds after a rotation of the credential found, or a creation.
NewSecret(c) ==
    IF arg[c].cred # None
      THEN /\ creds[arg[c].cred].live
           /\ creds' = [creds EXCEPT ![arg[c].cred].secret = c]
           /\ UNCHANGED arg
      ELSE /\ creds' = [creds EXCEPT ![c] = [env |-> arg[c].env, template |-> arg[c].template,
                                             secret |-> c, live |-> TRUE]]
           /\ arg' = [arg EXCEPT ![c].cred = c]

\* IAM refuses, or does it, or does it and its answer is lost.
Credential(c) ==
    /\ pc[c] = "credential"
    /\ \/ Go(c, "reset") /\ UNCHANGED <<creds, arg, badVars>>
       \/ NewSecret(c) /\ Go(c, "insert") /\ UNCHANGED badVars
       \/ NewSecret(c) /\ Go(c, "reset") /\ Fault
    /\ UNCHANGED <<requestVars, setups, unused, answer, left, handed>>

\* TryInsertSetup: a duplicate is refused; a policy or a rule refuses by throwing.
Insert(c) ==
    /\ pc[c] = "insert"
    /\ \/ (Go(c, "reset") \/ Go(c, "release")) /\ UNCHANGED <<setups, badVars>>
       \/ /\ setups[arg[c].cred] = "none"
          /\ setups' = [setups EXCEPT ![arg[c].cred] = "active"]
          /\ \/ Go(c, "complete") /\ UNCHANGED badVars
             \/ Go(c, "release") /\ Fault
    /\ UNCHANGED <<requestVars, creds, unused, arg, answer, left, handed>>

\* Slip: a request that is no longer being approved is left with its connection.
CompleteOrReset(c) ==
    /\ pc[c] = "complete" /\ ~Cancelled(c)
    /\ IF status = "approving"
         THEN /\ status' = "approved" /\ expired' = FALSE /\ claimedBy' = arg[c].user
              /\ grant' = [env |-> arg[c].env, template |-> arg[c].template,
                           cred |-> arg[c].cred, secret |-> c, code |-> c]
              /\ End(c, "code")
         ELSE Go(c, "reset") /\ UNCHANGED <<status, claimedBy, expired, grant, answer>>
    /\ UNCHANGED <<stale, iamVars, arg, left, handed, badVars>>

\* TryCompleteApproval replaces the request if it is still being approved; the
\* time it may live starts again.  With no encryption key, or when the request is
\* no longer being approved, the connection is taken back.
Complete(c) ==
    /\ pc[c] = "complete"
    /\ ~Cancelled(c)
    /\ \/ /\ status = "approving"
          /\ status' = "approved"
          /\ expired' = FALSE
          /\ grant' = [env |-> arg[c].env, template |-> arg[c].template, cred |-> arg[c].cred,
                       secret |-> c, code |-> c]
          /\ claimedBy' = arg[c].user
          /\ End(c, "code")
          /\ UNCHANGED badVars
       \/ /\ status # "approving"
          /\ Go(c, "disconnect")
          /\ UNCHANGED <<status, claimedBy, expired, grant, answer, badVars>>
       \/ /\ Go(c, "disconnect") /\ Fault
          /\ UNCHANGED <<status, claimedBy, expired, grant, answer>>
    /\ UNCHANGED <<stale, iamVars, arg, left, handed>>

\* DisconnectAsync, whose result the approval ignores: first the credential ...
Disconnect(c) ==
    /\ pc[c] = "disconnect"
    /\ \/ /\ setups[arg[c].cred] = "active"
          /\ creds' = [creds EXCEPT ![arg[c].cred].live = FALSE]
          /\ Go(c, "revoke")
          /\ UNCHANGED badVars
       \/ setups[arg[c].cred] # "active" /\ Go(c, "reset") /\ UNCHANGED <<creds, badVars>>
       \/ Go(c, "reset") /\ Fault /\ UNCHANGED creds
    /\ UNCHANGED <<requestVars, setups, unused, arg, answer, left, handed>>

\* ... then its record.
Revoke(c) ==
    /\ pc[c] = "revoke"
    /\ setups' = [setups EXCEPT ![arg[c].cred] = "revoked"]
    /\ Go(c, "reset")
    /\ UNCHANGED <<requestVars, creds, unused, arg, answer, left, handed, badVars>>

\* Slip: only the refusals the code foresees release the reservation.
Uncaught(c) ==
    /\ pc[c] \in HeldSteps \ {"find", "release"}
    /\ End(c, "lost") /\ Fault
    /\ UNCHANGED <<requestVars, iamVars, arg, left, handed>>

\* Whatever throws inside the approval, its release included, is caught.
Caught(c) ==
    /\ pc[c] \in HeldSteps \ {"find", "release"}
    /\ Go(c, "release") /\ Fault
    /\ UNCHANGED <<requestVars, iamVars, arg, answer, left, handed>>

\* ResetApprovalToPending releases the reservation, whoever holds it.
Freed == IF status = "approving" THEN "pending" ELSE status

\* The release of a refusal ...
Reset(c) ==
    /\ pc[c] = "reset" /\ ~Cancelled(c)
    /\ status' = Freed
    /\ End(c, "refused")
    /\ UNCHANGED <<claimedBy, stale, expired, grant, iamVars, arg, left, handed, badVars>>

\* ... and that of the catch blocks, outside of which nothing is caught.
Release(c) ==
    /\ pc[c] = "release" /\ ~Cancelled(c)
    /\ \/ status' = Freed /\ End(c, "refused") /\ UNCHANGED badVars
       \/ /\ faults < MaxFaults /\ faults' = faults + 1
          /\ unreleased' = TRUE
          /\ End(c, "lost")
          /\ UNCHANGED <<status, takeover, cuts>>
    /\ UNCHANGED <<claimedBy, stale, expired, grant, iamVars, arg, left, handed>>

\* With the token cancelled a write of the request throws: a reservation, a
\* completion and its release, a claim, a redemption.
ThrownAway(c) ==
    /\ pc[c] \in {"reserve", "complete", "reset", "release", "claim", "match", "burn"}
    /\ Cancelled(c)
    /\ End(c, "lost")
    /\ UNCHANGED <<requestVars, iamVars, arg, left, handed, badVars>>

-----------------------------------------------------------------------------
(* Redeeming the code.                                                     *)

\* The site presents a code, with the right verifier and redirect or not.
ExchangeArrives(c, code, right) ==
    /\ pc[c] = "idle"
    /\ Go(c, "match")
    /\ arg' = [arg EXCEPT ![c] = [@ EXCEPT !.code = code, !.right = right]]
    /\ UNCHANGED <<requestVars, iamVars, answer, left, handed, badVars>>

Redeemable(c) ==
    Visible /\ status = "approved" /\ grant.code = arg[c].code /\ arg[c].right

\* Slip: the code is read, not consumed.
MatchOnly(c) ==
    /\ pc[c] = "match" /\ ~Cancelled(c)
    /\ IF Redeemable(c)
         THEN /\ handed' = handed \cup
                     {[call |-> c, cred |-> grant.cred, secret |-> grant.secret]}
              /\ End(c, "keys")
         ELSE Go(c, "burn") /\ UNCHANGED <<handed, answer>>
    /\ UNCHANGED <<requestVars, iamVars, arg, left, badVars>>

\* TryExchangeByCodeHash consumes the code; the keys may then be unreadable.
Match(c) ==
    /\ pc[c] = "match" /\ ~Cancelled(c)
    /\ IF Redeemable(c)
         THEN /\ status' = "exchanged"
              /\ \/ /\ handed' = handed \cup
                          {[call |-> c, cred |-> grant.cred, secret |-> grant.secret]}
                    /\ End(c, "keys")
                    /\ UNCHANGED badVars
                 \/ End(c, "invalid") /\ Fault /\ UNCHANGED handed
         ELSE Go(c, "burn") /\ UNCHANGED <<status, handed, answer, badVars>>
    /\ UNCHANGED <<claimedBy, stale, expired, grant, iamVars, arg, left>>

\* Any failed match burns the code, expired or not.
Burn(c) ==
    /\ pc[c] = "burn" /\ ~Cancelled(c)
    /\ IF status = "approved" /\ grant.code = arg[c].code
         THEN status' = "failed" /\ Go(c, "undeliver") /\ UNCHANGED answer
         ELSE End(c, "invalid") /\ UNCHANGED status
    /\ UNCHANGED <<claimedBy, stale, expired, grant, iamVars, arg, left, handed, badVars>>

\* MarkConnectionNeverDelivered: the credential itself stays.
Undeliver(c) ==
    /\ pc[c] = "undeliver"
    /\ unused' = unused \cup {grant.cred}
    /\ End(c, "invalid")
    /\ UNCHANGED <<requestVars, creds, setups, arg, left, handed, badVars>>

-----------------------------------------------------------------------------
(* Time, callers that leave, processes that stop.                          *)

ReservationAges ==
    /\ status = "approving" /\ ~stale
    /\ stale' = TRUE
    /\ UNCHANGED <<status, claimedBy, expired, grant, iamVars, pc, arg, answer, left, handed, badVars>>

Expire ==
    /\ status # "gone" /\ ~expired
    /\ expired' = TRUE
    /\ UNCHANGED <<status, claimedBy, stale, grant, iamVars, pc, arg, answer, left, handed, badVars>>

\* The TTL index removes the document.
Remove ==
    /\ expired /\ status # "gone"
    /\ status' = "gone"
    /\ UNCHANGED <<claimedBy, stale, expired, grant, iamVars, pc, arg, answer, left, handed, badVars>>

Busy(c) == pc[c] \notin {"idle", "done"}

Leave(c) ==
    /\ Busy(c) /\ c \notin left
    /\ cuts < MaxCuts /\ cuts' = cuts + 1
    /\ left' = left \cup {c}
    /\ UNCHANGED <<requestVars, iamVars, pc, arg, answer, handed, takeover, unreleased, faults>>

Stop(c) ==
    /\ Busy(c)
    /\ cuts < MaxCuts /\ cuts' = cuts + 1
    /\ End(c, "lost")
    /\ UNCHANGED <<requestVars, iamVars, arg, left, handed, takeover, unreleased, faults>>

-----------------------------------------------------------------------------
ServerInit ==
    /\ status = "pending"
    /\ claimedBy = None
    /\ stale = FALSE
    /\ expired = FALSE
    /\ grant = NoGrant
    /\ creds = [c \in Calls |-> NoCred]
    /\ setups = [c \in Calls |-> "none"]
    /\ unused = {}
    /\ pc = [c \in Calls |-> "idle"]
    /\ arg = [c \in Calls |-> NoArg]
    /\ answer = [c \in Calls |-> "none"]
    /\ left = {}
    /\ handed = {}
    /\ takeover = FALSE /\ unreleased = FALSE
    /\ faults = 0
    /\ cuts = 0

ApproveStep(c) ==
    \/ ApproveReads(c) \/ Reserve(c) \/ Reread(c) \/ Rotate(c)
    \/ Check(c) \/ NameChecked(c) \/ FindCredential(c) \/ Credential(c) \/ Insert(c)
    \/ Complete(c) \/ Disconnect(c) \/ Revoke(c) \/ Reset(c) \/ Caught(c) \/ Release(c)

CallStep(c) ==
    \/ ApproveStep(c)
    \/ CancelReads(c) \/ CancelClaims(c) \/ CancelTransitions(c)
    \/ Match(c) \/ Burn(c) \/ Undeliver(c)
    \/ ThrownAway(c)

Arrives(c) ==
    \/ \E u \in Users : CancelArrives(c, u)
    \/ \E u \in Users, e \in Envs \cup {None}, t \in Templates : ApproveArrives(c, u, e, t)
    \/ \E code \in Calls \cup {None}, right \in BOOLEAN : ExchangeArrives(c, code, right)

Time == ReservationAges \/ Expire \/ Remove

ServerNext ==
    \/ \E u \in Users : GetRequest(u)
    \/ \E c \in Calls : Arrives(c) \/ CallStep(c) \/ Leave(c) \/ Stop(c)
    \/ Time

ServerSpec == ServerInit /\ [][ServerNext]_serverVars

-----------------------------------------------------------------------------
(* Properties.                                                             *)

Maybe(S) == S \cup {None}
GrantType == [env : Maybe(Envs), template : Maybe(Templates), cred : Maybe(Calls),
              secret : Maybe(Calls), code : Maybe(Calls)]
CredType  == [env : Maybe(Envs), template : Maybe(Templates), secret : Maybe(Calls),
              live : BOOLEAN]
ArgType   == [user : Maybe(Users), env : Maybe(Envs), template : Maybe(Templates),
              cred : Maybe(Calls), code : Maybe(Calls), right : BOOLEAN]

ServerTypeOK ==
    /\ status \in Statuses
    /\ claimedBy \in Users \cup {None}
    /\ stale \in BOOLEAN /\ expired \in BOOLEAN
    /\ takeover \in BOOLEAN /\ unreleased \in BOOLEAN
    /\ grant \in GrantType
    /\ creds \in [Calls -> CredType]
    /\ setups \in [Calls -> {"none", "active", "revoked"}]
    /\ unused \subseteq Calls
    /\ pc \in [Calls -> Steps]
    /\ arg \in [Calls -> ArgType]
    /\ answer \in [Calls -> Answers]
    /\ left \subseteq Calls
    /\ handed \subseteq [call : Calls, cred : Calls, secret : Calls]
    /\ faults \in Nat /\ cuts \in Nat

\* "This prevents two browser clicks from making two client credentials": one call
\* at a time sets the integration up, unless a reservation was taken over.
OneSetupAtATime ==
    takeover \/ \A c, d \in Calls : pc[c] \in HeldSteps /\ pc[d] \in HeldSteps => c = d

\* A code that can be redeemed, and keys that were handed out, stand for an active
\* connection and for the secret IAM holds now, whatever other calls did since,
\* unless a reservation was taken over.
GrantBacked ==
    takeover \/
      /\ status \in {"approved", "exchanged"} =>
            /\ grant.cred # None
            /\ creds[grant.cred].live
            /\ creds[grant.cred].secret = grant.secret
            /\ setups[grant.cred] = "active"
      /\ \A h \in handed : creds[h.cred].live /\ creds[h.cred].secret = h.secret

\* An active connection is that of the grant or in the hands of a call, unless a
\* call failed, was cut off, or was taken over.
NoConnectionForgotten ==
    \A k \in Calls :
        \/ setups[k] # "active"
        \/ takeover \/ faults > 0 \/ cuts > 0
        \/ grant.cred = k
        \/ \E c \in Calls : arg[c].cred = k /\ pc[c] \in {"complete", "disconnect", "revoke"}

\* A request is being approved only while some call is approving it.
ReservationHeld ==
    status = "approving" => \E c \in Calls : pc[c] \in HeldSteps

\* "Every failure path, including an unexpected exception, releases the reservation
\* back to pending": a request that is being approved is in the hands of a call,
\* however many calls threw, unless the release of a catch block threw itself, a
\* call was cut off, or its reservation was taken over.
ReservationReleased == unreleased \/ cuts > 0 \/ takeover \/ ReservationHeld

\* The request is a one-time grant: granted once, its keys out once, none after a
\* cancellation.
GrantState ==
    IF handed # {} THEN "delivered"
    ELSE IF status \in {"pending", "approving"} THEN "open"
    ELSE IF status = "approved" THEN "granted"
    ELSE "closed"

Abstract == INSTANCE OneTimeGrant WITH state <- GrantState, keys <- Cardinality(handed)
ImplementsGrant == Abstract!Spec
=============================================================================

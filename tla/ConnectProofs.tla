---------------------------- MODULE ConnectProofs ----------------------------
(***************************************************************************)
(* Theorems about the connect server and the connect page, for any users,  *)
(* environments, templates and calls, and any number of failures, clicks   *)
(* and polls: first the server by itself, then the page as its client.     *)
(***************************************************************************)
EXTENDS ConnectPage, FiniteSetTheorems, TLAPS

\* Keys go out only when the request is redeemed.
KeysAfterGrant == handed # {} => status \in {"exchanged", "gone"}

\* A request that can be reserved was never approved.
GrantFirst == status \in {"pending", "approving"} => grant.cred = None

\* The holder of the reservation finds the request as it left it, or removed.
HolderApproves ==
    takeover \/ \A c \in Calls :
        pc[c] \in HeldSteps => status \in {"approving", "gone"} /\ handed = {}

\* What an approval has obtained stays until it completes.
Prepared ==
    takeover \/ \A c \in Calls :
        /\ pc[c] \in {"insert", "complete"} =>
              /\ creds[arg[c].cred].live
              /\ creds[arg[c].cred].secret = c
        /\ pc[c] = "complete" => setups[arg[c].cred] = "active"

\* What is set up, granted or marked is a credential.
Whole ==
    /\ \A c \in Calls :
          /\ pc[c] \in {"insert", "complete", "disconnect", "revoke"} => arg[c].cred \in Calls
          /\ pc[c] = "undeliver" => grant.cred \in Calls
    /\ status = "approved" => grant.cred \in Calls /\ grant.secret \in Calls

LeftCounted == left # {} => cuts > 0

Core ==
    /\ KeysAfterGrant /\ GrantFirst /\ HolderApproves /\ OneSetupAtATime /\ Prepared
    /\ GrantBacked /\ LeftCounted /\ NoConnectionForgotten

IInv == ServerTypeOK /\ Whole /\ Core

-----------------------------------------------------------------------------
(* Types.                                                                  *)

\* Arguments stay arguments when a call arrives or finds a credential, and
\* credentials stay credentials.
LEMMA ArgOfCancel ==
    ASSUME NEW r \in ArgType, NEW u \in Users
    PROVE  [r EXCEPT !.user = u] \in ArgType
  BY DEF ArgType, Maybe

LEMMA ArgOfApproval ==
    ASSUME NEW r \in ArgType, NEW u \in Users, NEW e \in Maybe(Envs), NEW t \in Templates
    PROVE  [r EXCEPT !.user = u, !.env = e, !.template = t] \in ArgType
  BY DEF ArgType, Maybe

LEMMA ArgOfExchange ==
    ASSUME NEW r \in ArgType, NEW k \in Maybe(Calls), NEW b \in BOOLEAN
    PROVE  [r EXCEPT !.code = k, !.right = b] \in ArgType
  BY DEF ArgType, Maybe

LEMMA ArgOfCredential ==
    ASSUME NEW r \in ArgType, NEW k \in Maybe(Calls)
    PROVE  [r EXCEPT !.cred = k] \in ArgType
  BY DEF ArgType, Maybe

LEMMA CredRotated ==
    ASSUME NEW r \in CredType, NEW k \in Calls
    PROVE  [r EXCEPT !.secret = k] \in CredType
  BY DEF CredType, Maybe

LEMMA CredDropped ==
    ASSUME NEW r \in CredType
    PROVE  [r EXCEPT !.live = FALSE] \in CredType
  BY DEF CredType

LEMMA CredMade ==
    ASSUME NEW a \in ArgType, NEW k \in Calls
    PROVE  [env |-> a.env, template |-> a.template, secret |-> k, live |-> TRUE] \in CredType
  BY DEF CredType, ArgType, Maybe

LEMMA GrantMade ==
    ASSUME NEW a \in ArgType, NEW k \in Calls
    PROVE  [env |-> a.env, template |-> a.template, cred |-> a.cred,
            secret |-> k, code |-> k] \in GrantType
  BY DEF GrantType, ArgType, Maybe

LEMMA GrantRotated ==
    ASSUME NEW g \in GrantType, NEW k \in Calls
    PROVE  [g EXCEPT !.code = k] \in GrantType
  BY DEF GrantType, Maybe

LEMMA TypeStep ==
    ASSUME ServerTypeOK, Whole, [ServerNext]_serverVars
    PROVE  ServerTypeOK'
<1> USE DEF ServerTypeOK, requestVars, iamVars, badVars, Statuses
<1>1. ASSUME NEW u \in Users, GetRequest(u) PROVE ServerTypeOK'
  BY <1>1 DEF GetRequest
<1>2. ASSUME NEW c \in Calls, Arrives(c) PROVE ServerTypeOK'
  <2>1. ASSUME NEW u \in Users, CancelArrives(c, u) PROVE ServerTypeOK'
    BY <2>1, ArgOfCancel DEF CancelArrives, Go, Steps
  <2>2. ASSUME NEW u \in Users, NEW e \in Maybe(Envs), NEW t \in Templates,
               ApproveArrives(c, u, e, t)
        PROVE  ServerTypeOK'
    BY <2>2, ArgOfApproval DEF ApproveArrives, Go, Steps
  <2>3. ASSUME NEW k \in Maybe(Calls), NEW right \in BOOLEAN, ExchangeArrives(c, k, right)
        PROVE  ServerTypeOK'
    BY <2>3, ArgOfExchange DEF ExchangeArrives, Go, Steps
  <2> QED
    BY <1>2, <2>1, <2>2, <2>3 DEF Arrives, Maybe
<1>3. ASSUME NEW c \in Calls, ApproveStep(c) PROVE ServerTypeOK'
  <2>1. CASE ApproveReads(c)
    BY <2>1 DEF ApproveReads, Go, End, Steps, Answers
  <2>2. CASE Reserve(c)
    BY <2>2 DEF Reserve, Go, Steps, HeldSteps, SetupSteps
  <2>3. CASE Reread(c)
    BY <2>3 DEF Reread, Go, End, Steps, Answers
  <2>4. CASE Rotate(c)
    BY <2>4, GrantRotated DEF Rotate, End, Steps, Answers
  <2>5. CASE Check(c)
    BY <2>5 DEF Check, Go, Steps, HeldSteps, SetupSteps
  <2>6. CASE NameChecked(c)
    BY <2>6 DEF NameChecked, Go, Steps, HeldSteps, SetupSteps
  <2>7. CASE FindCredential(c)
    <3>1. PICK k \in Maybe(Calls) : arg' = [arg EXCEPT ![c].cred = k]
      BY <2>7 DEF FindCredential, SameName, Maybe
    <3> QED
      BY <2>7, <3>1, ArgOfCredential DEF FindCredential, Go, Steps, HeldSteps, SetupSteps
  <2>8. CASE Credential(c)
    <3>1. pc' \in [Calls -> Steps]
      BY <2>8 DEF Credential, Go, Steps, HeldSteps, SetupSteps
    <3>2. /\ arg' \in [Calls -> ArgType]
          /\ creds' \in [Calls -> CredType]
      <4>1. CASE UNCHANGED <<creds, arg>>
        BY <4>1
      <4>2. CASE NewSecret(c) /\ arg[c].cred # None
        BY <4>2, CredRotated DEF NewSecret
      <4>3. CASE NewSecret(c) /\ arg[c].cred = None
        BY <4>3, CredMade, ArgOfCredential DEF NewSecret, Maybe
      <4> QED
        BY <2>8, <4>1, <4>2, <4>3 DEF Credential
    <3> QED
      BY <2>8, <3>1, <3>2 DEF Credential, Fault
  <2>9. CASE Insert(c)
    BY <2>9 DEF Insert, Fault, Go, Steps, HeldSteps, SetupSteps
  <2>10. CASE Complete(c)
    <3>1. pc' \in [Calls -> Steps] /\ answer' \in [Calls -> Answers]
      BY <2>10 DEF Complete, Go, End, Steps, Answers, HeldSteps, SetupSteps
    <3>2. grant' \in GrantType
      BY <2>10, GrantMade DEF Complete
    <3>3. claimedBy' \in Maybe(Users)
      BY <2>10 DEF Complete, ArgType, Maybe
    <3>4. /\ faults' \in Nat
          /\ UNCHANGED <<stale, iamVars, arg, left, handed, takeover, unreleased, cuts>>
      BY <2>10 DEF Complete, Fault
    <3>5. status' \in Statuses /\ expired' \in BOOLEAN
      BY <2>10 DEF Complete
    <3> QED
      BY <3>1, <3>2, <3>3, <3>4, <3>5 DEF Maybe
  <2>11. CASE Disconnect(c)
    BY <2>11, CredDropped DEF Disconnect, Fault, Go, Steps, HeldSteps, SetupSteps
  <2>12. CASE Revoke(c)
    BY <2>12 DEF Revoke, Fault, Go, Steps, HeldSteps, SetupSteps
  <2>13. CASE Reset(c)
    BY <2>13 DEF Reset, Freed, End, Steps, Answers
  <2>14. CASE Caught(c)
    BY <2>14 DEF Caught, Fault, Go, Steps, HeldSteps, SetupSteps
  <2>15. CASE Release(c)
    <3>1. status' \in Statuses
      BY <2>15 DEF Release, Freed
    <3>2. pc' \in [Calls -> Steps] /\ answer' \in [Calls -> Answers]
      BY <2>15 DEF Release, End, Steps, Answers
    <3>3. faults' \in Nat
      BY <2>15 DEF Release
    <3>4. unreleased' \in BOOLEAN
      BY <2>15 DEF Release
    <3>5. UNCHANGED <<claimedBy, stale, expired, grant, iamVars, arg, left, handed>>
      BY <2>15 DEF Release
    <3>6. UNCHANGED <<takeover, cuts>>
      BY <2>15 DEF Release
    <3> QED
      BY <3>1, <3>2, <3>3, <3>4, <3>5, <3>6
  <2> QED
    BY <1>3, <2>1, <2>2, <2>3, <2>4, <2>5, <2>6, <2>7, <2>8, <2>9, <2>10, <2>11, <2>12,
       <2>13, <2>14, <2>15 DEF ApproveStep
<1>4. ASSUME NEW c \in Calls, CancelReads(c) \/ CancelClaims(c) \/ CancelTransitions(c)
      PROVE  ServerTypeOK'
  <2>1. CASE CancelReads(c)
    BY <2>1 DEF CancelReads, Go, End, Steps, Answers
  <2>2. CASE CancelClaims(c)
    BY <2>2 DEF CancelClaims, Claimable, Go, Steps, ArgType, Maybe
  <2>3. CASE CancelTransitions(c)
    BY <2>3 DEF CancelTransitions, End, Steps, Answers
  <2> QED
    BY <1>4, <2>1, <2>2, <2>3
<1>5. ASSUME NEW c \in Calls, Match(c) PROVE ServerTypeOK'
  BY <1>5 DEF Whole, Match, Fault, Redeemable, Go, End, Steps, Answers, GrantType
<1>6. ASSUME NEW c \in Calls, Burn(c) \/ Undeliver(c) \/ ThrownAway(c) PROVE ServerTypeOK'
  BY <1>6 DEF Whole, Burn, Undeliver, ThrownAway, Go, End, Steps, Answers
<1>7. CASE Time
  BY <1>7 DEF Time, ReservationAges, Expire, Remove
<1>8. ASSUME NEW c \in Calls, Leave(c) \/ Stop(c) PROVE ServerTypeOK'
  <2>1. CASE Leave(c)
    BY <2>1 DEF Leave
  <2>2. CASE Stop(c)
    BY <2>2 DEF Stop, End, Steps, Answers
  <2> QED
    BY <1>8, <2>1, <2>2
<1>9. CASE UNCHANGED serverVars
  BY <1>9 DEF serverVars
<1> QED
  BY <1>1, <1>2, <1>3, <1>4, <1>5, <1>6, <1>7, <1>8, <1>9 DEF ServerNext, CallStep

-----------------------------------------------------------------------------
(* What is set up, granted or marked is a credential.                      *)

LEMMA WholeStep ==
    ASSUME ServerTypeOK, Whole, [ServerNext]_serverVars
    PROVE  Whole'
<1> USE DEF Whole, ServerTypeOK, requestVars, iamVars, badVars, Go, End
<1>1. ASSUME NEW u \in Users, GetRequest(u) PROVE Whole'
  BY <1>1 DEF GetRequest
<1>2. ASSUME NEW c \in Calls, Arrives(c) PROVE Whole'
  <2>1. /\ pc' \in {[pc EXCEPT ![c] = step] : step \in {"readCancel", "read", "match"}}
        /\ \A d \in Calls \ {c} : arg'[d] = arg[d]
        /\ UNCHANGED <<status, grant>>
    BY <1>2 DEF Arrives, CancelArrives, ApproveArrives, ExchangeArrives
  <2> QED
    BY <2>1
<1>3. ASSUME NEW c \in Calls, ApproveStep(c) PROVE Whole'
  <2>1. CASE ApproveReads(c) \/ Reread(c) \/ Check(c) \/ NameChecked(c)
    BY <2>1 DEF ApproveReads, Reread, Check, NameChecked
  <2>2. CASE Reserve(c)
    BY <2>2 DEF Reserve
  <2>3. CASE Rotate(c)
    BY <2>3 DEF Rotate, GrantType
  <2>4. CASE FindCredential(c)
    BY <2>4 DEF FindCredential
  <2>5. CASE Credential(c)
    BY <2>5 DEF Credential, NewSecret, ArgType, Maybe
  <2>6. CASE Insert(c)
    BY <2>6 DEF Insert
  <2>7. CASE Complete(c)
    BY <2>7 DEF Complete
  <2>8. CASE Disconnect(c) \/ Revoke(c) \/ Caught(c)
    BY <2>8 DEF Disconnect, Revoke, Caught
  <2>9. CASE Reset(c) \/ Release(c)
    BY <2>9 DEF Reset, Release, Freed
  <2> QED
    BY <1>3, <2>1, <2>2, <2>3, <2>4, <2>5, <2>6, <2>7, <2>8, <2>9 DEF ApproveStep
<1>4. ASSUME NEW c \in Calls, CancelReads(c) \/ CancelClaims(c) \/ CancelTransitions(c)
      PROVE  Whole'
  BY <1>4 DEF CancelReads, CancelClaims, CancelTransitions
<1>5. ASSUME NEW c \in Calls, Match(c) \/ Burn(c) \/ Undeliver(c) \/ ThrownAway(c) PROVE Whole'
  BY <1>5 DEF Match, Burn, Undeliver, ThrownAway
<1>6. CASE Time
  BY <1>6 DEF Time, ReservationAges, Expire, Remove
<1>7. ASSUME NEW c \in Calls, Leave(c) \/ Stop(c) PROVE Whole'
  BY <1>7 DEF Leave, Stop
<1>8. CASE UNCHANGED serverVars
  BY <1>8 DEF serverVars
<1> QED
  BY <1>1, <1>2, <1>3, <1>4, <1>5, <1>6, <1>7, <1>8 DEF ServerNext, CallStep

-----------------------------------------------------------------------------
(* The core.                                                               *)

\* Steps of calls that do not hold the reservation, and of time.
LEMMA QuietStep ==
    ASSUME ServerTypeOK, Core,
           UNCHANGED <<creds, setups, handed, takeover, faults>>,
           grant'.cred = grant.cred, grant'.secret = grant.secret,
           \/ status' = status \/ status' = "gone"
           \/ status \in {"pending", "approved"} /\ status' \in {"cancelled", "failed"},
           \A d \in Calls : pc'[d] \in HeldSteps => pc'[d] = pc[d] /\ arg'[d].cred = arg[d].cred,
           cuts' \in Nat,
           \/ cuts' > 0
           \/ /\ left' = left /\ cuts' = cuts
              /\ \A d \in Calls : pc[d] \in HeldSteps => pc'[d] = pc[d]
    PROVE  Core'
<1> USE DEF Core, ServerTypeOK, HeldSteps, SetupSteps
<1>1. KeysAfterGrant' /\ GrantFirst'
  BY DEF KeysAfterGrant, GrantFirst
<1>2. HolderApproves'
  BY DEF HolderApproves
<1>3. OneSetupAtATime'
  BY DEF OneSetupAtATime
<1>4. Prepared'
  BY DEF Prepared
<1>5. GrantBacked'
  BY DEF GrantBacked
<1>6. LeftCounted'
  BY DEF LeftCounted
<1>7. NoConnectionForgotten'
  <2>1. CASE cuts' > 0
    BY <2>1 DEF NoConnectionForgotten
  <2>2. CASE cuts' = cuts /\ \A d \in Calls : pc[d] \in HeldSteps => pc'[d] = pc[d]
    BY <2>2 DEF NoConnectionForgotten
  <2> QED
    BY <2>1, <2>2
<1> QED
  BY <1>1, <1>2, <1>3, <1>4, <1>5, <1>6, <1>7

LEMMA CoreQuiet ==
    ASSUME ServerTypeOK, Core, NEW c \in Calls
    PROVE  /\ Arrives(c) => Core'
           /\ CancelReads(c) \/ CancelClaims(c) \/ CancelTransitions(c) => Core'
           /\ ApproveReads(c) \/ Reread(c) \/ Rotate(c) => Core'
           /\ Burn(c) \/ Undeliver(c) => Core'
           /\ Leave(c) \/ Stop(c) => Core'
<1> USE DEF ServerTypeOK, requestVars, iamVars, badVars, Go, End, HeldSteps, SetupSteps
<1>1. ASSUME Arrives(c) PROVE Core'
  <2>1. /\ pc' \in {[pc EXCEPT ![c] = step] : step \in {"readCancel", "read", "match"}}
        /\ \A d \in Calls \ {c} : arg'[d] = arg[d]
        /\ pc[c] = "idle"
        /\ UNCHANGED <<requestVars, iamVars, left, handed, badVars>>
    BY <1>1 DEF Arrives, CancelArrives, ApproveArrives, ExchangeArrives
  <2> QED
    BY <2>1, QuietStep
<1>2. ASSUME CancelReads(c) \/ CancelClaims(c) \/ CancelTransitions(c) PROVE Core'
  BY <1>2, QuietStep DEF CancelReads, CancelClaims, CancelTransitions
<1>3. ASSUME ApproveReads(c) \/ Reread(c) \/ Rotate(c) PROVE Core'
  BY <1>3, QuietStep DEF ApproveReads, Reread, Rotate, GrantType
<1>4. ASSUME Burn(c) \/ Undeliver(c) PROVE Core'
  BY <1>4, QuietStep DEF Burn, Undeliver
<1>5. ASSUME Leave(c) \/ Stop(c) PROVE Core'
  BY <1>5, QuietStep DEF Leave, Stop
<1> QED
  BY <1>1, <1>2, <1>3, <1>4, <1>5

LEMMA CoreRead ==
    ASSUME ServerTypeOK, Core, Time \/ \E u \in Users : GetRequest(u)
    PROVE  Core'
  BY QuietStep DEF ServerTypeOK, requestVars, iamVars, badVars, GetRequest, Time,
     ReservationAges, Expire, Remove

LEMMA CoreReserve ==
    ASSUME ServerTypeOK, Core, NEW c \in Calls, Reserve(c)
    PROVE  Core'
<1> USE DEF Core, ServerTypeOK, HeldSteps, SetupSteps, Reserve, Reservable, Go, iamVars
<1>1. KeysAfterGrant' /\ GrantFirst' /\ LeftCounted'
  BY DEF KeysAfterGrant, GrantFirst, LeftCounted
<1>2. HolderApproves' /\ OneSetupAtATime'
  BY DEF HolderApproves, OneSetupAtATime, KeysAfterGrant
<1>3. Prepared'
  BY DEF Prepared
<1>4. GrantBacked'
  BY DEF GrantBacked
<1>5. NoConnectionForgotten'
  BY DEF NoConnectionForgotten
<1> QED
  BY <1>1, <1>2, <1>3, <1>4, <1>5

\* Steps of the holder that change no credential, connection or request.
LEMMA CorePrepare ==
    ASSUME ServerTypeOK, Core, NEW c \in Calls, Check(c) \/ NameChecked(c) \/ FindCredential(c)
    PROVE  Core'
<1> USE DEF Core, ServerTypeOK, HeldSteps, SetupSteps, Go, iamVars, requestVars, badVars
<1>1. /\ pc[c] \in {"check", "name", "find"}
      /\ pc' \in {[pc EXCEPT ![c] = step] : step \in {"name", "find", "credential", "reset"}}
      /\ \A d \in Calls \ {c} : arg'[d] = arg[d]
      /\ UNCHANGED <<requestVars, iamVars, left, handed, badVars>>
  BY DEF Check, NameChecked, FindCredential
<1>2. KeysAfterGrant' /\ GrantFirst' /\ LeftCounted'
  BY <1>1 DEF KeysAfterGrant, GrantFirst, LeftCounted
<1>3. HolderApproves' /\ OneSetupAtATime'
  BY <1>1 DEF HolderApproves, OneSetupAtATime
<1>4. Prepared'
  BY <1>1 DEF Prepared
<1>5. GrantBacked'
  BY <1>1 DEF GrantBacked
<1>6. NoConnectionForgotten'
  BY <1>1 DEF NoConnectionForgotten
<1> QED
  BY <1>2, <1>3, <1>4, <1>5, <1>6

\* The holder is alone: what it does to IAM touches nobody else's.
LEMMA CoreCredential ==
    ASSUME ServerTypeOK, Core, NEW c \in Calls, Credential(c)
    PROVE  Core'
<1> USE DEF Core, ServerTypeOK, HeldSteps, SetupSteps, Go, requestVars
<1>1. /\ pc[c] = "credential"
      /\ pc' \in {[pc EXCEPT ![c] = step] : step \in {"insert", "reset"}}
      /\ \A d \in Calls \ {c} : arg'[d] = arg[d]
      /\ faults' \in Nat /\ faults' >= faults
      /\ UNCHANGED <<requestVars, setups, left, handed, takeover, cuts>>
  BY DEF Credential, NewSecret, Fault, badVars
<1>2. KeysAfterGrant' /\ GrantFirst' /\ LeftCounted'
  BY <1>1 DEF KeysAfterGrant, GrantFirst, LeftCounted
<1>3. HolderApproves' /\ OneSetupAtATime'
  BY <1>1 DEF HolderApproves, OneSetupAtATime
<1>4. Prepared'
  <2>1. pc'[c] = "insert" => /\ arg'[c].cred \in Calls
                            /\ creds'[arg'[c].cred].live
                            /\ creds'[arg'[c].cred].secret = c
    BY DEF Credential, NewSecret, ArgType, CredType, Maybe
  <2> QED
    BY <1>1, <2>1 DEF Prepared, OneSetupAtATime
<1>5. GrantBacked'
  BY <1>1 DEF GrantBacked, HolderApproves
<1>6. NoConnectionForgotten'
  BY <1>1 DEF NoConnectionForgotten
<1> QED
  BY <1>2, <1>3, <1>4, <1>5, <1>6

LEMMA CoreInsert ==
    ASSUME ServerTypeOK, Whole, Core, NEW c \in Calls, Insert(c)
    PROVE  Core'
<1> USE DEF Core, ServerTypeOK, HeldSteps, SetupSteps, Go, requestVars
<1>1. /\ pc[c] = "insert" /\ arg[c].cred \in Calls
      /\ pc' \in {[pc EXCEPT ![c] = step] : step \in {"complete", "reset", "release"}}
      /\ faults' \in Nat /\ faults' >= faults
      /\ UNCHANGED <<requestVars, creds, arg, left, handed, takeover, cuts>>
  BY DEF Whole, Insert, Fault, badVars
<1>2. KeysAfterGrant' /\ GrantFirst' /\ LeftCounted'
  BY <1>1 DEF KeysAfterGrant, GrantFirst, LeftCounted
<1>3. HolderApproves' /\ OneSetupAtATime'
  BY <1>1 DEF HolderApproves, OneSetupAtATime
<1>4. Prepared'
  <2>1. pc'[c] = "complete" => setups'[arg[c].cred] = "active"
    BY <1>1 DEF Insert
  <2> QED
    BY <1>1, <2>1 DEF Prepared, OneSetupAtATime
<1>5. GrantBacked'
  BY <1>1 DEF GrantBacked, HolderApproves
<1>6. NoConnectionForgotten'
  <2>1. /\ \A k \in Calls \ {arg[c].cred} : setups'[k] = setups[k]
        /\ \/ pc'[c] = "complete" \/ faults' > 0
           \/ UNCHANGED setups
    BY <1>1 DEF Insert, Fault
  <2> QED
    BY <1>1, <2>1 DEF NoConnectionForgotten
<1> QED
  BY <1>2, <1>3, <1>4, <1>5, <1>6

LEMMA CoreComplete ==
    ASSUME ServerTypeOK, Whole, Core, NEW c \in Calls, Complete(c)
    PROVE  Core'
<1> USE DEF Core, ServerTypeOK, HeldSteps, SetupSteps, Go, iamVars, badVars
<1>1. /\ pc[c] = "complete" /\ arg[c].cred \in Calls
      /\ pc' \in {[pc EXCEPT ![c] = step] : step \in {"done", "disconnect"}}
      /\ faults' \in Nat /\ faults' >= faults
      /\ UNCHANGED <<iamVars, arg, left, handed, takeover, cuts>>
  BY DEF Whole, Complete, End, Fault
<1>2. CASE /\ status = "approving" /\ status' = "approved"
           /\ grant' = [env |-> arg[c].env, template |-> arg[c].template,
                        cred |-> arg[c].cred, secret |-> c, code |-> c]
           /\ pc' = [pc EXCEPT ![c] = "done"]
  <2>1. KeysAfterGrant' /\ GrantFirst' /\ LeftCounted'
    BY <1>1, <1>2 DEF KeysAfterGrant, GrantFirst, LeftCounted
  <2>2. HolderApproves' /\ OneSetupAtATime'
    BY <1>1, <1>2 DEF HolderApproves, OneSetupAtATime
  <2>3. Prepared'
    BY <1>1, <1>2 DEF Prepared
  <2>4. GrantBacked'
    BY <1>1, <1>2, ConnectAssumption DEF GrantBacked, Prepared, HolderApproves
  <2>5. NoConnectionForgotten'
    BY <1>1, <1>2, ConnectAssumption DEF NoConnectionForgotten, OneSetupAtATime, GrantFirst
  <2> QED
    BY <2>1, <2>2, <2>3, <2>4, <2>5
<1>3. CASE /\ UNCHANGED <<status, grant>>
           /\ pc' = [pc EXCEPT ![c] = "disconnect"]
  <2>1. KeysAfterGrant' /\ GrantFirst' /\ LeftCounted'
    BY <1>1, <1>3 DEF KeysAfterGrant, GrantFirst, LeftCounted
  <2>2. HolderApproves' /\ OneSetupAtATime'
    BY <1>1, <1>3 DEF HolderApproves, OneSetupAtATime
  <2>3. Prepared'
    BY <1>1, <1>3 DEF Prepared
  <2>4. GrantBacked'
    BY <1>1, <1>3 DEF GrantBacked
  <2>5. NoConnectionForgotten'
    BY <1>1, <1>3 DEF NoConnectionForgotten
  <2> QED
    BY <2>1, <2>2, <2>3, <2>4, <2>5
<1> QED
  BY <1>1, <1>2, <1>3 DEF Complete, End, Fault

LEMMA CoreUndo ==
    ASSUME ServerTypeOK, Whole, Core, NEW c \in Calls, Disconnect(c) \/ Revoke(c)
    PROVE  Core'
<1> USE DEF Core, ServerTypeOK, HeldSteps, SetupSteps, Go, requestVars
<1>1. /\ pc[c] \in {"disconnect", "revoke"} /\ arg[c].cred \in Calls
      /\ pc' \in {[pc EXCEPT ![c] = step] : step \in {"revoke", "reset"}}
      /\ faults' \in Nat /\ faults' >= faults
      /\ UNCHANGED <<requestVars, arg, left, handed, takeover, cuts>>
      /\ \A k \in Calls : setups'[k] = setups[k] \/ (k = arg[c].cred /\ setups'[k] = "revoked")
      /\ pc'[c] = "reset" => setups'[arg[c].cred] # "active" \/ faults' > 0
  <2>1. /\ pc[c] \in {"disconnect", "revoke"} /\ arg[c].cred \in Calls
        /\ pc' \in {[pc EXCEPT ![c] = step] : step \in {"revoke", "reset"}}
    BY DEF Whole, Disconnect, Revoke
  <2>2. /\ faults' \in Nat /\ faults' >= faults
        /\ UNCHANGED <<requestVars, arg, left, handed, takeover, cuts>>
    BY DEF Disconnect, Revoke, Fault, badVars
  <2>3. \A k \in Calls : setups'[k] = setups[k] \/ (k = arg[c].cred /\ setups'[k] = "revoked")
    BY <2>1 DEF Disconnect, Revoke
  <2>4. pc'[c] = "reset" => setups'[arg[c].cred] # "active" \/ faults' > 0
    BY <2>1 DEF Disconnect, Revoke, Fault, badVars
  <2> QED
    BY <2>1, <2>2, <2>3, <2>4
<1>2. KeysAfterGrant' /\ GrantFirst' /\ LeftCounted'
  BY <1>1 DEF KeysAfterGrant, GrantFirst, LeftCounted
<1>3. HolderApproves' /\ OneSetupAtATime'
  BY <1>1 DEF HolderApproves, OneSetupAtATime
<1>4. Prepared'
  BY <1>1 DEF Prepared, OneSetupAtATime
<1>5. GrantBacked'
  BY <1>1 DEF GrantBacked, HolderApproves
<1>6. NoConnectionForgotten'
  BY <1>1 DEF NoConnectionForgotten
<1> QED
  BY <1>2, <1>3, <1>4, <1>5, <1>6

\* The holder fails: what it has set up is forgotten, and a fault counted.
LEMMA CoreCaught ==
    ASSUME ServerTypeOK, Core, NEW c \in Calls, Caught(c)
    PROVE  Core'
<1> USE DEF Core, ServerTypeOK, HeldSteps, SetupSteps, Go
<1>1. /\ pc[c] \in HeldSteps
      /\ pc' = [pc EXCEPT ![c] = "release"]
      /\ faults' \in Nat /\ faults' > 0
      /\ UNCHANGED <<requestVars, iamVars, arg, left, handed, takeover, cuts>>
  BY DEF Caught, Fault
<1>2. KeysAfterGrant' /\ GrantFirst' /\ LeftCounted'
  BY <1>1 DEF KeysAfterGrant, GrantFirst, LeftCounted, requestVars
<1>3. HolderApproves' /\ OneSetupAtATime'
  BY <1>1 DEF HolderApproves, OneSetupAtATime, requestVars
<1>4. Prepared'
  BY <1>1 DEF Prepared, iamVars
<1>5. GrantBacked'
  BY <1>1 DEF GrantBacked, requestVars, iamVars
<1>6. NoConnectionForgotten'
  BY <1>1 DEF NoConnectionForgotten
<1> QED
  BY <1>2, <1>3, <1>4, <1>5, <1>6

LEMMA CoreRelease ==
    ASSUME ServerTypeOK, Core, NEW c \in Calls, Reset(c) \/ Release(c) \/ ThrownAway(c),
           pc[c] \in {"complete", "reset", "release"}
    PROVE  Core'
<1> USE DEF Core, ServerTypeOK, HeldSteps, SetupSteps, End, iamVars, requestVars, badVars
<1>1. /\ pc[c] \in {"complete", "reset", "release"}
      /\ pc[c] \in {"reset", "release"} \/ cuts > 0
      /\ pc' = [pc EXCEPT ![c] = "done"]
      /\ faults' \in Nat /\ faults' >= faults
      /\ status' = status \/ (status = "approving" /\ status' = "pending")
      /\ UNCHANGED <<grant, iamVars, arg, left, handed, takeover, cuts>>
  <2>1. /\ pc[c] \in {"complete", "reset", "release"}
        /\ pc' = [pc EXCEPT ![c] = "done"]
        /\ status' = status \/ (status = "approving" /\ status' = "pending")
        /\ UNCHANGED <<grant, iamVars, arg, left, handed, takeover, cuts>>
    BY DEF Reset, Release, Freed, ThrownAway
  <2>2. pc[c] \in {"reset", "release"} \/ cuts > 0
    BY DEF Reset, Release, ThrownAway, Cancelled, LeftCounted
  <2>3. faults' \in Nat /\ faults' >= faults
    BY DEF Reset, Release, ThrownAway
  <2> QED
    BY <2>1, <2>2, <2>3
<1>2. KeysAfterGrant' /\ GrantFirst' /\ LeftCounted'
  BY <1>1 DEF KeysAfterGrant, GrantFirst, LeftCounted
<1>3. HolderApproves' /\ OneSetupAtATime'
  BY <1>1 DEF HolderApproves, OneSetupAtATime
<1>4. Prepared'
  BY <1>1 DEF Prepared
<1>5. GrantBacked'
  BY <1>1 DEF GrantBacked
<1>6. NoConnectionForgotten'
  BY <1>1 DEF NoConnectionForgotten
<1> QED
  BY <1>2, <1>3, <1>4, <1>5, <1>6

\* A call that is cut off without a reservation changes nothing.
LEMMA CoreThrown ==
    ASSUME ServerTypeOK, Core, NEW c \in Calls, ThrownAway(c)
    PROVE  Core'
<1>1. CASE pc[c] \in {"complete", "reset", "release"}
  BY <1>1, CoreRelease
<1>2. CASE pc[c] \notin {"complete", "reset", "release"}
  BY <1>2, QuietStep
     DEF ThrownAway, End, ServerTypeOK, HeldSteps, SetupSteps, requestVars, iamVars, badVars
<1> QED
  BY <1>1, <1>2

LEMMA CoreMatch ==
    ASSUME ServerTypeOK, Core, NEW c \in Calls, Match(c)
    PROVE  Core'
<1> USE DEF Core, ServerTypeOK, HeldSteps, SetupSteps, Go, End, iamVars, requestVars, badVars
<1>1. /\ pc[c] = "match"
      /\ pc' \in {[pc EXCEPT ![c] = step] : step \in {"done", "burn"}}
      /\ faults' \in Nat /\ faults' >= faults
      /\ UNCHANGED <<grant, iamVars, arg, left, takeover, cuts>>
      /\ \/ UNCHANGED <<status, handed>>
         \/ /\ status = "approved" /\ status' = "exchanged"
            /\ handed' \subseteq handed \cup
                   {[call |-> c, cred |-> grant.cred, secret |-> grant.secret]}
  BY DEF Match, Redeemable, Fault
<1>2. KeysAfterGrant' /\ GrantFirst' /\ LeftCounted'
  BY <1>1 DEF KeysAfterGrant, GrantFirst, LeftCounted
<1>3. HolderApproves' /\ OneSetupAtATime'
  BY <1>1 DEF HolderApproves, OneSetupAtATime
<1>4. Prepared'
  BY <1>1 DEF Prepared
<1>5. GrantBacked'
  BY <1>1 DEF GrantBacked
<1>6. NoConnectionForgotten'
  BY <1>1 DEF NoConnectionForgotten
<1> QED
  BY <1>2, <1>3, <1>4, <1>5, <1>6

-----------------------------------------------------------------------------
(* The theorems.                                                           *)

LEMMA Initial == ServerInit => IInv
<1> SUFFICES ASSUME ServerInit PROVE IInv
  OBVIOUS
<1> USE ConnectAssumption DEF ServerInit
<1>1. ServerTypeOK
  BY DEF ServerTypeOK, NoGrant, NoCred, NoArg, GrantType, CredType, ArgType, Maybe,
         Statuses, Steps, Answers
<1>2. Whole
  BY DEF Whole
<1>3. Core
  BY DEF Core, KeysAfterGrant, GrantFirst, HolderApproves, OneSetupAtATime, Prepared,
         GrantBacked, LeftCounted, NoConnectionForgotten, NoGrant, HeldSteps, SetupSteps
<1> QED
  BY <1>1, <1>2, <1>3 DEF IInv

LEMMA Inductive == IInv /\ [ServerNext]_serverVars => IInv'
<1> SUFFICES ASSUME IInv, [ServerNext]_serverVars PROVE IInv'
  OBVIOUS
<1>1. ServerTypeOK /\ Whole /\ Core
  BY DEF IInv
<1>2. ServerTypeOK' /\ Whole'
  BY <1>1, TypeStep, WholeStep
<1>3. Core'
  <2>1. ASSUME NEW u \in Users, GetRequest(u) PROVE Core'
    BY <1>1, <2>1, CoreRead
  <2>2. ASSUME NEW c \in Calls, ApproveStep(c) PROVE Core'
    <3>1. CASE Reset(c) \/ Release(c)
      BY <1>1, <3>1, CoreRelease DEF Reset, Release
    <3> QED
      BY <1>1, <2>2, <3>1, CoreQuiet, CoreReserve, CorePrepare, CoreCredential, CoreInsert,
         CoreComplete, CoreUndo, CoreCaught
         DEF ApproveStep
  <2>3. ASSUME NEW c \in Calls, CallStep(c) PROVE Core'
    BY <1>1, <2>2, <2>3, CoreQuiet, CoreMatch, CoreThrown DEF CallStep
  <2>4. ASSUME NEW c \in Calls, Arrives(c) \/ Leave(c) \/ Stop(c) PROVE Core'
    BY <1>1, <2>4, CoreQuiet
  <2>5. CASE Time
    BY <1>1, <2>5, CoreRead
  <2>6. CASE UNCHANGED serverVars
    BY <1>1, <2>6, QuietStep DEF serverVars, requestVars, iamVars, badVars, ServerTypeOK
  <2> QED
    BY <2>1, <2>3, <2>4, <2>5, <2>6 DEF ServerNext
<1> QED
  BY <1>2, <1>3 DEF IInv

\* The inductive invariant of the server.
THEOREM Invariance == ServerSpec => []IInv
  BY Initial, Inductive, PTL DEF ServerSpec

\* Every reachable state is well typed.
THEOREM TypeCorrect == ServerSpec => []ServerTypeOK
<1>1. IInv => ServerTypeOK
  BY DEF IInv
<1> QED
  BY <1>1, Invariance, PTL

\* "This prevents two browser clicks from making two client credentials", for any
\* number of clicks: TryStartApproval lets one call at a time set up.
THEOREM OneSetup == ServerSpec => []OneSetupAtATime
<1>1. IInv => OneSetupAtATime
  BY DEF IInv, Core
<1> QED
  BY <1>1, Invariance, PTL

\* A code that can be redeemed stands for an active connection and the secret IAM
\* holds, and so do keys that were handed out.
THEOREM Backed == ServerSpec => []GrantBacked
<1>1. IInv => GrantBacked
  BY DEF IInv, Core
<1> QED
  BY <1>1, Invariance, PTL

\* While no call fails or is cut off, every active connection is granted or in the
\* hands of the call that will grant it or take it back.
THEOREM NoneForgotten == ServerSpec => []NoConnectionForgotten
<1>1. IInv => NoConnectionForgotten
  BY DEF IInv, Core
<1> QED
  BY <1>1, Invariance, PTL

-----------------------------------------------------------------------------
(* Release.                                                                *)

\* The steps that hold a reservation end only where it is released or used.
LEMMA StepReleases ==
    ASSUME ServerTypeOK, LeftCounted, ReservationReleased, [ServerNext]_serverVars
    PROVE  ReservationReleased'
<1> USE DEF ReservationReleased, ReservationHeld, ServerTypeOK, HeldSteps, SetupSteps
<1>1. ASSUME NEW u \in Users, GetRequest(u) PROVE ReservationReleased'
  BY <1>1 DEF GetRequest, badVars
<1>2. ASSUME NEW c \in Calls, Arrives(c) PROVE ReservationReleased'
  BY <1>2 DEF Arrives, CancelArrives, ApproveArrives, ExchangeArrives, Go, badVars, requestVars
<1>3. ASSUME NEW c \in Calls, ApproveStep(c) PROVE ReservationReleased'
  <2> USE DEF Go, End, Fault, badVars, requestVars
  <2>1. CASE ApproveReads(c) \/ Reread(c) \/ Rotate(c)
    BY <2>1 DEF ApproveReads, Reread, Rotate
  <2>2. CASE Reserve(c)
    BY <2>2 DEF Reserve
  <2>3. CASE Check(c) \/ NameChecked(c) \/ FindCredential(c) \/ Credential(c) \/ Insert(c)
    BY <2>3 DEF Check, NameChecked, FindCredential, Credential, Insert
  <2>4. CASE Complete(c) \/ Disconnect(c) \/ Revoke(c) \/ Caught(c)
    BY <2>4 DEF Complete, Disconnect, Revoke, Caught
  <2>5. CASE Reset(c) \/ Release(c)
    BY <2>5 DEF Reset, Release, Freed
  <2> QED
    BY <1>3, <2>1, <2>2, <2>3, <2>4, <2>5 DEF ApproveStep
<1>4. ASSUME NEW c \in Calls, CallStep(c) PROVE ReservationReleased'
  <2>1. CASE CancelReads(c) \/ CancelClaims(c) \/ CancelTransitions(c)
    BY <2>1 DEF CancelReads, CancelClaims, CancelTransitions, Go, End, badVars, requestVars
  <2>2. CASE Match(c) \/ Burn(c) \/ Undeliver(c)
    BY <2>2 DEF Match, Burn, Undeliver, Go, End, Fault, badVars, requestVars
  <2>3. CASE ThrownAway(c)
    BY <2>3 DEF ThrownAway, Cancelled, LeftCounted, End, badVars, requestVars
  <2> QED
    BY <1>3, <1>4, <2>1, <2>2, <2>3 DEF CallStep
<1>5. ASSUME NEW c \in Calls, Leave(c) \/ Stop(c) PROVE ReservationReleased'
  BY <1>5 DEF Leave, Stop
<1>6. CASE Time
  BY <1>6 DEF Time, ReservationAges, Expire, Remove, badVars
<1>7. CASE UNCHANGED serverVars
  BY <1>7 DEF serverVars, badVars, requestVars
<1> QED
  BY <1>1, <1>2, <1>4, <1>5, <1>6, <1>7 DEF ServerNext

\* "Every failure path, including an unexpected exception, releases the reservation
\* back to pending": also where steps of the setup throw, in any number, as long as
\* the release of a catch block does not, no call is cut off and none taken over.
THEOREM Released == ServerSpec => []ReservationReleased
<1>1. ServerInit => ReservationReleased
  BY DEF ServerInit, ReservationReleased, ReservationHeld
<1>2. IInv /\ ReservationReleased /\ [ServerNext]_serverVars => ReservationReleased'
  BY StepReleases DEF IInv, Core
<1> QED
  BY <1>1, <1>2, Invariance, PTL DEF ServerSpec

-----------------------------------------------------------------------------
(* The refinement.                                                         *)

\* What a step may do to the status of the request and to the keys handed out.
Moves == {<<"pending", "approving">>, <<"approving", "pending">>, <<"approving", "approved">>,
          <<"pending", "cancelled">>, <<"approved", "failed">>, <<"approved", "exchanged">>}

Effect ==
    \/ UNCHANGED <<status, handed>>
    \/ <<status, status'>> \in Moves /\ UNCHANGED handed
    \/ status' = "gone" /\ UNCHANGED handed
    \/ /\ status = "approved" /\ status' = "exchanged"
       /\ \E h : handed' = handed \cup {h}

LEMMA StepEffect ==
    ASSUME ServerTypeOK, [ServerNext]_serverVars
    PROVE  Effect
<1> USE DEF Effect, Moves, requestVars
<1>1. ASSUME NEW u \in Users, GetRequest(u) PROVE Effect
  BY <1>1 DEF GetRequest
<1>2. ASSUME NEW c \in Calls, Arrives(c) PROVE Effect
  BY <1>2 DEF Arrives, CancelArrives, ApproveArrives, ExchangeArrives
<1>3. ASSUME NEW c \in Calls, ApproveStep(c) PROVE Effect
  <2>1. CASE ApproveReads(c) \/ Reread(c) \/ Rotate(c) \/ Check(c)
             \/ NameChecked(c) \/ FindCredential(c) \/ Credential(c) \/ Insert(c)
             \/ Disconnect(c) \/ Revoke(c)
    BY <2>1 DEF ApproveReads, Reread, Rotate, Check, NameChecked,
       FindCredential, Credential, Insert, Disconnect, Revoke
  <2>2. CASE Reserve(c)
    BY <2>2 DEF Reserve, Reservable
  <2>3. CASE Complete(c)
    BY <2>3 DEF Complete
  <2>4. CASE Reset(c) \/ Release(c)
    BY <2>4 DEF Reset, Release, Freed
  <2>5. CASE Caught(c)
    BY <2>5 DEF Caught
  <2> QED
    BY <1>3, <2>1, <2>2, <2>3, <2>4, <2>5 DEF ApproveStep
<1>4. ASSUME NEW c \in Calls, CancelReads(c) \/ CancelClaims(c) \/ CancelTransitions(c)
      PROVE  Effect
  BY <1>4 DEF CancelReads, CancelClaims, CancelTransitions
<1>5. ASSUME NEW c \in Calls, Match(c) PROVE Effect
  BY <1>5 DEF Match, Redeemable
<1>6. ASSUME NEW c \in Calls, Burn(c) \/ Undeliver(c) \/ ThrownAway(c) PROVE Effect
  BY <1>6 DEF Burn, Undeliver, ThrownAway
<1>7. CASE Time
  BY <1>7 DEF Time, ReservationAges, Expire, Remove
<1>8. ASSUME NEW c \in Calls, Leave(c) \/ Stop(c) PROVE Effect
  BY <1>8 DEF Leave, Stop
<1>9. CASE UNCHANGED serverVars
  BY <1>9 DEF serverVars
<1> QED
  BY <1>1, <1>2, <1>3, <1>4, <1>5, <1>6, <1>7, <1>8, <1>9 DEF ServerNext, CallStep

LEMMA EffectRefines ==
    ASSUME ServerTypeOK, KeysAfterGrant, Effect
    PROVE  [Abstract!Next]_<<GrantState, Cardinality(handed)>>
<1> USE DEF Abstract!Next, Abstract!Grant, Abstract!Close, Abstract!Deliver, GrantState
<1>1. CASE UNCHANGED <<status, handed>>
  BY <1>1
<1>2. CASE <<status, status'>> \in Moves /\ UNCHANGED handed
  BY <1>2 DEF Moves, KeysAfterGrant
<1>3. CASE status' = "gone" /\ UNCHANGED handed
  BY <1>3 DEF ServerTypeOK, Statuses
<1>4. CASE /\ status = "approved" /\ status' = "exchanged"
           /\ \E h : handed' = handed \cup {h}
  <2>1. PICK h : handed' = handed \cup {h}
    BY <1>4
  <2>2. handed = {} /\ handed' = {h}
    BY <1>4, <2>1 DEF KeysAfterGrant
  <2>3. Cardinality(handed) = 0 /\ Cardinality(handed') = 1
    BY <2>2, FS_EmptySet, FS_Singleton
  <2> QED
    BY <1>4, <2>2, <2>3
<1> QED
  BY <1>1, <1>2, <1>3, <1>4 DEF Effect

\* However calls overlap, fail and are cut off, the request is a one-time grant:
\* granted once, its keys handed out once, none after it was closed.
THEOREM Refinement == ServerSpec => ImplementsGrant
<1>1. ServerInit => Abstract!Init
  BY FS_EmptySet DEF ServerInit, Abstract!Init, GrantState
<1>2. IInv /\ [ServerNext]_serverVars => [Abstract!Next]_<<GrantState, Cardinality(handed)>>
  BY StepEffect, EffectRefines DEF IInv, Core
<1> QED
  BY <1>1, <1>2, Invariance, PTL DEF ServerSpec, ImplementsGrant, Abstract!Spec

-----------------------------------------------------------------------------
(* What the server has said, over the life of a request.                   *)

\* An answer is final, a code is told of an approved request, a denial of one
\* that was cancelled, by one call, and never both.
Verdict ==
    /\ \A c \in Calls : answer[c] # "none" => pc[c] = "done"
    /\ \A c \in Calls : answer[c] = "code" => status \in {"approved", "exchanged", "failed", "gone"}
    /\ \A c \in Calls : answer[c] = "denied" => status \in {"cancelled", "gone"} /\ handed = {}
    /\ \A c, d \in Calls : answer[c] = "denied" => answer[d] # "code"
    /\ \A c, d \in Calls : answer[c] = "denied" /\ answer[d] = "denied" => c = d

\* What a step may do to the answers: a call that ends gets one, a code only of an
\* approved request, a denial only with the cancellation.
Told(c, a) ==
    /\ \A d \in Calls : d # c => answer'[d] = answer[d]
    /\ pc[c] # "done" /\ pc'[c] = "done" /\ answer'[c] = a

Answered ==
    /\ \A c \in Calls : pc[c] = "done" => pc'[c] = "done"
    /\ \/ UNCHANGED answer
       \/ \E c \in Calls, a \in Answers : Told(c, a) /\ a \notin {"code", "denied"}
       \/ \E c \in Calls : Told(c, "code") /\ status' = "approved"
       \/ \E c \in Calls : Told(c, "denied") /\ status = "pending" /\ status' = "cancelled"
                           /\ UNCHANGED handed

LEMMA StepAnswers ==
    ASSUME ServerTypeOK, [ServerNext]_serverVars
    PROVE  Answered
<1> USE DEF ServerTypeOK, Answered, Told, Answers, Go, End
<1>1. ASSUME NEW u \in Users, GetRequest(u) PROVE Answered
  BY <1>1 DEF GetRequest
<1>2. ASSUME NEW c \in Calls, Arrives(c) PROVE Answered
  BY <1>2 DEF Arrives, CancelArrives, ApproveArrives, ExchangeArrives
<1>3. ASSUME NEW c \in Calls, ApproveStep(c) PROVE Answered
  <2>1. CASE ApproveReads(c) \/ Reread(c)
    BY <2>1 DEF ApproveReads, Reread
  <2>2. CASE Rotate(c)
    <3>1. CASE UNCHANGED grant /\ End(c, "refused")
      BY <2>2, <3>1 DEF Rotate
    <3>2. CASE status = "approved" /\ End(c, "code")
      BY <2>2, <3>2 DEF Rotate
    <3> QED
      BY <2>2, <3>1, <3>2 DEF Rotate
  <2>3. CASE Reserve(c) \/ Check(c) \/ NameChecked(c) \/ FindCredential(c)
    BY <2>3 DEF Reserve, Check, NameChecked, FindCredential
  <2>4. CASE Credential(c) \/ Insert(c) \/ Disconnect(c) \/ Revoke(c)
    BY <2>4 DEF Credential, Insert, Disconnect, Revoke
  <2>5. CASE Complete(c)
    BY <2>5 DEF Complete
  <2>6. CASE Reset(c) \/ Caught(c)
    BY <2>6 DEF Reset, Caught, HeldSteps, SetupSteps
  <2>7. CASE Release(c)
    <3>1. CASE End(c, "refused")
      BY <2>7, <3>1 DEF Release
    <3>2. CASE End(c, "lost")
      BY <2>7, <3>2 DEF Release
    <3>3. End(c, "refused") \/ End(c, "lost")
      BY <2>7 DEF Release
    <3> QED
      BY <3>1, <3>2, <3>3
  <2> QED
    BY <1>3, <2>1, <2>2, <2>3, <2>4, <2>5, <2>6, <2>7 DEF ApproveStep
<1>4. ASSUME NEW c \in Calls, CancelReads(c) \/ CancelClaims(c) PROVE Answered
  BY <1>4 DEF CancelReads, CancelClaims
<1>5. ASSUME NEW c \in Calls, CancelTransitions(c) PROVE Answered
  <2>1. CASE status = "pending" /\ status' = "cancelled" /\ End(c, "denied")
    BY <1>5, <2>1 DEF CancelTransitions
  <2>2. CASE End(c, "refused")
    BY <1>5, <2>2 DEF CancelTransitions
  <2> QED
    BY <1>5, <2>1, <2>2 DEF CancelTransitions
<1>6. ASSUME NEW c \in Calls, Match(c) PROVE Answered
  BY <1>6 DEF Match
<1>7. ASSUME NEW c \in Calls, Burn(c) \/ Undeliver(c) \/ ThrownAway(c) PROVE Answered
  BY <1>7 DEF Burn, Undeliver, ThrownAway
<1>8. CASE Time
  BY <1>8 DEF Time, ReservationAges, Expire, Remove
<1>9. ASSUME NEW c \in Calls, Leave(c) PROVE Answered
  BY <1>9 DEF Leave
<1>10. ASSUME NEW c \in Calls, Stop(c) PROVE Answered
  BY <1>10 DEF Stop, Busy
<1>11. CASE UNCHANGED serverVars
  BY <1>11 DEF serverVars
<1> QED
  BY <1>1, <1>2, <1>3, <1>4, <1>5, <1>6, <1>7, <1>8, <1>9, <1>10, <1>11
     DEF ServerNext, CallStep

LEMMA VerdictStep ==
    ASSUME ServerTypeOK, KeysAfterGrant, Verdict, Answered, Effect
    PROVE  Verdict'
<1> USE DEF ServerTypeOK, Verdict
\* Keys go out only of an approved request.
<1>1. /\ status \in {"cancelled", "gone"} => status' \in {"cancelled", "gone"} /\ UNCHANGED handed
      /\ status \in {"approved", "exchanged", "failed", "gone"}
            => status' \in {"approved", "exchanged", "failed", "gone"}
  BY DEF Effect, Moves
<1>2. CASE UNCHANGED answer
  BY <1>1, <1>2 DEF Answered
<1>3. ASSUME NEW c \in Calls, NEW a \in Answers, Told(c, a), a \notin {"code", "denied"}
      PROVE  Verdict'
  BY <1>1, <1>3 DEF Told, Answered
<1>4. ASSUME NEW c \in Calls, Told(c, "code"), status' = "approved" PROVE Verdict'
  <2>1. \A d \in Calls : answer[d] # "denied"
    BY <1>1, <1>4
  <2> QED
    BY <1>1, <1>4, <2>1 DEF Told, Answered
<1>5. ASSUME NEW c \in Calls, Told(c, "denied"), status = "pending", status' = "cancelled",
             UNCHANGED handed
      PROVE  Verdict'
  <2>1. handed = {} /\ \A d \in Calls : answer[d] \notin {"code", "denied"}
    BY <1>5 DEF KeysAfterGrant
  <2> QED
    BY <1>5, <2>1 DEF Told, Answered
<1> QED
  BY <1>2, <1>3, <1>4, <1>5 DEF Answered

-----------------------------------------------------------------------------
(* The page.                                                               *)

\* A selected environment comes with one of the templates.
ChosenWhole == selected # None => selected \in Envs /\ template \in Templates

\* The readiness wait has one poll, and there are finitely many checks to count.
PollInv == IsFiniteSet(LiveChecks) /\ OnePoll

\* The wait runs on a click that no approval has followed yet.
Asked == phase.p # "idle" => clicked \/ (phase.p = "ready" /\ startedFor = Selection)

\* Once an approval is on its way, or has brought a code, nothing polls, and the
\* effect of "ready" is stopped by approvalStartedFor.
SentOnce ==
    sending # None \/ code # None =>
        /\ phase.p \in {"idle", "ready"}
        /\ IsReady => startedFor = Selection

\* The calls the page knows of were made.
CallsMade ==
    /\ sending # None => pc[sending] # "idle"
    /\ cancelling # None => pc[cancelling] # "idle"
    /\ code # None => answer[code] = "code" /\ sending = None
    /\ leaving => code # None
    /\ \A c \in abandoned : pc[c] # "idle"

\* They are different calls.
CallsApart ==
    /\ sending \notin abandoned /\ cancelling \notin abandoned
    /\ sending # None => sending # cancelling

\* A callback is for a code the page no longer waits for, and not loaded yet
\* unless the page is leaving.
VisitsBehind ==
    /\ \A i, j \in DOMAIN visits : visits[i] = visits[j] => i = j
    /\ \A i \in DOMAIN visits : visits[i] # "denied" =>
          /\ answer[visits[i]] = "code"
          /\ visits[i] # sending
          /\ visits[i] = code => leaving
    /\ \A i \in DOMAIN visits : visits[i] = "denied" =>
          /\ Len(visits) = 1
          /\ \E c \in Calls : answer[c] = "denied" /\ c \notin {sending, cancelling} \cup abandoned

PageInv ==
    /\ PageTypeOK
    /\ ChosenWhole
    /\ PollInv
    /\ Asked
    /\ SentOnce
    /\ CallsMade
    /\ CallsApart
    /\ VisitsBehind

\* The parts of the page's state.
CheckType == [step : {"none", "impersonate", "readiness"}, env : Tenants,
              template : Templates \cup {None}, under : Tenants, live : BOOLEAN]
PhaseType == [p : {"idle", "checking", "waiting", "ready", "timeout", "permissionDenied"},
              env : Tenants, template : Templates \cup {None}]

TabTyped ==
    /\ place \in {"connect", "login", "console", "site", "out"}
    /\ auth \in BOOLEAN /\ saved \in BOOLEAN /\ known \in BOOLEAN
    /\ abandoned \subseteq Calls
    /\ cookie \in Tenants /\ tenant \in Tenants
    /\ cached \subseteq Tenants /\ failed \subseteq Tenants
    /\ away \in Nat
ChosenTyped ==
    /\ selected \in Tenants /\ template \in Templates \cup {None}
    /\ elsewhere \in BOOLEAN
WaitTyped ==
    /\ checks \in [Slots -> CheckType]
    /\ timers \in Nat /\ polls \in Nat /\ clicks \in Nat
    /\ phase \in PhaseType
SentTyped ==
    /\ leaving \in BOOLEAN /\ clicked \in BOOLEAN
    /\ startedFor \in Tenants \X (Templates \cup {None})
    /\ sending \in Calls \cup {None} /\ cancelling \in Calls \cup {None}
    /\ code \in Calls \cup {None}
    /\ visits \in Seq(Calls \cup {"denied"})
    /\ consent \in [Calls -> Tenants]

LEMMA PageTypeParts ==
    /\ PageTypeOK <=> TabTyped /\ ChosenTyped /\ WaitTyped /\ SentTyped
    /\ PageTypeOK' <=> (TabTyped /\ ChosenTyped /\ WaitTyped /\ SentTyped)'
  BY DEF PageTypeOK, TabTyped, ChosenTyped, WaitTyped, SentTyped, CheckType, PhaseType

LEMMA AnyCall == \A c \in NextCall : c \in Calls /\ pc[c] = "idle"
  BY DEF NextCall, AnyOf

LEMMA SupersededType ==
    ASSUME checks \in [Slots -> CheckType]
    PROVE  Superseded \in [Slots -> CheckType]
<1>1. \A r \in CheckType : [r EXCEPT !.live = FALSE] \in CheckType
  BY DEF CheckType
<1> QED
  BY <1>1 DEF Superseded

LEMMA StartCheckType ==
    ASSUME ChosenTyped, NEW from \in [Slots -> CheckType], StartCheck(from)
    PROVE  checks' \in [Slots -> CheckType] /\ phase' \in PhaseType
<1>1. PICK s \in Slots : checks' = [from EXCEPT ![s] = [step |-> "impersonate", env |-> selected,
                                       template |-> template, under |-> None, live |-> TRUE]]
  BY DEF StartCheck, AnyOf
<1>2. [step |-> "impersonate", env |-> selected, template |-> template, under |-> None,
       live |-> TRUE] \in CheckType
  BY DEF ChosenTyped, CheckType, Tenants
<1>3. phase' \in PhaseType
  BY DEF StartCheck, Phase, Idle, PhaseType, Tenants
<1> QED
  BY <1>1, <1>2, <1>3

-----------------------------------------------------------------------------
(* Types of the page.                                                      *)

LEMMA TabStep ==
    ASSUME PageTypeOK, Next, ServerTypeOK
    PROVE  TabTyped'
<1> USE DEF TabTyped, tabVars, tokenVars, viewVars, Tenants
<1>0. TabTyped /\ WaitTyped
  BY PageTypeParts
<1>7. Mounted => abandoned' \subseteq Calls
  BY <1>0, PageTypeParts DEF Mounted, SentTyped
<1>1. CASE RequestCreated \/ SessionEnds \/ ToLogin \/ LogIn \/ PendingRedirect
  <2>1. CASE RequestCreated
    BY <1>0, <2>1 DEF RequestCreated
  <2>2. CASE SessionEnds
    <3>1. /\ UNCHANGED <<place, saved, known, abandoned, tokenVars, viewVars>>
          /\ auth' = FALSE /\ away' = away + 1
      BY <2>2 DEF SessionEnds
    <3>2. away' \in Nat
      BY <1>0, <3>1
    <3>3. auth' \in BOOLEAN
      BY <3>1
    <3>4. UNCHANGED <<place, saved, known, abandoned, cookie, tenant, cached, failed>>
      BY <3>1
    <3> QED
      BY <1>0, <3>2, <3>3, <3>4
  <2>3. CASE ToLogin
    BY <1>0, <1>7, <2>3 DEF ToLogin, Mounted
  <2>4. CASE LogIn
    BY <1>0, <2>4 DEF LogIn
  <2>5. CASE PendingRedirect
    BY <1>0, <1>7, <2>5 DEF PendingRedirect, Mounted
  <2> QED
    BY <1>1, <2>1, <2>2, <2>3, <2>4, <2>5
<1>2. ASSUME NEW u \in Users, FetchRequest(u) PROVE TabTyped'
  BY <1>0, <1>2 DEF FetchRequest
<1>3. CASE SelectProject \/ ProjectCreated \/ (\E e \in Envs : SelectEnvironment(e))
             \/ \E t \in Templates : SelectTemplate(t)
  BY <1>0, <1>3 DEF SelectProject, ProjectCreated, SelectEnvironment, SelectTemplate, Choose
<1>4. ASSUME NEW s \in Slots, ImpersonationAnswered(s) \/ ReadinessAnswered(s) PROVE TabTyped'
  <2>1. checks[s].env \in Envs \cup {None}
    BY <1>0 DEF WaitTyped, CheckType
  <2> QED
    BY <1>0, <1>4, <2>1 DEF ImpersonationAnswered, ReadinessAnswered
<1>5. CASE TimerFires \/ Retry \/ ClickConnect \/ AutoApprove \/ ClickCancel \/ GoToSite
             \/ SiteRedeems \/ ServerStep
  <2>1. UNCHANGED <<tabVars, tokenVars, viewVars, away>>
    BY <1>5 DEF TimerFires, Retry, ClickConnect, AutoApprove, ClickCancel, GoToSite, SiteRedeems,
       ServerStep, pageVars
  <2> QED
    BY <1>0, <2>1
<1>6. CASE ApprovalAnswered \/ CancelAnswered \/ (\E c \in Calls : AbandonedAnswered(c))
             \/ Unload \/ OtherTab
  <2>1. CASE ApprovalAnswered
    BY <1>0, <2>1 DEF ApprovalAnswered
  <2>2. CASE CancelAnswered
    BY <1>0, <2>2 DEF CancelAnswered, CancelHeard
  <2>3. CASE Unload
    BY <1>0, <2>3 DEF Unload
  <2>4. CASE OtherTab
    BY <1>0, <2>4 DEF OtherTab
  <2>5. ASSUME NEW c \in Calls, AbandonedAnswered(c) PROVE TabTyped'
    BY <1>0, <2>5 DEF AbandonedAnswered, CancelHeard
  <2> QED
    BY <1>6, <2>1, <2>2, <2>3, <2>4, <2>5
<1> QED
  BY <1>1, <1>2, <1>3, <1>4, <1>5, <1>6 DEF Next

LEMMA ChosenStep ==
    ASSUME PageTypeOK, ChosenWhole, Next
    PROVE  ChosenTyped' /\ ChosenWhole'
<1> USE DEF ChosenTyped, ChosenWhole, chosenVars, Tenants
<1>0. ChosenTyped
  BY PageTypeParts
<1>1. CASE Mounted
  BY <1>1 DEF Mounted
<1>2. CASE UNCHANGED chosenVars
  BY <1>0, <1>2
<1>3. CASE SelectProject \/ ProjectCreated \/ (\E e \in Envs : SelectEnvironment(e))
             \/ \E t \in Templates : SelectTemplate(t)
  BY <1>0, <1>3 DEF SelectProject, ProjectCreated, SelectEnvironment, SelectTemplate
<1>4. \/ Mounted \/ UNCHANGED chosenVars
      \/ SelectProject \/ ProjectCreated \/ (\E e \in Envs : SelectEnvironment(e))
      \/ \E t \in Templates : SelectTemplate(t)
  BY DEF Next, RequestCreated, SessionEnds, ToLogin, LogIn, PendingRedirect, FetchRequest,
     ImpersonationAnswered, ReadinessAnswered, TimerFires, Retry, ClickConnect, AutoApprove,
     ApprovalAnswered, ClickCancel, CancelAnswered, AbandonedAnswered, GoToSite, Unload,
     SiteRedeems, OtherTab, ServerStep, pageVars
<1> QED
  BY <1>1, <1>2, <1>3, <1>4

LEMMA WaitTypeStep ==
    ASSUME PageTypeOK, Next
    PROVE  WaitTyped'
<1> USE DEF WaitTyped, waitVars
<1>0. WaitTyped /\ ChosenTyped /\ Superseded \in [Slots -> CheckType] /\ Idle \in PhaseType
  BY PageTypeParts, SupersededType DEF Idle, PhaseType, Tenants
<1>1. OneTimerLess \in Nat /\ 0 \in Nat
  BY <1>0 DEF OneTimerLess
<1>2. \A p \in {"checking", "waiting", "timeout", "permissionDenied"} : Phase(p) \in PhaseType
  BY DEF Phase, Idle, PhaseType, Tenants
<1>3. CASE ResetWait \/ Mounted
  <2>1. clicks' \in Nat => WaitTyped'
    BY <1>0, <1>1, <1>3 DEF ResetWait, Mounted
  <2>2. UNCHANGED clicks \/ clicks' = clicks + 1
    BY DEF Next, RequestCreated, SessionEnds, ToLogin, LogIn, PendingRedirect, FetchRequest,
       SelectProject, ProjectCreated, SelectEnvironment, SelectTemplate, Choose,
       ImpersonationAnswered, ReadinessAnswered, TimerFires, Retry, ClickConnect, AutoApprove,
       ApprovalAnswered, ClickCancel, CancelAnswered, AbandonedAnswered, GoToSite, Unload,
       SiteRedeems, OtherTab, ServerStep, pageVars
  <2> QED
    BY <1>0, <2>1, <2>2
<1>4. CASE UNCHANGED waitVars /\ (UNCHANGED clicks \/ clicks' = clicks + 1)
  BY <1>0, <1>4
<1>5. ASSUME NEW s \in Slots, ImpersonationAnswered(s) PROVE WaitTyped'
  <2>1. checks[s] \in CheckType /\ NoCheck \in CheckType
    BY <1>0 DEF CheckType, NoCheck, Tenants
  <2>2. cookie' \in Tenants
    BY <1>5, <2>1, PageTypeParts DEF ImpersonationAnswered, tokenVars, TabTyped, CheckType
  <2>3. [checks[s] EXCEPT !.step = "readiness", !.under = cookie'] \in CheckType
    BY <2>1, <2>2 DEF CheckType
  <2> QED
    BY <1>0, <1>5, <2>1, <2>3 DEF ImpersonationAnswered
<1>6. ASSUME NEW s \in Slots, ReadinessAnswered(s) PROVE WaitTyped'
  <2>1. checks[s] \in CheckType /\ NoCheck \in CheckType
    BY <1>0 DEF CheckType, NoCheck, Tenants
  <2>2. Ready(checks[s].env, checks[s].template) \in PhaseType
    BY <2>1 DEF CheckType, PhaseType, Ready
  <2>3. checks' \in [Slots -> CheckType] /\ UNCHANGED clicks
    BY <1>0, <1>6, <2>1 DEF ReadinessAnswered
  <2>4. phase' \in PhaseType /\ timers' \in Nat /\ polls' \in Nat
    BY <1>0, <1>2, <1>6, <2>2 DEF ReadinessAnswered
  <2> QED
    BY <1>0, <2>3, <2>4
<1>7. CASE TimerFires \/ Retry
  <2>1. checks' \in [Slots -> CheckType] /\ phase' \in PhaseType
    BY <1>0, <1>7, StartCheckType DEF TimerFires, Retry
  <2> QED
    BY <1>0, <1>7, <2>1 DEF TimerFires, Retry
<1>8. CASE ClickConnect
  <2>1. CASE UNCHANGED waitVars
    BY <1>0, <1>8, <2>1 DEF ClickConnect
  <2>2. CASE StartCheck(Superseded) /\ timers' = OneTimerLess /\ polls' = 0
    <3>1. checks' \in [Slots -> CheckType] /\ phase' \in PhaseType
      BY <1>0, <2>2, StartCheckType
    <3> QED
      BY <1>0, <1>1, <1>8, <2>2, <3>1 DEF ClickConnect
  <2> QED
    BY <1>8, <2>1, <2>2 DEF ClickConnect
<1>9. \/ ResetWait \/ Mounted
      \/ UNCHANGED waitVars /\ UNCHANGED clicks
      \/ \E s \in Slots : ImpersonationAnswered(s) \/ ReadinessAnswered(s)
      \/ TimerFires \/ Retry \/ ClickConnect
  BY DEF Next, RequestCreated, SessionEnds, ToLogin, LogIn, PendingRedirect, FetchRequest,
     SelectProject, ProjectCreated, SelectEnvironment, SelectTemplate, Choose, AutoApprove,
     ApprovalAnswered, ClickCancel, CancelAnswered, AbandonedAnswered, GoToSite, Unload,
     SiteRedeems, OtherTab, ServerStep, pageVars
<1> QED
  BY <1>3, <1>4, <1>5, <1>6, <1>7, <1>8, <1>9

LEMMA SentTypeStep ==
    ASSUME PageTypeOK, Next
    PROVE  SentTyped'
<1> USE DEF SentTyped, sendVars, pastVars
<1>0. SentTyped /\ ChosenTyped
  BY PageTypeParts
<1>1. Selection \in Tenants \X (Templates \cup {None}) /\ NoSelection \in Tenants \X (Templates \cup {None})
  BY <1>0 DEF ChosenTyped, Selection, NoSelection, Tenants
<1>2. ASSUME SendApproval
      PROVE  sending' \in Calls /\ consent' \in [Calls -> Tenants] /\ startedFor' = Selection
  <2>1. PICK c \in NextCall : sending' = c /\ consent' = [consent EXCEPT ![c] = selected]
                              /\ startedFor' = Selection
    BY <1>2 DEF SendApproval
  <2> QED
    BY <1>0, <2>1, AnyCall DEF ChosenTyped
<1>3. CASE UNCHANGED <<sendVars, pastVars>>
  BY <1>0, <1>3
<1>4. CASE ToLogin \/ PendingRedirect
  BY <1>0, <1>1, <1>4 DEF ToLogin, PendingRedirect, Mounted
<1>5. CASE SelectProject \/ (\E e \in Envs : SelectEnvironment(e))
             \/ \E t \in Templates : SelectTemplate(t)
  <2>1. Choose
    BY <1>5 DEF SelectProject, SelectEnvironment, SelectTemplate
  <2> QED
    BY <1>0, <1>1, <2>1 DEF Choose
<1>6. CASE ClickConnect \/ AutoApprove
  BY <1>0, <1>1, <1>2, <1>6 DEF ClickConnect, AutoApprove
<1>7. CASE ApprovalAnswered \/ ClickCancel
  BY <1>0, <1>7, AnyCall DEF ApprovalAnswered, ClickCancel
<1>8. CASE CancelAnswered \/ (\E c \in Calls : AbandonedAnswered(c)) \/ GoToSite
  <2>1. visits' = visits \/ visits' = Append(visits, "denied")
        \/ (code # None /\ visits' = Append(visits, code))
    BY <1>8 DEF CancelAnswered, AbandonedAnswered, CancelHeard, GoToSite
  <2>2. visits' \in Seq(Calls \cup {"denied"})
    BY <1>0, <2>1
  <2>3. /\ leaving' \in BOOLEAN /\ cancelling' \in Calls \cup {None}
        /\ UNCHANGED <<clicked, startedFor, sending, code, consent>>
    BY <1>0, <1>8 DEF CancelAnswered, AbandonedAnswered, GoToSite
  <2> QED
    BY <1>0, <2>2, <2>3
<1>9. \/ UNCHANGED <<sendVars, pastVars>>
      \/ ToLogin \/ PendingRedirect
      \/ SelectProject \/ (\E e \in Envs : SelectEnvironment(e))
      \/ (\E t \in Templates : SelectTemplate(t))
      \/ ClickConnect \/ AutoApprove \/ ApprovalAnswered \/ ClickCancel \/ CancelAnswered
      \/ (\E c \in Calls : AbandonedAnswered(c)) \/ GoToSite
  BY DEF Next, RequestCreated, SessionEnds, LogIn, FetchRequest, ProjectCreated,
     ImpersonationAnswered, ReadinessAnswered, TimerFires, Retry, Unload, SiteRedeems, OtherTab,
     ServerStep, pageVars
<1> QED
  BY <1>3, <1>4, <1>5, <1>6, <1>7, <1>8, <1>9

LEMMA PageTypeStep ==
    ASSUME ServerTypeOK, PageTypeOK, ChosenWhole, [Next]_vars
    PROVE  PageTypeOK' /\ ChosenWhole'
<1>1. CASE Next
  BY <1>1, TabStep, ChosenStep, WaitTypeStep, SentTypeStep, PageTypeParts
<1>2. CASE UNCHANGED vars
  BY <1>2 DEF vars, pageVars, tabVars, tokenVars, viewVars, chosenVars, waitVars, sendVars, pastVars,
     PageTypeOK, ChosenWhole
<1> QED
  BY <1>1, <1>2

-----------------------------------------------------------------------------
(* The page is a client of the server.                                     *)

LEMMA PageServes ==
    ASSUME PageTypeOK, ChosenWhole, [Next]_vars
    PROVE  [ServerNext]_serverVars
<1>1. ASSUME NEW u \in Users, FetchRequest(u) PROVE [ServerNext]_serverVars
  <2>1. CASE Claimable(u)
    <3>1. GetRequest(u)
      BY <1>1, <2>1 DEF FetchRequest, GetRequest
    <3> QED
      BY <3>1 DEF ServerNext
  <2>2. CASE ~Claimable(u)
    BY <1>1, <2>2 DEF FetchRequest, serverVars, requestVars
  <2> QED
    BY <2>1, <2>2
<1>2. ASSUME IsReady, SendApproval PROVE ServerNext
  <2>1. PICK c \in NextCall, u \in Users : ApproveArrives(c, u, cookie, template)
    BY <1>2 DEF SendApproval
  <2>2. cookie \in Envs \cup {None} /\ template \in Templates
    BY <1>2, PageTypeParts DEF IsReady, ChosenWhole, TabTyped, Tenants
  <2> QED
    BY <2>1, <2>2, AnyCall DEF ServerNext, Arrives
<1>3. CASE ClickConnect \/ AutoApprove
  BY <1>2, <1>3 DEF ClickConnect, AutoApprove
<1>4. CASE ClickCancel
  BY <1>4, AnyCall DEF ClickCancel, ServerNext, Arrives
<1>5. CASE SiteRedeems
  <2>1. PICK i \in DOMAIN visits, c \in NextCall : /\ visits[i] \in Calls
                                                   /\ ExchangeArrives(c, visits[i], TRUE)
    BY <1>5 DEF SiteRedeems
  <2> QED
    BY <2>1, AnyCall DEF ServerNext, Arrives
<1>6. CASE ServerStep
  BY <1>6 DEF ServerStep, ServerNext, Time
<1>7. \/ UNCHANGED serverVars
      \/ \E u \in Users : FetchRequest(u)
      \/ ClickConnect \/ AutoApprove \/ ClickCancel \/ SiteRedeems \/ ServerStep
  BY DEF vars, Next, RequestCreated, SessionEnds, ToLogin, LogIn, PendingRedirect, SelectProject,
     ProjectCreated, SelectEnvironment, SelectTemplate, Choose, ImpersonationAnswered,
     ReadinessAnswered, TimerFires, Retry, ApprovalAnswered, CancelAnswered, AbandonedAnswered,
     GoToSite, Unload, OtherTab
<1> QED
  BY <1>1, <1>3, <1>4, <1>5, <1>6, <1>7

-----------------------------------------------------------------------------
(* The readiness wait.  What a step of the page does to it.                *)

Sent == sending # None \/ code # None
Chosen == <<selected, template, startedFor, clicked, sending, code>>

\* Nothing, but that an answer may arrive.
StaysSo ==
    /\ LiveChecks' = LiveChecks
    /\ UNCHANGED <<timers, phase, selected, template, startedFor, clicked>>
    /\ Sent' => Sent

\* An approval is sent.
Approves ==
    /\ LiveChecks' = LiveChecks
    /\ UNCHANGED <<timers, phase, selected, template>>
    /\ IsReady
    /\ sending = None /\ code' = code
    /\ startedFor' = Selection
    /\ startedFor # Selection \/ (code = None /\ clicks' = clicks + 1)

\* Another choice, or the page is mounted again.
Clears ==
    /\ LiveChecks' = {}
    /\ timers' \in {0, OneTimerLess}
    /\ phase'.p = "idle"

\* A live check is answered.
Concludes ==
    /\ \E s \in LiveChecks : LiveChecks' = LiveChecks \ {s}
    /\ \/ timers' = timers /\ phase'.p \in {"permissionDenied", "ready", "timeout"}
       \/ timers' = timers + 1 /\ phase'.p = "waiting"
    /\ UNCHANGED Chosen

\* The timer fires, or a wait that timed out is retried.
Polls ==
    /\ \/ timers > 0 /\ timers' = timers - 1
       \/ phase.p = "timeout" /\ timers' = timers
    /\ \E s \in Slots \ LiveChecks : LiveChecks' = LiveChecks \cup {s}
    /\ phase'.p = "checking"
    /\ UNCHANGED Chosen

\* A click begins the wait.
Begins ==
    /\ ~Waiting
    /\ timers' = OneTimerLess
    /\ \E s \in Slots : LiveChecks' = {s}
    /\ phase'.p = "checking"
    /\ clicked' = TRUE
    /\ ~Sent'

LEMMA NoneLive ==
    ASSUME checks \in [Slots -> CheckType], checks' = Superseded
    PROVE  LiveChecks' = {}
<1>1. \A s \in Slots : checks'[s].live = FALSE
  BY DEF Superseded, CheckType
<1> QED
  BY <1>1 DEF LiveChecks

LEMMA OneMoreLive ==
    ASSUME NEW from \in [Slots -> CheckType], StartCheck(from)
    PROVE  \E s \in Slots :
              /\ from[s].step = "none"
              /\ LiveChecks' = {r \in Slots : from[r].step # "none" /\ from[r].live} \cup {s}
<1>1. PICK s \in Slots :
         /\ from[s].step = "none"
         /\ checks' = [from EXCEPT ![s] = [step |-> "impersonate", env |-> selected,
                                           template |-> template, under |-> None, live |-> TRUE]]
  BY DEF StartCheck, AnyOf
<1>2. \A r \in Slots : r # s => checks'[r] = from[r]
  BY <1>1
<1>3. checks'[s].step = "impersonate" /\ checks'[s].live
  BY <1>1
<1> QED
  BY <1>1, <1>2, <1>3 DEF LiveChecks

LEMMA PageEffect ==
    ASSUME PageTypeOK, [Next]_vars
    PROVE  StaysSo \/ Approves \/ Clears \/ Concludes \/ Polls \/ Begins
<1> USE DEF waitVars, chosenVars, sendVars, pastVars
<1>0. /\ checks \in [Slots -> CheckType] /\ clicked \in BOOLEAN
      /\ Superseded \in [Slots -> CheckType]
  BY PageTypeParts, SupersededType DEF WaitTyped, SentTyped
<1>1. CASE UNCHANGED <<checks, timers, phase, selected, template, startedFor, clicked>>
           /\ (Sent' => Sent)
  BY <1>1 DEF StaysSo, LiveChecks
<1>2. CASE ResetWait \/ Mounted
  <2>1. checks' = Superseded /\ timers' \in {0, OneTimerLess} /\ phase' = Idle
    BY <1>2 DEF ResetWait, Mounted
  <2> QED
    BY <1>0, <2>1, NoneLive DEF Clears, Idle
<1>3. ASSUME NEW s \in Slots, ImpersonationAnswered(s) PROVE StaysSo
  <2>1. \A r \in Slots : r # s => checks'[r] = checks[r]
    BY <1>0, <1>3 DEF ImpersonationAnswered
  <2>2. /\ checks[s].live => checks'[s].step = "readiness" /\ checks'[s].live
        /\ ~checks[s].live => checks'[s].step = "none"
        /\ checks[s].step # "none"
    <3>1. CASE checks[s].live
      <4>1. checks'[s] = [checks[s] EXCEPT !.step = "readiness", !.under = cookie']
        BY <1>0, <1>3, <3>1 DEF ImpersonationAnswered
      <4>2. checks[s] \in CheckType
        BY <1>0
      <4> QED
        BY <1>3, <3>1, <4>1, <4>2 DEF ImpersonationAnswered, CheckType
    <3>2. CASE ~checks[s].live
      <4>1. checks'[s] = NoCheck
        BY <1>0, <1>3, <3>2 DEF ImpersonationAnswered
      <4> QED
        BY <1>3, <3>2, <4>1 DEF ImpersonationAnswered, NoCheck
    <3> QED
      BY <3>1, <3>2
  <2>3. LiveChecks' = LiveChecks
    BY <2>1, <2>2 DEF LiveChecks
  <2> QED
    BY <1>3, <2>3 DEF ImpersonationAnswered, StaysSo, Sent
<1>4. ASSUME NEW s \in Slots, ReadinessAnswered(s) PROVE StaysSo \/ Concludes
  <2>1. \A r \in Slots : r # s => checks'[r] = checks[r]
    BY <1>0, <1>4 DEF ReadinessAnswered
  <2>2. checks'[s].step = "none" /\ checks[s].step # "none"
    BY <1>0, <1>4 DEF ReadinessAnswered, NoCheck
  <2>3. CASE ~checks[s].live
    <3>1. LiveChecks' = LiveChecks
      BY <2>1, <2>2, <2>3 DEF LiveChecks
    <3> QED
      BY <1>4, <2>3, <3>1 DEF ReadinessAnswered, StaysSo, Sent
  <2>4. CASE checks[s].live
    <3>1. s \in LiveChecks /\ LiveChecks' = LiveChecks \ {s}
      BY <2>1, <2>2, <2>4 DEF LiveChecks
    <3>2. \/ timers' = timers /\ phase'.p \in {"permissionDenied", "ready", "timeout"}
          \/ timers' = timers + 1 /\ phase'.p = "waiting"
      BY <1>4, <2>4 DEF ReadinessAnswered, Phase, Ready, Idle
    <3>3. UNCHANGED Chosen
      BY <1>4 DEF ReadinessAnswered, Chosen
    <3> QED
      BY <3>1, <3>2, <3>3 DEF Concludes
  <2> QED
    BY <2>3, <2>4
<1>5. CASE TimerFires \/ Retry
  <2>1. StartCheck(checks)
    BY <1>5 DEF TimerFires, Retry
  <2>2. \E s \in Slots \ LiveChecks : LiveChecks' = LiveChecks \cup {s}
    BY <1>0, <2>1, OneMoreLive DEF LiveChecks
  <2>3. phase'.p = "checking"
    BY <2>1 DEF StartCheck, Phase, Idle
  <2>4. UNCHANGED Chosen
    BY <1>5 DEF TimerFires, Retry, Chosen
  <2> QED
    BY <1>5, <2>2, <2>3, <2>4 DEF TimerFires, Retry, Polls
<1>6. CASE AutoApprove
  BY <1>6 DEF AutoApprove, SendApproval, Approves, LiveChecks
<1>7. CASE ClickConnect
  <2>1. CASE IsReady /\ SendApproval /\ UNCHANGED waitVars
    BY <1>7, <2>1 DEF ClickConnect, SendApproval, Approves, FormShown, Working, LiveChecks
  <2>2. CASE /\ StartCheck(Superseded) /\ timers' = OneTimerLess
             /\ clicked' = TRUE /\ UNCHANGED sending
    <3>1. \A r \in Slots : Superseded[r].live = FALSE
      BY <1>0 DEF Superseded, CheckType
    <3>2. \E s \in Slots : LiveChecks' = {s}
      BY <1>0, <2>2, <3>1, OneMoreLive
    <3>3. phase'.p = "checking"
      BY <2>2 DEF StartCheck, Phase, Idle
    <3>4. ~Waiting /\ ~Sent'
      BY <1>7, <2>2 DEF ClickConnect, FormShown, Working, Sent
    <3> QED
      BY <2>2, <3>2, <3>3, <3>4 DEF Begins
  <2> QED
    BY <1>7, <2>1, <2>2 DEF ClickConnect
<1>8. CASE ToLogin \/ PendingRedirect
  BY <1>2, <1>8 DEF ToLogin, PendingRedirect
<1>9. CASE SelectProject \/ (\E e \in Envs : SelectEnvironment(e))
             \/ \E t \in Templates : SelectTemplate(t)
  BY <1>2, <1>9 DEF SelectProject, SelectEnvironment, SelectTemplate, Choose
<1>10. CASE ApprovalAnswered
  BY <1>1, <1>10 DEF ApprovalAnswered, Sent
<1>11. CASE \/ UNCHANGED vars \/ RequestCreated \/ SessionEnds \/ LogIn
            \/ (\E u \in Users : FetchRequest(u)) \/ ProjectCreated
            \/ ClickCancel \/ CancelAnswered \/ (\E c \in Calls : AbandonedAnswered(c))
            \/ GoToSite \/ Unload \/ SiteRedeems \/ OtherTab
            \/ ServerStep
  <2>1. UNCHANGED <<checks, timers, phase, selected, template, startedFor, clicked, sending, code>>
    BY <1>11 DEF vars, pageVars, RequestCreated, SessionEnds, LogIn, FetchRequest, ProjectCreated,
       ClickCancel, CancelAnswered, AbandonedAnswered, GoToSite, Unload, SiteRedeems, OtherTab,
       ServerStep
  <2> QED
    BY <1>1, <2>1 DEF Sent
<1> QED
  BY <1>2, <1>3, <1>4, <1>5, <1>6, <1>7, <1>8, <1>9, <1>10, <1>11 DEF Next

\* One poll: a step that ends it begins no other, and one that begins it found none.
LEMMA PollStep ==
    ASSUME PageTypeOK, PollInv,
           StaysSo \/ Approves \/ Clears \/ Concludes \/ Polls \/ Begins
    PROVE  PollInv'
<1>0. timers \in Nat
  BY PageTypeParts DEF WaitTyped
<1>1. IsFiniteSet(LiveChecks) /\ Cardinality(LiveChecks) \in Nat
      /\ Cardinality(LiveChecks) + timers = IF Waiting THEN 1 ELSE 0
  BY FS_CardinalityType DEF PollInv, OnePoll
<1>2. CASE StaysSo \/ Approves
  BY <1>1, <1>2 DEF StaysSo, Approves, PollInv, OnePoll, Waiting
<1>3. CASE Clears
  <2>1. timers' = 0
    BY <1>0, <1>1, <1>3 DEF Clears, OneTimerLess
  <2>2. ~Waiting'
    BY <1>3 DEF Clears, Waiting
  <2> QED
    BY <1>3, <2>1, <2>2, FS_EmptySet DEF Clears, PollInv, OnePoll
<1>4. CASE Concludes
  <2>1. PICK s \in LiveChecks : LiveChecks' = LiveChecks \ {s}
    BY <1>4 DEF Concludes
  <2>2. IsFiniteSet(LiveChecks') /\ Cardinality(LiveChecks') = Cardinality(LiveChecks) - 1
    BY <1>1, <2>1, FS_RemoveElement
  <2>3. Cardinality(LiveChecks') \in Nat
    BY <2>2, FS_CardinalityType
  <2>4. timers = 0 /\ Cardinality(LiveChecks') = 0
    BY <1>0, <1>1, <2>2, <2>3
  <2>5. IF Waiting' THEN timers' = 1 ELSE timers' = 0
    BY <1>4, <2>4 DEF Concludes, Waiting
  <2> QED
    BY <2>2, <2>4, <2>5 DEF PollInv, OnePoll
<1>5. CASE Polls
  <2>1. PICK s \in Slots \ LiveChecks : LiveChecks' = LiveChecks \cup {s}
    BY <1>5 DEF Polls
  <2>2. IsFiniteSet(LiveChecks') /\ Cardinality(LiveChecks') = Cardinality(LiveChecks) + 1
    BY <1>1, <2>1, FS_AddElement
  <2>3. Cardinality(LiveChecks) = 0 /\ timers' = 0
    BY <1>0, <1>1, <1>5 DEF Polls, Waiting
  <2>4. Waiting'
    BY <1>5 DEF Polls, Waiting
  <2> QED
    BY <2>2, <2>3, <2>4 DEF PollInv, OnePoll
<1>6. CASE Begins
  <2>1. timers' = 0
    BY <1>0, <1>1, <1>6 DEF Begins, OneTimerLess
  <2>2. IsFiniteSet(LiveChecks') /\ Cardinality(LiveChecks') = 1
    BY <1>6, FS_Singleton DEF Begins
  <2>3. Waiting'
    BY <1>6 DEF Begins, Waiting
  <2> QED
    BY <2>1, <2>2, <2>3 DEF PollInv, OnePoll
<1> QED
  BY <1>2, <1>3, <1>4, <1>5, <1>6

\* A check that concludes and a timer that fires belong to a wait.
LEMMA OnlyWhileWaiting ==
    ASSUME PageTypeOK, PollInv, Concludes \/ Polls
    PROVE  Waiting \/ phase.p = "timeout"
<1>0. timers \in Nat
  BY PageTypeParts DEF WaitTyped
<1>1. IsFiniteSet(LiveChecks) /\ Cardinality(LiveChecks) \in Nat
      /\ Cardinality(LiveChecks) + timers = IF Waiting THEN 1 ELSE 0
  BY FS_CardinalityType DEF PollInv, OnePoll
<1>2. CASE Concludes
  <2>1. LiveChecks # {}
    BY <1>2 DEF Concludes
  <2>2. Cardinality(LiveChecks) # 0
    BY <1>1, <2>1, FS_EmptySet
  <2> QED
    BY <1>0, <1>1, <2>2
<1>3. CASE Polls
  BY <1>0, <1>1, <1>3 DEF Polls
<1> QED
  BY <1>2, <1>3

LEMMA AskedStep ==
    ASSUME PageTypeOK, PollInv, Asked, SentOnce,
           StaysSo \/ Approves \/ Clears \/ Concludes \/ Polls \/ Begins
    PROVE  Asked' /\ SentOnce'
<1>1. CASE StaysSo
  BY <1>1 DEF StaysSo, Asked, SentOnce, Sent, IsReady, Selection
<1>2. CASE Approves
  <2>1. phase.p = "ready"
    BY <1>2 DEF Approves, IsReady, Ready
  <2>2. UNCHANGED <<phase, Selection>> /\ startedFor' = Selection'
    BY <1>2 DEF Approves, Selection
  <2> QED
    BY <2>1, <2>2 DEF Asked, SentOnce
<1>3. CASE Clears
  <2>1. phase'.p = "idle" /\ ~IsReady'
    BY <1>3 DEF Clears, IsReady, Ready
  <2> QED
    BY <2>1 DEF Asked, SentOnce
<1>4. CASE Concludes \/ Polls
  <2>1. phase.p \in {"checking", "waiting", "timeout"}
    BY <1>4, OnlyWhileWaiting DEF Waiting
  <2>2. clicked /\ ~Sent
    BY <2>1 DEF Asked, SentOnce, Sent
  <2>3. clicked' /\ ~Sent'
    BY <1>4, <2>2 DEF Concludes, Polls, Chosen, Sent
  <2> QED
    BY <2>3 DEF Asked, SentOnce, Sent
<1>5. CASE Begins
  BY <1>5 DEF Begins, Asked, SentOnce, Sent
<1> QED
  BY <1>1, <1>2, <1>3, <1>4, <1>5

-----------------------------------------------------------------------------
(* Calls and callbacks.                                                    *)

\* A call that was made stays made, and an answer stays the answer.
Kept ==
    /\ \A c \in Calls : pc[c] # "idle" => pc'[c] # "idle"
    /\ \A c \in Calls : answer[c] # "none" => answer'[c] = answer[c]

LEMMA MadeStaysMade ==
    ASSUME ServerTypeOK, [ServerNext]_serverVars, NEW c \in Calls, pc[c] # "idle"
    PROVE  pc'[c] # "idle"
<1> USE DEF ServerTypeOK, Go, End
<1>1. ASSUME NEW u \in Users, GetRequest(u) PROVE pc'[c] # "idle"
  BY <1>1 DEF GetRequest
<1>2. ASSUME NEW d \in Calls, Arrives(d) PROVE pc'[c] # "idle"
  BY <1>2 DEF Arrives, CancelArrives, ApproveArrives, ExchangeArrives
<1>3. ASSUME NEW d \in Calls, ApproveStep(d) PROVE pc'[c] # "idle"
  <2>1. CASE ApproveReads(d) \/ Reserve(d) \/ Reread(d) \/ Rotate(d)
    BY <2>1 DEF ApproveReads, Reserve, Reread, Rotate
  <2>2. CASE Check(d) \/ NameChecked(d) \/ FindCredential(d) \/ Credential(d) \/ Insert(d)
    BY <2>2 DEF Check, NameChecked, FindCredential, Credential, Insert
  <2>3. CASE Complete(d) \/ Disconnect(d) \/ Revoke(d) \/ Reset(d) \/ Caught(d) \/ Release(d)
    BY <2>3 DEF Complete, Disconnect, Revoke, Reset, Caught, Release
  <2> QED
    BY <1>3, <2>1, <2>2, <2>3 DEF ApproveStep
<1>4. ASSUME NEW d \in Calls, CallStep(d) PROVE pc'[c] # "idle"
  <2>1. CASE CancelReads(d) \/ CancelClaims(d) \/ CancelTransitions(d)
    BY <2>1 DEF CancelReads, CancelClaims, CancelTransitions
  <2>2. CASE Match(d) \/ Burn(d) \/ Undeliver(d) \/ ThrownAway(d)
    BY <2>2 DEF Match, Burn, Undeliver, ThrownAway
  <2> QED
    BY <1>3, <1>4, <2>1, <2>2 DEF CallStep
<1>5. ASSUME NEW d \in Calls, Leave(d) \/ Stop(d) PROVE pc'[c] # "idle"
  BY <1>5 DEF Leave, Stop
<1>6. CASE Time
  BY <1>6 DEF Time, ReservationAges, Expire, Remove
<1>7. CASE UNCHANGED serverVars
  BY <1>7 DEF serverVars
<1> QED
  BY <1>1, <1>2, <1>4, <1>5, <1>6, <1>7 DEF ServerNext

LEMMA KeptStep ==
    ASSUME ServerTypeOK, Verdict, Answered, [ServerNext]_serverVars
    PROVE  Kept
<1>1. ASSUME NEW c \in Calls, answer[c] # "none" PROVE answer'[c] = answer[c]
  BY <1>1 DEF Verdict, Answered, Told
<1> QED
  BY <1>1, MadeStaysMade DEF Kept

\* What a step may do to the calls and callbacks the page knows of.
Waits ==
    /\ UNCHANGED <<sending, code, leaving, visits>>
    /\ abandoned' \subseteq abandoned
    /\ \/ cancelling' \in {cancelling, None}
       \/ cancelling' \in Calls /\ pc[cancelling'] = "idle" /\ pc'[cancelling'] # "idle"

Forgets ==
    /\ sending' = None /\ cancelling' = None /\ code' = None /\ leaving' = FALSE
    /\ abandoned' = abandoned \cup ({sending, cancelling} \ {None})
    /\ visits' = visits

Sends ==
    /\ UNCHANGED <<cancelling, abandoned, code, leaving, visits>>
    /\ code = None
    /\ sending' \in Calls /\ pc[sending'] = "idle" /\ pc'[sending'] # "idle"

Hears ==
    /\ UNCHANGED <<serverVars, cancelling, abandoned, leaving, visits>>
    /\ sending # None /\ sending' = None
    /\ code' = code \/ (answer[sending] = "code" /\ code' = sending)

\* The page, or one that is gone, hears that the request was cancelled.
Denied(c) ==
    /\ answer[c] = "denied"
    /\ \/ c = cancelling /\ cancelling' = None /\ abandoned' = abandoned
       \/ c \in abandoned /\ cancelling' = cancelling /\ abandoned' = abandoned \ {c}

Denies ==
    /\ UNCHANGED <<serverVars, sending, code, leaving>>
    /\ \E c \in Calls : Denied(c)
    /\ visits' = Append(visits, "denied")

Leaves ==
    /\ UNCHANGED <<serverVars, sending, cancelling, abandoned, code>>
    /\ code # None /\ ~leaving /\ leaving'
    /\ visits' = Append(visits, code)

LEMMA CallEffect ==
    ASSUME ServerTypeOK, PageTypeOK, SentOnce, [Next]_vars
    PROVE  Waits \/ Forgets \/ Sends \/ Hears \/ Denies \/ Leaves
<1> USE DEF sendVars, pastVars, tabVars
<1>1. CASE UNCHANGED <<sending, cancelling, code, leaving, visits>> /\ abandoned' \subseteq abandoned
  BY <1>1 DEF Waits
<1>2. CASE ToLogin \/ PendingRedirect
  BY <1>2 DEF ToLogin, PendingRedirect, Mounted, Forgets
<1>3. ASSUME SendApproval
      PROVE  sending' \in Calls /\ pc[sending'] = "idle" /\ pc'[sending'] # "idle"
  <2>1. PICK c \in NextCall, u \in Users :
           ApproveArrives(c, u, cookie, template) /\ sending' = c
    BY <1>3 DEF SendApproval
  <2> QED
    BY <2>1, AnyCall DEF ApproveArrives, Go, ServerTypeOK
<1>4. CASE ClickConnect
  <2>1. CASE SendApproval
    BY <1>3, <1>4, <2>1 DEF ClickConnect, FormShown, Sends
  <2>2. CASE UNCHANGED sending
    BY <1>4, <2>2 DEF ClickConnect, Waits
  <2> QED
    BY <1>4, <2>1, <2>2 DEF ClickConnect
<1>5. CASE AutoApprove
  <2>1. code = None
    BY <1>5 DEF AutoApprove, SentOnce
  <2> QED
    BY <1>3, <1>5, <2>1 DEF AutoApprove, Sends
<1>6. CASE ApprovalAnswered
  BY <1>6 DEF ApprovalAnswered, Hears
<1>7. CASE ClickCancel
  <2>1. PICK c \in NextCall, u \in Users : CancelArrives(c, u) /\ cancelling' = c
    BY <1>7 DEF ClickCancel
  <2>2. cancelling' \in Calls /\ pc[cancelling'] = "idle" /\ pc'[cancelling'] # "idle"
    BY <2>1, AnyCall DEF CancelArrives, Go, ServerTypeOK
  <2> QED
    BY <1>7, <2>2 DEF ClickCancel, Waits
<1>8. CASE CancelAnswered
  <2>1. CASE answer[cancelling] = "denied" /\ visits' = Append(visits, "denied")
    <3>1. cancelling \in Calls /\ Denied(cancelling)
      BY <1>8, <2>1, PageTypeParts DEF CancelAnswered, Denied, SentTyped
    <3> QED
      BY <1>8, <2>1, <3>1 DEF CancelAnswered, Denies
  <2>2. CASE UNCHANGED visits
    BY <1>8, <2>2 DEF CancelAnswered, Waits
  <2> QED
    BY <1>8, <2>1, <2>2 DEF CancelAnswered, CancelHeard
<1>9. CASE GoToSite
  BY <1>9 DEF GoToSite, Leaves
<1>10. ASSUME NEW c \in Calls, AbandonedAnswered(c) PROVE Denies \/ Waits
  <2>1. CASE answer[c] = "denied" /\ visits' = Append(visits, "denied")
    BY <1>10, <2>1 DEF AbandonedAnswered, Denied, Denies
  <2>2. CASE UNCHANGED visits
    BY <1>10, <2>2 DEF AbandonedAnswered, Waits
  <2> QED
    BY <1>10, <2>1, <2>2 DEF AbandonedAnswered, CancelHeard
<1>11. CASE LogIn \/ Unload
  BY <1>1, <1>11 DEF LogIn, Unload
<1>12. \/ UNCHANGED <<sending, cancelling, code, leaving, visits, abandoned>>
       \/ LogIn \/ Unload \/ (\E c \in Calls : AbandonedAnswered(c))
       \/ ToLogin \/ PendingRedirect \/ ClickConnect \/ AutoApprove \/ ApprovalAnswered
       \/ ClickCancel \/ CancelAnswered \/ GoToSite
  BY DEF vars, pageVars, Next, RequestCreated, SessionEnds, FetchRequest, SelectProject,
     ProjectCreated, SelectEnvironment, SelectTemplate, Choose, ImpersonationAnswered,
     ReadinessAnswered, TimerFires, Retry, SiteRedeems, OtherTab, ServerStep
<1> QED
  BY <1>1, <1>2, <1>4, <1>5, <1>6, <1>7, <1>8, <1>9, <1>10, <1>11, <1>12

LEMMA CallsMadeStep ==
    ASSUME SentTyped, abandoned \subseteq Calls, CallsMade, CallsApart, Kept,
           Waits \/ Forgets \/ Sends \/ Hears \/ Denies \/ Leaves
    PROVE  CallsMade' /\ CallsApart'
<1> USE ConnectAssumption DEF CallsMade, CallsApart, SentTyped
<1>1. CASE Waits
  BY <1>1 DEF Waits, Kept
<1>2. CASE Forgets
  BY <1>2 DEF Forgets, Kept
<1>3. CASE Sends
  BY <1>3 DEF Sends, Kept
<1>4. CASE Hears
  BY <1>4 DEF Hears, serverVars
<1>5. CASE Denies
  <2>1. PICK c \in Calls : Denied(c)
    BY <1>5 DEF Denies
  <2> QED
    BY <1>5, <2>1 DEF Denies, Denied, serverVars
<1>6. CASE Leaves
  BY <1>6 DEF Leaves, serverVars
<1> QED
  BY <1>1, <1>2, <1>3, <1>4, <1>5, <1>6

\* The call that was denied stays behind the page.
LEMMA DeniedStays ==
    ASSUME SentTyped, abandoned \subseteq Calls, CallsMade, Verdict, Kept,
           Waits \/ Forgets \/ Sends \/ Hears \/ Leaves,
           NEW c \in Calls, answer[c] = "denied", c \notin {sending, cancelling} \cup abandoned
    PROVE  answer'[c] = "denied" /\ c \notin {sending', cancelling'} \cup abandoned'
<1>1. answer'[c] = "denied" /\ pc[c] = "done"
  BY DEF Kept, Verdict
<1>2. c \notin {sending', cancelling'} \cup abandoned'
  BY <1>1, ConnectAssumption DEF Waits, Forgets, Sends, Hears, Leaves
<1> QED
  BY <1>1, <1>2

LEMMA VisitsStep ==
    ASSUME SentTyped, abandoned \subseteq Calls, CallsMade, CallsApart, VisitsBehind, Verdict, Kept,
           Waits \/ Forgets \/ Sends \/ Hears \/ Denies \/ Leaves
    PROVE  VisitsBehind'
<1> USE ConnectAssumption, CallbackAssumption
<1>0. /\ visits \in Seq(Calls \cup {"denied"})
      /\ \A i \in DOMAIN visits : visits[i] # "denied" => visits[i] \in Calls
  BY DEF SentTyped
<1>1. CASE Waits
  <2>1. ASSUME NEW c \in Calls, answer[c] = "denied", c \notin {sending, cancelling} \cup abandoned
        PROVE  answer'[c] = "denied" /\ c \notin {sending', cancelling'} \cup abandoned'
    BY <1>1, <2>1, DeniedStays
  <2>2. \A i \in DOMAIN visits : visits[i] # "denied" => answer'[visits[i]] = "code"
    BY <1>0 DEF VisitsBehind, Kept
  <2>3. UNCHANGED <<sending, code, leaving, visits>>
    BY <1>1 DEF Waits
  <2> QED
    BY <2>1, <2>2, <2>3 DEF VisitsBehind
<1>2. CASE Forgets
  <2>1. ASSUME NEW c \in Calls, answer[c] = "denied", c \notin {sending, cancelling} \cup abandoned
        PROVE  answer'[c] = "denied" /\ c \notin {sending', cancelling'} \cup abandoned'
    BY <1>2, <2>1, DeniedStays
  <2>2. \A i \in DOMAIN visits : visits[i] # "denied" => answer'[visits[i]] = "code"
    BY <1>0 DEF VisitsBehind, Kept
  <2>3. \A i \in DOMAIN visits : visits[i] # "denied" => visits[i] # None
    BY <1>0
  <2> QED
    BY <1>2, <2>1, <2>2, <2>3 DEF Forgets, VisitsBehind
<1>3. CASE Sends
  <2>1. ASSUME NEW c \in Calls, answer[c] = "denied", c \notin {sending, cancelling} \cup abandoned
        PROVE  answer'[c] = "denied" /\ c \notin {sending', cancelling'} \cup abandoned'
    BY <1>3, <2>1, DeniedStays
  <2>2. \A i \in DOMAIN visits : visits[i] # "denied" =>
           answer'[visits[i]] = "code" /\ visits[i] # sending'
    BY <1>0, <1>3 DEF VisitsBehind, Kept, Sends, Verdict
  <2>3. UNCHANGED <<cancelling, code, leaving, visits>>
    BY <1>3 DEF Sends
  <2> QED
    BY <2>1, <2>2, <2>3 DEF VisitsBehind
<1>4. CASE Hears
  <2>1. UNCHANGED <<answer, cancelling, leaving, visits>> /\ code = None /\ sending' = None
    BY <1>4 DEF Hears, serverVars, CallsMade
  <2>2. \A i \in DOMAIN visits : visits[i] # "denied" =>
           visits[i] # sending' /\ visits[i] # code'
    BY <1>0, <1>4, <2>1 DEF VisitsBehind, Hears
  <2>3. ASSUME NEW c \in Calls, answer[c] = "denied", c \notin {sending, cancelling} \cup abandoned
        PROVE  c \notin {sending', cancelling'} \cup abandoned'
    BY <1>4, <2>3, DeniedStays
  <2> QED
    BY <2>1, <2>2, <2>3 DEF VisitsBehind
<1>5. CASE Denies
  <2>1. PICK c \in Calls : Denied(c) /\ answer[c] = "denied"
    BY <1>5 DEF Denies, Denied
  <2>2. \A i \in DOMAIN visits : visits[i] # "denied" /\ visits[i] = "denied"
    <3>1. c \in {cancelling} \cup abandoned
      BY <2>1 DEF Denied
    <3>2. \A d \in Calls : answer[d] # "code" /\ (answer[d] = "denied" => d = c)
      BY <2>1 DEF Verdict
    <3> QED
      BY <1>0, <3>1, <3>2 DEF VisitsBehind
  <2>3. visits = <<>>
    BY <1>0, <2>2
  <2>4. visits' = <<"denied">>
    BY <1>5, <2>3 DEF Denies
  <2>5. UNCHANGED answer
    BY <1>5 DEF Denies, serverVars
  <2>6. c \notin {sending', cancelling'} \cup abandoned'
    BY <1>5, <2>1, ConnectAssumption DEF Denies, Denied, CallsApart
  <2> QED
    BY <2>1, <2>4, <2>5, <2>6 DEF VisitsBehind
<1>6. CASE Leaves
  <2>1. code \in Calls /\ answer[code] = "code" /\ sending = None
    BY <1>6 DEF Leaves, SentTyped, CallsMade
  <2>2. \A i \in DOMAIN visits : visits[i] # "denied" /\ visits[i] # code
    BY <1>0, <1>6, <2>1 DEF VisitsBehind, Verdict, Leaves
  <2>3. /\ visits' = Append(visits, code) /\ UNCHANGED <<answer, sending, code>> /\ leaving'
    BY <1>6 DEF Leaves, serverVars
  <2>4. /\ DOMAIN visits' = DOMAIN visits \cup {Len(visits) + 1}
        /\ \A i \in DOMAIN visits : visits'[i] = visits[i]
        /\ visits'[Len(visits) + 1] = code
    BY <1>0, <2>1, <2>3
  <2>5. \A i \in DOMAIN visits' : visits'[i] # "denied" /\ answer'[visits'[i]] = "code"
                                  /\ visits'[i] # sending'
    BY <1>0, <2>1, <2>2, <2>3, <2>4 DEF VisitsBehind
  <2>6. \A i, j \in DOMAIN visits' : visits'[i] = visits'[j] => i = j
    BY <2>2, <2>4 DEF VisitsBehind
  <2> QED
    BY <2>3, <2>5, <2>6 DEF VisitsBehind
<1> QED
  BY <1>1, <1>2, <1>3, <1>4, <1>5, <1>6

-----------------------------------------------------------------------------
(* The theorems about the page.                                            *)

\* The inductive invariant of the page with the server.
Joint == IInv /\ Verdict /\ PageInv

LEMMA JointInitial == Init => Joint
<1> SUFFICES ASSUME Init PROVE Joint
  OBVIOUS
<1>1. ServerInit /\ PageInit
  BY DEF Init
<1>2. IInv
  BY <1>1, Initial
<1>3. Verdict
  BY <1>1 DEF ServerInit, Verdict
<1>4. PageTypeOK
  <2>1. TabTyped
    BY <1>1 DEF PageInit, TabTyped, Tenants
  <2>2. ChosenTyped
    BY <1>1 DEF PageInit, ChosenTyped, Tenants
  <2>3. WaitTyped
    BY <1>1 DEF PageInit, WaitTyped, CheckType, PhaseType, NoCheck, Idle, Tenants
  <2>4. SentTyped
    <3>1. visits \in Seq(Calls \cup {"denied"})
      BY <1>1 DEF PageInit
    <3>2. consent \in [Calls -> Tenants]
      BY <1>1 DEF PageInit, Tenants
    <3>3. startedFor \in Tenants \X (Templates \cup {None})
      BY <1>1 DEF PageInit, NoSelection, Tenants
    <3>4. /\ leaving \in BOOLEAN /\ clicked \in BOOLEAN
          /\ sending \in Calls \cup {None} /\ cancelling \in Calls \cup {None}
          /\ code \in Calls \cup {None}
      BY <1>1 DEF PageInit
    <3> QED
      BY <3>1, <3>2, <3>3, <3>4 DEF SentTyped
  <2> QED
    BY <2>1, <2>2, <2>3, <2>4, PageTypeParts
<1>5. ChosenWhole /\ Asked /\ SentOnce /\ CallsMade /\ CallsApart
  BY <1>1 DEF PageInit, ChosenWhole, Asked, SentOnce, CallsMade, CallsApart, Idle
<1>6. PollInv
  <2>1. LiveChecks = {}
    BY <1>1 DEF PageInit, LiveChecks, NoCheck
  <2>2. timers = 0 /\ ~Waiting
    BY <1>1 DEF PageInit, Waiting, Idle
  <2> QED
    BY <2>1, <2>2, FS_EmptySet DEF PollInv, OnePoll
<1>7. VisitsBehind
  BY <1>1 DEF PageInit, VisitsBehind
<1> QED
  BY <1>2, <1>3, <1>4, <1>5, <1>6, <1>7 DEF Joint, PageInv

LEMMA JointInductive == Joint /\ [Next]_vars => Joint'
<1> SUFFICES ASSUME Joint, [Next]_vars PROVE Joint'
  OBVIOUS
<1>1. /\ IInv /\ Verdict
      /\ PageTypeOK /\ ChosenWhole /\ PollInv /\ Asked /\ SentOnce /\ CallsMade
      /\ CallsApart /\ VisitsBehind
  BY DEF Joint, PageInv
<1>2. ServerTypeOK /\ KeysAfterGrant
  BY <1>1 DEF IInv, Core
<1>3. [ServerNext]_serverVars
  BY <1>1, PageServes
<1>4. IInv'
  BY <1>1, <1>3, Inductive
<1>5. Answered /\ Effect
  BY <1>2, <1>3, StepAnswers, StepEffect
<1>6. Verdict'
  BY <1>1, <1>2, <1>5, VerdictStep
<1>7. PageTypeOK' /\ ChosenWhole'
  BY <1>1, <1>2, PageTypeStep
<1>8. StaysSo \/ Approves \/ Clears \/ Concludes \/ Polls \/ Begins
  BY <1>1, PageEffect
<1>9. PollInv' /\ Asked' /\ SentOnce'
  BY <1>1, <1>8, PollStep, AskedStep
<1>10. Kept
  BY <1>1, <1>2, <1>3, <1>5, KeptStep
<1>11. Waits \/ Forgets \/ Sends \/ Hears \/ Denies \/ Leaves
  BY <1>1, <1>2, CallEffect
<1>12. SentTyped /\ abandoned \subseteq Calls
  BY <1>1, PageTypeParts DEF TabTyped
<1>13. CallsMade' /\ CallsApart' /\ VisitsBehind'
  BY <1>1, <1>10, <1>11, <1>12, CallsMadeStep, VisitsStep
<1> QED
  BY <1>4, <1>6, <1>7, <1>9, <1>13 DEF Joint, PageInv

\* The inductive invariant of the page, with that of the server it calls.
THEOREM PageInvariance == Spec => []Joint
  BY JointInitial, JointInductive, PTL DEF Spec

\* Every reachable state of the page and the server is well typed.
THEOREM PageTypeCorrect == Spec => []TypeOK
<1>1. Joint => TypeOK
  BY DEF Joint, IInv, PageInv, TypeOK
<1> QED
  BY <1>1, PageInvariance, PTL

\* With the page and the site as its callers the server goes through steps of its
\* own specification: the page cannot make it do what other clients could not.
THEOREM PageIsClient == Spec => ServerSpec
<1>1. Init => ServerInit
  BY DEF Init
<1>2. Joint /\ [Next]_vars => [ServerNext]_serverVars
  BY PageServes DEF Joint, PageInv
<1> QED
  BY <1>1, <1>2, PageInvariance, PTL DEF Spec, ServerSpec

\* However the user chooses, retries and clicks, useProjectReadiness has one check
\* or one timer while it waits, and neither otherwise.
THEOREM PollsOnce == Spec => []OnePoll
<1>1. Joint => OnePoll
  BY DEF Joint, PageInv, PollInv
<1> QED
  BY <1>1, PageInvariance, PTL

\* The browser loads each callback once; the one that says access_denied is the
\* only one, and no keys went out or will, whichever page the answers find.
THEOREM ToldOnce == Spec => []SiteToldOnce
<1>1. Joint => SiteToldOnce
  BY DEF Joint, PageInv, VisitsBehind, Verdict, SiteToldOnce
<1> QED
  BY <1>1, PageInvariance, PTL

\* Only a click on Connect, or the effect of "ready" after one, sends an approval.
LEMMA ApprovalSent ==
    ASSUME Joint, [Next]_vars, NEW c \in Calls, pc[c] = "idle", pc'[c] = "read"
    PROVE  (ClickConnect /\ IsReady /\ SendApproval) \/ AutoApprove
<1> USE DEF Go, End
<1>1. pc \in [Calls -> Steps]
  BY DEF Joint, IInv, ServerTypeOK
<1>2. ASSUME NEW u \in Users, FetchRequest(u) PROVE FALSE
  BY <1>2 DEF FetchRequest
<1>3. CASE ClickCancel
  BY <1>1, <1>3, AnyCall DEF ClickCancel, CancelArrives
<1>4. CASE SiteRedeems
  <2>1. PICK d \in NextCall, k \in {visits[i] : i \in DOMAIN visits} : ExchangeArrives(d, k, TRUE)
    BY <1>4 DEF SiteRedeems
  <2> QED
    BY <1>1, <2>1, AnyCall DEF ExchangeArrives
<1>5. CASE ServerStep
  <2>1. ASSUME NEW d \in Calls, CallStep(d) PROVE FALSE
    <3>1. CASE ApproveStep(d)
      <4>1. pc[d] # "idle" /\ \A x \in Calls : x # d => pc'[x] = pc[x]
        BY <1>1, <3>1 DEF ApproveStep, ApproveReads, Reserve, Reread, Rotate, Check, NameChecked,
           FindCredential, Credential, Insert, Complete, Disconnect, Revoke, Reset, Caught, Release
      <4> QED
        BY <4>1
    <3>2. CASE ~ApproveStep(d)
      <4>1. pc[d] # "idle" /\ \A x \in Calls : x # d => pc'[x] = pc[x]
        BY <1>1, <2>1, <3>2 DEF CallStep, CancelReads, CancelClaims, CancelTransitions, Match, Burn,
           Undeliver, ThrownAway
      <4> QED
        BY <4>1
    <3> QED
      BY <3>1, <3>2
  <2>2. ~Expire /\ ~Remove
    BY DEF Expire, Remove
  <2> QED
    BY <1>5, <2>1, <2>2 DEF ServerStep
<1>6. CASE ClickConnect
  BY <1>6 DEF ClickConnect, serverVars
<1>7. ClickConnect \/ AutoApprove \/ ClickCancel \/ SiteRedeems \/ ServerStep
  <2>1. pc' # pc
    OBVIOUS
  <2>2. \A u \in Users : ~FetchRequest(u)
    BY <1>2
  <2> QED
    BY <2>1, <2>2 DEF vars, serverVars, Next, RequestCreated, SessionEnds, ToLogin, LogIn,
       PendingRedirect, SelectProject, ProjectCreated, SelectEnvironment, SelectTemplate, Choose,
       ImpersonationAnswered, ReadinessAnswered, TimerFires, Retry, ApprovalAnswered,
       CancelAnswered, AbandonedAnswered, GoToSite, Unload, OtherTab
<1> QED
  BY <1>3, <1>4, <1>5, <1>6, <1>7

\* The effect that sends an approval never loops: each approval is for a click made
\* since the last choice, and no click is followed by two.
THEOREM OneForEachClick == Spec => OneApprovalPerClick
<1>1. ASSUME Joint, [Next]_vars
      PROVE  [\A c \in Calls : pc[c] = "idle" /\ pc'[c] = "read" => clicked \/ clicks' = clicks + 1]_vars
  <2>1. ASSUME NEW c \in Calls, pc[c] = "idle", pc'[c] = "read"
        PROVE  clicked \/ clicks' = clicks + 1
    <3>1. CASE ClickConnect
      BY <3>1 DEF ClickConnect
    <3>2. CASE AutoApprove
      <4>1. phase.p = "ready" /\ startedFor # Selection
        BY <3>2 DEF AutoApprove, IsReady, Ready
      <4> QED
        BY <1>1, <4>1 DEF Joint, PageInv, Asked
    <3> QED
      BY <1>1, <2>1, <3>1, <3>2, ApprovalSent
  <2> QED
    BY <2>1
<1> QED
  BY <1>1, PageInvariance, PTL DEF Spec, OneApprovalPerClick
=============================================================================

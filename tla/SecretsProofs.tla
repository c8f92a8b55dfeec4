----------------------------- MODULE SecretsProofs -----------------------------
(***************************************************************************)
(* Theorems about Secrets for any number of secrets, calls, faults and     *)
(* crashes: types, that a listed secret has its value, that a failed batch *)
(* is told, that a status comes back only when asked for or by a stale     *)
(* write, and, while mutations come one after the other, that orphaned     *)
(* values and uncounted rotations are told.                                *)
(***************************************************************************)
EXTENDS Secrets, FiniteSetTheorems, TLAPS

-----------------------------------------------------------------------------
(* The inductive invariant.                                                *)

Listed(q) == {q[i] : i \in DOMAIN q}
Ahead(o) == Listed(todo[o])
Made(o)  == Listed(made[o])
AtHand(o) == {Cur(o)}

\* Places of the operation that creates secrets, and of each of the others.
Creating == {"vaultSet", "insert", "cleanup", "orphan", "undo", "undoMeta", "undoValue", "undoOrphan"}
PlacesOf(k) ==
    {"idle", "failed", "crashed"} \cup
    CASE k = "Set"      -> Creating \cup {"auditFailed", "audit", "done"}
      [] k = "GetValue" -> {"load", "read", "audit", "auditDenied", "auditFailed", "done"}
      [] k = "Rotate"   -> {"load", "rotate", "replace", "audit", "auditPartly", "partly", "done"}
      [] k = "Purge"    -> {"load", "purgeDelete", "purgeVault", "hardDelete", "hardDeleteRefused",
                            "audit", "auditPartly", "auditRefused", "auditFailed", "partly", "done"}
      [] k \in {"Update", "UpdateAccess", "Lock", "Unlock", "Delete", "Restore"} ->
                           {"load", "replace", "audit", "done"}

Undoing == {"undoMeta", "undoValue", "undoOrphan"}
Resting == {"idle", "undo"} \cup Ended

\* A call that works has a secret to work on, and all but a set have just one.
ListsAt(o) ==
    /\ pc[o] \notin Resting => todo[o] # <<>>
    /\ pc[o] = "idle" => todo[o] = <<>>
    /\ kind[o] # "Set" => made[o] = <<>> /\ Len(todo[o]) <= 1
    /\ kind[o] # "Set" /\ pc[o] \in {"partly", "crashed"} => Len(todo[o]) = 1
    /\ pc[o] \in {"vaultSet", "insert", "cleanup", "orphan"} => Distinct(todo[o])
    /\ kind[o] = "Set" /\ pc[o] \in Undoing \cup {"audit"} => Ahead(o) \subseteq Made(o)

Control ==
    \A o \in Calls :
        /\ pc[o] \in PlacesOf(kind[o])
        /\ pc[o] = "idle" => kind[o] = "GetValue"
        /\ ListsAt(o)

\* A rotation that was recorded as a partial failure has ended.
PartlyEnded ==
    \A o \in Calls, s \in Ids : <<o, s, "PartialFailure">> \in audit => pc[o] \in {"partly", "done"}

\* No other operation has met the secret.
Untouched(s) ==
    /\ ~Exists(s)
    /\ \A p \in Calls : kind[p] # "Set" => s \notin Ahead(p)
    /\ \A p \in Calls : <<p, s, "PartialFailure">> \notin audit
Fresh(s) == Untouched(s) /\ vault[s] = [state |-> "none", writes |-> 0]

\* An id is given out once.
IdsApart ==
    /\ \A s \in Ids \ taken : Fresh(s)
    /\ \A o \in Calls : kind[o] = "Set" => Ahead(o) \cup Made(o) \subseteq taken
    /\ \A o, p \in Calls :
          kind[o] = "Set" /\ kind[p] = "Set" /\ o # p
              => (Ahead(o) \cup Made(o)) \cap (Ahead(p) \cup Made(p)) = {}

\* Nothing is left of the secret, or the call has told.
Gone(s) == ~Exists(s) /\ (Serial => ~Live(s))
Told(o, s) == s \in doubt \/ <<o, s, "Orphan">> \in audit \/ Gone(s)

\* What a SetManyAsync has done so far.
SetAt(o) ==
    LET rest == Listed(Tail(todo[o])) IN
    /\ pc[o] = "vaultSet"  => \A t \in Ahead(o) : Fresh(t)
    /\ pc[o] = "insert"    => \A s \in AtHand(o) :
                                 Untouched(s) /\ vault[s] = [state |-> "live", writes |-> 1]
    /\ pc[o] = "cleanup"   => \A s \in AtHand(o) : s \in doubt \/ Untouched(s)
    /\ pc[o] \in {"insert", "cleanup", "orphan"} => \A t \in rest : Fresh(t)
    /\ pc[o] \in {"auditFailed", "undo"} => \A t \in Ahead(o) : Told(o, t)
    /\ pc[o] \in Undoing   => \A t \in Made(o) \ Ahead(o) : Told(o, t)
    /\ pc[o] = "undoValue" => \A s \in AtHand(o) : ~Exists(s)
    /\ pc[o] = "failed"    => \A t \in Made(o) : Told(o, t)
    /\ Serial /\ pc[o] \in {"vaultSet", "insert", "audit"} => \A t \in Made(o) : Exists(t)

SetsRight == \A o \in Calls : kind[o] = "Set" => SetAt(o)

\* One mutation at a time: what it loaded is still so.
OneMutation ==
    Serial => \A o, p \in Calls :
        Busy(o) /\ Busy(p) /\ kind[o] # "GetValue" /\ kind[p] # "GetValue" => o = p

LoadedAt(o) ==
    /\ pc[o] \in {"rotate", "replace", "purgeDelete", "purgeVault", "hardDelete", "hardDeleteRefused"}
          => \A s \in AtHand(o) : Exists(s) /\ copy[o] = meta[s]
    /\ pc[o] \in {"purgeVault", "hardDelete", "hardDeleteRefused"} => \A s \in AtHand(o) : ~Live(s)
LoadedHolds == Serial => \A o \in Calls : LoadedAt(o)

\* A value without metadata is told, or a set that works or stopped has it.
SetHas(s) ==
    \E o \in Calls : kind[o] = "Set" /\ (Busy(o) \/ pc[o] = "crashed") /\ s \in Ahead(o) \cup Made(o)
OrphanTold(s) == \E o \in Calls : <<o, s, "Orphan">> \in audit
OrphanKnown ==
    Serial => \A s \in Ids \ doubt : Live(s) /\ ~Exists(s) => SetHas(s) \/ OrphanTold(s)

\* The writes of a value and the rotations counted.
PartlyRotated(s) == {o \in Calls : kind[o] = "Rotate" /\ <<o, s, "PartialFailure">> \in audit}
Rotating(s) ==
    \E o \in Calls : kind[o] = "Rotate" /\ pc[o] \in {"replace", "auditPartly"} /\ s \in Ahead(o)
RotationStopped(s) == \E o \in Calls : kind[o] = "Rotate" /\ pc[o] = "crashed" /\ s \in Ahead(o)
Balanced(s) ==
    /\ IsFiniteSet(PartlyRotated(s))
    /\ vault[s].writes = meta[s].rotations + Cardinality(PartlyRotated(s))
                            + IF Rotating(s) THEN 2 ELSE 1
BooksKept ==
    Serial => \A s \in Ids \ doubt : Exists(s) /\ ~RotationStopped(s) => Balanced(s)

IInv ==
    /\ TypeOK
    /\ Control
    /\ PartlyEnded
    /\ IdsApart
    /\ SetsRight
    /\ OneMutation
    /\ LoadedHolds
    /\ ValueBehindSecret
    /\ OrphanKnown
    /\ BooksKept

-----------------------------------------------------------------------------
(* Lists.                                                                  *)

LEMMA HeadAndTail ==
    ASSUME NEW S, NEW q \in Seq(S), q # <<>>
    PROVE  /\ Head(q) \in S
           /\ Tail(q) \in Seq(S)
           /\ Listed(q) = {Head(q)} \cup Listed(Tail(q))
           /\ Distinct(q) => Distinct(Tail(q)) /\ Head(q) \notin Listed(Tail(q))
           /\ Len(q) = 1 => Tail(q) = <<>> /\ Listed(Tail(q)) = {}
           /\ Len(q) # 1 => Tail(q) # <<>>
           /\ Len(Tail(q)) <= Len(q)
<1>1. Len(q) \in Nat \ {0} /\ DOMAIN q = 1 .. Len(q) /\ Head(q) = q[1] /\ Head(q) \in S
  OBVIOUS
<1>2. /\ Tail(q) \in Seq(S)
      /\ Len(Tail(q)) = Len(q) - 1
      /\ DOMAIN Tail(q) = 1 .. (Len(q) - 1)
      /\ \A i \in 1 .. (Len(q) - 1) : Tail(q)[i] = q[i + 1]
  OBVIOUS
<1>3. Listed(q) = {Head(q)} \cup Listed(Tail(q))
  <2>1. ASSUME NEW i \in DOMAIN q PROVE q[i] \in {Head(q)} \cup Listed(Tail(q))
    <3>1. CASE i = 1
      BY <1>1, <3>1
    <3>2. CASE i # 1
      <4>1. i - 1 \in 1 .. (Len(q) - 1) /\ (i - 1) + 1 = i
        BY <1>1, <3>2
      <4>2. Tail(q)[i - 1] = q[i]
        BY <1>2, <4>1
      <4> QED
        BY <1>2, <4>1, <4>2 DEF Listed
    <3> QED
      BY <3>1, <3>2
  <2>2. ASSUME NEW i \in DOMAIN Tail(q) PROVE Tail(q)[i] \in Listed(q)
    <3>1. i + 1 \in DOMAIN q /\ Tail(q)[i] = q[i + 1]
      BY <1>1, <1>2
    <3> QED
      BY <3>1 DEF Listed
  <2>3. Head(q) \in Listed(q)
    BY <1>1 DEF Listed
  <2> QED
    BY <2>1, <2>2, <2>3 DEF Listed
<1>4. Distinct(q) => Distinct(Tail(q)) /\ Head(q) \notin Listed(Tail(q))
  <2> SUFFICES ASSUME Distinct(q) PROVE Distinct(Tail(q)) /\ Head(q) \notin Listed(Tail(q))
    OBVIOUS
  <2>1. ASSUME NEW i \in DOMAIN Tail(q), NEW j \in DOMAIN Tail(q), Tail(q)[i] = Tail(q)[j]
        PROVE  i = j
    <3>1. i + 1 \in DOMAIN q /\ j + 1 \in DOMAIN q /\ q[i + 1] = q[j + 1]
      BY <1>1, <1>2, <2>1
    <3> QED
      BY <1>2, <3>1 DEF Distinct
  <2>2. ASSUME NEW i \in DOMAIN Tail(q), Tail(q)[i] = Head(q) PROVE FALSE
    <3>1. i + 1 \in DOMAIN q /\ 1 \in DOMAIN q /\ q[i + 1] = q[1] /\ i + 1 # 1
      BY <1>1, <1>2, <2>2
    <3> QED
      BY <3>1 DEF Distinct
  <2> QED
    BY <2>1, <2>2 DEF Distinct, Listed
<1>5. Len(q) = 1 => Tail(q) = <<>> /\ Listed(Tail(q)) = {}
  <2>1. Len(q) = 1 => Len(Tail(q)) = 0
    BY <1>2
  <2>2. Len(q) = 1 => Tail(q) = <<>>
    BY <1>2, <2>1
  <2> QED
    BY <2>2 DEF Listed
<1>6. Len(q) # 1 => Tail(q) # <<>>
  <2> SUFFICES ASSUME Tail(q) = <<>> PROVE Len(q) = 1
    OBVIOUS
  <2>1. Len(<<>>) = 0
    OBVIOUS
  <2>2. Len(Tail(q)) = 0
    BY <2>1, Zenon
  <2>3. Len(Tail(q)) = Len(q) - 1 /\ Len(q) \in Nat
    BY <1>1, <1>2
  <2> QED
    BY <2>2, <2>3
<1> QED
  BY <1>1, <1>2, <1>3, <1>4, <1>5, <1>6

LEMMA AppendOne ==
    ASSUME NEW S, NEW q \in Seq(S), NEW e \in S
    PROVE  /\ Append(q, e) \in Seq(S)
           /\ Append(q, e) # <<>>
           /\ Listed(Append(q, e)) = Listed(q) \cup {e}
<1>1. /\ Append(q, e) \in Seq(S)
      /\ Len(Append(q, e)) = Len(q) + 1
      /\ DOMAIN Append(q, e) = 1 .. (Len(q) + 1)
      /\ DOMAIN q = 1 .. Len(q)
      /\ Len(q) \in Nat
      /\ \A i \in 1 .. Len(q) : Append(q, e)[i] = q[i]
      /\ Append(q, e)[Len(q) + 1] = e
  OBVIOUS
<1>2. Listed(Append(q, e)) = Listed(q) \cup {e}
  <2>1. ASSUME NEW i \in 1 .. (Len(q) + 1) PROVE Append(q, e)[i] \in Listed(q) \cup {e}
    <3>1. i \in 1 .. Len(q) \/ i = Len(q) + 1
      BY <1>1
    <3> QED
      BY <1>1, <3>1 DEF Listed
  <2>2. \A i \in 1 .. Len(q) : q[i] \in Listed(Append(q, e))
    <3>1. ASSUME NEW i \in 1 .. Len(q) PROVE i \in 1 .. (Len(q) + 1) /\ Append(q, e)[i] = q[i]
      BY <1>1
    <3> QED
      BY <1>1, <3>1 DEF Listed
  <2>3. e \in Listed(Append(q, e))
    <3>1. Len(q) + 1 \in 1 .. (Len(q) + 1)
      BY <1>1
    <3> QED
      BY <1>1, <3>1 DEF Listed
  <2> QED
    BY <1>1, <2>1, <2>2, <2>3 DEF Listed
<1> QED
  BY <1>1, <1>2

LEMMA ListedType == ASSUME NEW S, NEW q \in Seq(S) PROVE Listed(q) \subseteq S
BY DEF Listed

LEMMA OneListed ==
    /\ Listed(<<>>) = {}
    /\ \A s : Listed(<<s>>) = {s} /\ Head(<<s>>) = s /\ Len(<<s>>) = 1 /\ <<s>> # <<>>
<1>1. Listed(<<>>) = {}
  BY DEF Listed
<1>2. ASSUME NEW s PROVE Listed(<<s>>) = {s} /\ Head(<<s>>) = s /\ Len(<<s>>) = 1 /\ <<s>> # <<>>
  BY DEF Listed
<1> QED
  BY <1>1, <1>2

-----------------------------------------------------------------------------
(* Places and types.                                                       *)

\* One step of a call that has begun.
Works(o) == Step(o) \/ Throw(o) \/ ThrowLate(o) \/ Crash(o)

LEMMA PlaceNames ==
    /\ StorePlaces \subseteq Places /\ Ended \subseteq Places /\ Creating \subseteq Places
    /\ {"idle", "undo", "orphan", "undoOrphan", "audit", "auditDenied",
        "auditFailed", "auditPartly", "auditRefused"} \subseteq Places
    /\ \A k \in Kinds : PlacesOf(k) \subseteq Places
<1>1. ASSUME NEW k \in Kinds PROVE PlacesOf(k) \subseteq Places
  BY DEF Places, StorePlaces, Ended, Creating, PlacesOf, Kinds, Mutations
<1> QED
  BY <1>1 DEF Places, StorePlaces, Ended, Creating

LEMMA Went ==
    ASSUME TypeOK, NEW o \in Calls, NEW place, Goto(o, place)
    PROVE  /\ pc'[o] = place
           /\ \A p \in Calls \ {o} : pc'[p] = pc[p]
           /\ place \in Places => pc' \in [Calls -> Places]
BY DEF TypeOK, Goto

LEMMA AtWork ==
    ASSUME TypeOK, Control, NEW o \in Calls, pc[o] \notin Resting
    PROVE  /\ todo[o] \in Seq(Ids) /\ made[o] \in Seq(Ids)
           /\ todo[o] # <<>>
           /\ Cur(o) \in Ids
           /\ Cur(o) \in Ahead(o)
           /\ Tail(todo[o]) \in Seq(Ids)
<1>1. todo[o] \in Seq(Ids) /\ made[o] \in Seq(Ids) /\ todo[o] # <<>>
  BY DEF TypeOK, Control, ListsAt
<1> QED
  BY <1>1, HeadAndTail DEF Cur, Ahead

\* The kind of a call is known from its place.
LEMMA KindFromPlace ==
    ASSUME TypeOK, Control, NEW o \in Calls
    PROVE  /\ pc[o] \in Creating => kind[o] = "Set"
           /\ pc[o] = "rotate" => kind[o] = "Rotate"
           /\ pc[o] = "replace" => kind[o] \in Mutations \ {"Purge"}
           /\ pc[o] \in {"purgeDelete", "purgeVault", "hardDelete", "hardDeleteRefused", "auditRefused"}
                  => kind[o] = "Purge"
           /\ pc[o] \in {"read", "auditDenied"} => kind[o] = "GetValue"
           /\ pc[o] \in {"auditPartly", "partly"} => kind[o] \in {"Rotate", "Purge"}
           /\ pc[o] = "load" => kind[o] # "Set"
           /\ pc[o] = "auditFailed" => kind[o] \in {"Set", "GetValue", "Purge"}
<1>1. pc[o] \in PlacesOf(kind[o]) /\ kind[o] \in Kinds
  BY DEF TypeOK, Control
<1> QED
  BY <1>1 DEF PlacesOf, Kinds, Mutations, Creating

\* A step of a call concerns that call, and moves nobody else.
Alone(o) ==
    /\ kind' = kind /\ taken' = taken
    /\ \A p \in Calls \ {o} :
          pc'[p] = pc[p] /\ todo'[p] = todo[p] /\ made'[p] = made[p] /\ copy'[p] = copy[p]

LEMMA WorksAlone ==
    ASSUME TypeOK, NEW o \in Calls, Works(o)
    PROVE  Alone(o) /\ Busy(o)
<1> USE DEF TypeOK, Alone, storeVars, callVars, badVars, Goto, Busy, Ended
<1>1. CASE Step(o)
  <2>1. CASE VaultSet(o, "insert")
    BY <2>1 DEF VaultSet
  <2>2. CASE RotateValue(o, "replace")
    BY <2>2 DEF RotateValue
  <2>3. CASE Replace(o, "audit")
    BY <2>3 DEF Replace
  <2>4. CASE PurgeDelete(o, IF KeyVault THEN "purgeVault" ELSE "hardDelete")
    BY <2>4 DEF PurgeDelete
  <2>5. CASE PurgeVault(o, "hardDelete")
    BY <2>5 DEF PurgeVault
  <2>6. CASE Insert(o)
    BY <2>6 DEF Insert
  <2>7. CASE Cleanup(o) \/ StartUndo(o) \/ UndoMeta(o)
    BY <2>7 DEF Cleanup, StartUndo, UndoMeta
  <2>8. CASE UndoValue(o)
    BY <2>8 DEF UndoValue, Advance
  <2>9. CASE Load(o)
    BY <2>9 DEF Load
  <2>10. CASE HardDelete(o) \/ ReadValue(o)
    BY <2>10 DEF HardDelete, ReadValue
  <2>11. CASE AuditEnd(o)
    BY <2>11 DEF AuditEnd, Advance
  <2>12. CASE AuditOrphan(o)
    BY <2>12 DEF AuditOrphan, Advance
  <2> QED
    BY <1>1, <2>1, <2>2, <2>3, <2>4, <2>5, <2>6, <2>7, <2>8, <2>9, <2>10, <2>11, <2>12 DEF Step
<1>2. CASE Throw(o)
  BY <1>2 DEF Throw, StorePlaces
<1>3. CASE ThrowLate(o)
  BY <1>3 DEF ThrowLate, VaultSet, InsertLate, RotateValue, Replace, PurgeDelete, PurgeVault
<1>4. CASE Crash(o)
  BY <1>4 DEF Crash
<1> QED
  BY <1>1, <1>2, <1>3, <1>4 DEF Works

\* What a call notes never unsays, and is about the secret at hand.
Notes(o) ==
    /\ doubt \subseteq doubt' /\ audit \subseteq audit'
    /\ \A s \in doubt' \ doubt : s = Cur(o) /\ pc[o] \notin Resting
    /\ \A e \in audit' \ audit :
          \E x \in {"Success", "Failed", "Denied", "PartialFailure", "Orphan"} :
             /\ e = <<o, Cur(o), x>>
             /\ x = "PartialFailure" <=> pc[o] \in {"auditPartly", "auditRefused"}
             /\ pc[o] \notin Resting

LEMMA RecordNotes ==
    ASSUME TypeOK, NEW o \in Calls, NEW x, Record(o, x)
    PROVE  /\ doubt \subseteq doubt' /\ audit \subseteq audit'
           /\ \A s \in doubt' : s \in doubt \/ s = Cur(o)
           /\ \A e \in audit' \ audit : e = <<o, Cur(o), x>>
           /\ Cur(o) \in doubt' \/ <<o, Cur(o), x>> \in audit'
BY DEF Record, badVars, TypeOK

LEMMA WorksNotes ==
    ASSUME TypeOK, NEW o \in Calls, Works(o)
    PROVE  Notes(o)
<1> USE DEF storeVars, callVars, badVars, Notes, Resting, Ended
<1>1. CASE AuditEnd(o)
  <2>1. PICK x \in {"Success", "Failed", "Denied", "PartialFailure"} :
           /\ Record(o, x)
           /\ x = "PartialFailure" <=> pc[o] \in {"auditPartly", "auditRefused"}
    BY <1>1 DEF AuditEnd
  <2>2. pc[o] \notin Resting
    BY <1>1 DEF AuditEnd
  <2> QED
    BY <2>1, <2>2, RecordNotes
<1>2. CASE AuditOrphan(o)
  <2>1. Record(o, "Orphan") /\ pc[o] \in {"orphan", "undoOrphan"}
    BY <1>2 DEF AuditOrphan
  <2> QED
    BY <2>1, RecordNotes
<1>3. CASE Step(o) /\ ~AuditEnd(o) /\ ~AuditOrphan(o)
  BY <1>3 DEF Step, VaultSet, RotateValue, Replace, PurgeDelete, PurgeVault, Insert, Cleanup, StartUndo,
     UndoMeta, UndoValue, Load, HardDelete, ReadValue
<1>4. CASE Throw(o) \/ ThrowLate(o) \/ Crash(o)
  BY <1>4 DEF Throw, Crash, ThrowLate, VaultSet, InsertLate, RotateValue, Replace, PurgeDelete, PurgeVault
<1> QED
  BY <1>1, <1>2, <1>3, <1>4 DEF Works

LEMMA VaultType ==
    ASSUME TypeOK, NEW s \in Ids, WriteValue(s) \/ DeleteValue(s)
    PROVE  /\ vault' \in [Ids -> [state : {"none", "live", "deleted"}, writes : Nat]]
           /\ \A t \in Ids \ {s} : vault'[t] = vault[t]
           /\ WriteValue(s) => vault'[s] = [state |-> "live", writes |-> vault[s].writes + 1]
           /\ DeleteValue(s) => /\ vault'[s].state \in {"none", "deleted"}
                                /\ vault'[s].writes = vault[s].writes
<1>1. vault[s].writes \in Nat
  BY DEF TypeOK
<1>2. CASE WriteValue(s)
  <2>1. vault' = [vault EXCEPT ![s] = [state |-> "live", writes |-> vault[s].writes + 1]]
    BY <1>2 DEF WriteValue
  <2>2. /\ vault'[s] = [state |-> "live", writes |-> vault[s].writes + 1]
        /\ \A t \in Ids \ {s} : vault'[t] = vault[t]
        /\ vault' \in [Ids -> [state : {"none", "live", "deleted"}, writes : Nat]]
    BY <1>1, <2>1 DEF TypeOK
  <2>3. vault'[s].state = "live"
    BY <2>2
  <2>4. ~DeleteValue(s)
    BY <2>3 DEF DeleteValue, DeletedState, TypeOK
  <2> QED
    BY <2>2, <2>4
<1>3. CASE DeleteValue(s) /\ ~WriteValue(s)
  <2>1. PICK st \in {"none", "deleted"} : vault' = [vault EXCEPT ![s].state = st]
    BY <1>3 DEF DeleteValue, DeletedState
  <2> QED
    BY <1>1, <1>3, <2>1 DEF TypeOK
<1> QED
  BY <1>2, <1>3

LEMMA ChangedType ==
    ASSUME NEW k \in Mutations \ {"Purge"}, NEW doc \in Documents
    PROVE  /\ Changed(k, doc) \in Documents
           /\ doc.status # "none" => Changed(k, doc).status # "none"
           /\ Changed(k, doc).rotations = IF k = "Rotate" THEN doc.rotations + 1 ELSE doc.rotations
<1>1. PICK st \in Statuses \cup {"none"}, ac \in Accesses, n \in Nat :
         doc = [status |-> st, access |-> ac, rotations |-> n]
  BY DEF Documents
<1>2. CASE k = "Rotate"
  BY <1>1, <1>2 DEF Changed, Documents
<1>3. CASE k \in {"Update", "UpdateAccess"}
  BY <1>1, <1>3 DEF Changed, Documents, Accesses
<1>4. CASE k \in {"Lock", "Unlock", "Restore", "Delete"}
  BY <1>1, <1>4 DEF Changed, Documents, Statuses
<1> QED
  BY <1>2, <1>3, <1>4 DEF Mutations

-----------------------------------------------------------------------------
(* What a call does, by the place where it is.                             *)

\* The lists and the loaded document stay.
Holds(o) == todo'[o] = todo[o] /\ made'[o] = made[o] /\ copy'[o] = copy[o]

\* The first secret of the list is done with.
Passes(o, again, end) ==
    /\ todo'[o] = Tail(todo[o])
    /\ made'[o] = made[o]
    /\ copy'[o] = copy[o]
    /\ pc'[o] = IF Len(todo[o]) = 1 THEN end ELSE again

\* It is known, or known not to be known, that something is left of it.
Tells(o, s) == s \in doubt' \/ <<o, s, "Orphan">> \in audit'

StoresKept(o) == meta' = meta /\ vault' = vault
OnlyMeta(o) ==
    /\ vault' = vault
    /\ meta' \in [Ids -> Documents]
    /\ \A t \in Ids \ {Cur(o)} : meta'[t] = meta[t]
OnlyValue(o) ==
    /\ meta' = meta
    /\ vault' \in [Ids -> [state : {"none", "live", "deleted"}, writes : Nat]]
    /\ \A t \in Ids \ {Cur(o)} : vault'[t] = vault[t]

LEMMA Advanced ==
    ASSUME TypeOK, NEW o \in Calls, NEW again, NEW end, Advance(o, again, end),
           made'[o] = made[o], copy'[o] = copy[o]
    PROVE  Passes(o, again, end)
BY DEF TypeOK, Advance, Passes, Goto

\* The actions a call may take, by its place.
LEMMA StepAt ==
    ASSUME NEW o \in Calls, Step(o)
    PROVE  /\ pc[o] = "vaultSet"    => VaultSet(o, "insert")
           /\ pc[o] = "rotate"      => RotateValue(o, "replace")
           /\ pc[o] = "replace"     => Replace(o, "audit")
           /\ pc[o] = "purgeDelete" => PurgeDelete(o, IF KeyVault THEN "purgeVault" ELSE "hardDelete")
           /\ pc[o] = "purgeVault"  => PurgeVault(o, "hardDelete")
           /\ pc[o] = "insert"      => Insert(o)
           /\ pc[o] = "cleanup"     => Cleanup(o)
           /\ pc[o] = "undo"        => StartUndo(o)
           /\ pc[o] = "undoMeta"    => UndoMeta(o)
           /\ pc[o] = "undoValue"   => UndoValue(o)
           /\ pc[o] = "load"        => Load(o)
           /\ pc[o] \in {"hardDelete", "hardDeleteRefused"} => HardDelete(o)
           /\ pc[o] = "read"        => ReadValue(o)
           /\ pc[o] \in {"orphan", "undoOrphan"} => AuditOrphan(o)
           /\ pc[o] \in {"audit", "auditDenied", "auditFailed", "auditPartly", "auditRefused"}
                  => AuditEnd(o)
           /\ pc[o] \notin Ended \cup {"idle"}
BY DEF Step, VaultSet, RotateValue, Replace, PurgeDelete, PurgeVault, Insert, Cleanup, StartUndo,
   UndoMeta, UndoValue, Load, HardDelete, ReadValue, AuditEnd, AuditOrphan, Ended

LEMMA LateAt ==
    ASSUME NEW o \in Calls, ThrowLate(o)
    PROVE  /\ doubt' = doubt \cup {Cur(o)}
           /\ \/ pc[o] = "vaultSet"    /\ VaultSet(o, "undo")
              \/ pc[o] = "insert"      /\ InsertLate(o)
              \/ pc[o] = "rotate"      /\ RotateValue(o, "failed")
              \/ pc[o] = "replace"     /\ Replace(o, Caught(kind[o], "replace"))
              \/ pc[o] = "purgeDelete" /\ PurgeDelete(o, "failed")
              \/ pc[o] = "purgeVault"  /\ PurgeVault(o, "failed")
BY DEF ThrowLate, VaultSet, InsertLate, RotateValue, Replace, PurgeDelete, PurgeVault, Caught

LEMMA StoreFields ==
    ASSUME TypeOK
    PROVE  /\ meta \in [Ids -> Documents]
           /\ vault \in [Ids -> [state : {"none", "live", "deleted"}, writes : Nat]]
           /\ None \in Documents /\ New \in Documents
           /\ None.status = "none" /\ New.status = "active" /\ New.rotations = 0
BY DEF TypeOK, Documents, None, New, Statuses, Accesses

LEMMA AtVaultSet ==
    ASSUME TypeOK, Control, NEW o \in Calls, Works(o), pc[o] = "vaultSet"
    PROVE  /\ OnlyValue(o) /\ Holds(o)
           /\ \/ /\ pc'[o] = "insert"
                 /\ vault'[Cur(o)] = [state |-> "live", writes |-> vault[Cur(o)].writes + 1]
              \/ pc'[o] = "undo" /\ (vault' = vault \/ Cur(o) \in doubt')
              \/ pc'[o] = "crashed" /\ vault' = vault
<1> USE Went, KindFromPlace, StoreFields
       DEF storeVars, callVars, badVars, OnlyValue, OnlyMeta, StoresKept, Holds
<1>1. Cur(o) \in Ids
  BY AtWork DEF Resting, Ended
<1>2. CASE Step(o)
  BY <1>1, <1>2, StepAt, VaultType DEF VaultSet
<1>3. CASE Throw(o)
  BY <1>3 DEF Throw, StorePlaces, Caught
<1>4. CASE ThrowLate(o)
  BY <1>1, <1>4, LateAt, VaultType DEF VaultSet
<1>5. CASE Crash(o)
  BY <1>5 DEF Crash
<1> QED
  BY <1>2, <1>3, <1>4, <1>5 DEF Works

LEMMA AtInsert ==
    ASSUME TypeOK, Control, NEW o \in Calls, Works(o), pc[o] = "insert"
    PROVE  /\ OnlyMeta(o) /\ copy'[o] = copy[o]
           /\ \/ /\ meta'[Cur(o)] = New
                 /\ made'[o] = Append(made[o], Cur(o))
                 /\ \/ Len(todo[o]) = 1 /\ todo'[o] = made'[o] /\ pc'[o] = "audit"
                    \/ Len(todo[o]) # 1 /\ todo'[o] = Tail(todo[o]) /\ pc'[o] = "vaultSet"
              \/ pc'[o] = "cleanup" /\ Holds(o) /\ (meta' = meta \/ Cur(o) \in doubt')
              \/ pc'[o] = "crashed" /\ Holds(o) /\ meta' = meta
<1> USE Went, KindFromPlace, StoreFields
       DEF storeVars, callVars, badVars, OnlyValue, OnlyMeta, StoresKept, Holds
<1>1. Cur(o) \in Ids
  BY AtWork DEF Resting, Ended
<1>2. CASE Step(o)
  <2>1. Insert(o)
    BY <1>2, StepAt
  <2>2. /\ meta'[Cur(o)] = New /\ meta' \in [Ids -> Documents]
        /\ \A t \in Ids \ {Cur(o)} : meta'[t] = meta[t]
    BY <1>1, <2>1 DEF Insert
  <2>3. made'[o] = Append(made[o], Cur(o))
    BY <2>1 DEF Insert, TypeOK
  <2>4. \/ Len(todo[o]) = 1 /\ todo'[o] = made'[o] /\ pc'[o] = "audit"
        \/ Len(todo[o]) # 1 /\ todo'[o] = Tail(todo[o]) /\ pc'[o] = "vaultSet"
    BY <2>1 DEF Insert, TypeOK
  <2> QED
    BY <2>1, <2>2, <2>3, <2>4 DEF Insert
<1>3. CASE Throw(o)
  BY <1>3 DEF Throw, StorePlaces, Caught
<1>4. CASE ThrowLate(o)
  BY <1>1, <1>4, LateAt DEF InsertLate
<1>5. CASE Crash(o)
  BY <1>5 DEF Crash
<1> QED
  BY <1>2, <1>3, <1>4, <1>5 DEF Works

LEMMA AtCleanup ==
    ASSUME TypeOK, Control, NEW o \in Calls, Works(o), pc[o] = "cleanup"
    PROVE  /\ OnlyValue(o) /\ Holds(o)
           /\ vault'[Cur(o)].writes = vault[Cur(o)].writes
           /\ \/ pc'[o] = "auditFailed" /\ vault'[Cur(o)].state # "live"
              \/ pc'[o] \in {"orphan", "crashed"} /\ vault' = vault
<1> USE Went, KindFromPlace, StoreFields
       DEF storeVars, callVars, badVars, OnlyValue, OnlyMeta, StoresKept, Holds
<1>1. Cur(o) \in Ids
  BY AtWork DEF Resting, Ended
<1>2. CASE Step(o)
  BY <1>1, <1>2, StepAt, VaultType DEF Cleanup
<1>3. CASE Throw(o)
  BY <1>3 DEF Throw, StorePlaces, Caught
<1>4. CASE ThrowLate(o)
  BY <1>4, LateAt
<1>5. CASE Crash(o)
  BY <1>5 DEF Crash
<1> QED
  BY <1>2, <1>3, <1>4, <1>5 DEF Works

LEMMA AtOrphan ==
    ASSUME TypeOK, Control, NEW o \in Calls, Works(o), pc[o] = "orphan"
    PROVE  /\ StoresKept(o) /\ Holds(o)
           /\ \/ pc'[o] = "auditFailed" /\ Tells(o, Cur(o))
              \/ pc'[o] = "crashed"
<1> USE Went, KindFromPlace, StoreFields
       DEF storeVars, callVars, badVars, OnlyValue, OnlyMeta, StoresKept, Holds
<1>1. Cur(o) \in Ids
  BY AtWork DEF Resting, Ended
<1>2. CASE Step(o)
  <2>1. AuditOrphan(o)
    BY <1>2, StepAt
  <2>2. Record(o, "Orphan") /\ Goto(o, "auditFailed") /\ UNCHANGED <<meta, vault, made, copy, todo>>
    BY <2>1 DEF AuditOrphan
  <2> QED
    BY <2>2, RecordNotes DEF Tells
<1>3. CASE Throw(o)
  BY <1>3 DEF Throw, StorePlaces, Caught
<1>4. CASE ThrowLate(o)
  BY <1>4, LateAt
<1>5. CASE Crash(o)
  BY <1>5 DEF Crash
<1> QED
  BY <1>2, <1>3, <1>4, <1>5 DEF Works

LEMMA AtUndo ==
    ASSUME TypeOK, Control, NEW o \in Calls, Works(o), pc[o] = "undo"
    PROVE  /\ StoresKept(o)
           /\ made'[o] = made[o] /\ copy'[o] = copy[o]
           /\ \/ pc'[o] = "failed" /\ made[o] = <<>> /\ todo'[o] = made[o]
              \/ pc'[o] = "undoMeta" /\ made[o] # <<>> /\ todo'[o] = made[o]
              \/ pc'[o] = "crashed" /\ todo'[o] = todo[o]
<1> USE Went, KindFromPlace, StoreFields
       DEF storeVars, callVars, badVars, OnlyValue, OnlyMeta, StoresKept, Holds
<1>2. CASE Step(o)
  BY <1>2, StepAt DEF StartUndo, TypeOK
<1>3. CASE Throw(o)
  BY <1>3 DEF Throw, StorePlaces, Caught
<1>4. CASE ThrowLate(o)
  BY <1>4, LateAt
<1>5. CASE Crash(o)
  BY <1>5 DEF Crash
<1> QED
  BY <1>2, <1>3, <1>4, <1>5 DEF Works

LEMMA AtUndoMeta ==
    ASSUME TypeOK, Control, NEW o \in Calls, Works(o), pc[o] = "undoMeta"
    PROVE  /\ OnlyMeta(o) /\ Holds(o)
           /\ \/ pc'[o] = "undoValue" /\ meta'[Cur(o)] = None
              \/ pc'[o] \in {"undoOrphan", "crashed"} /\ meta' = meta
<1> USE Went, KindFromPlace, StoreFields
       DEF storeVars, callVars, badVars, OnlyValue, OnlyMeta, StoresKept, Holds
<1>1. Cur(o) \in Ids
  BY AtWork DEF Resting, Ended
<1>2. CASE Step(o)
  BY <1>1, <1>2, StepAt DEF UndoMeta
<1>3. CASE Throw(o)
  BY <1>3 DEF Throw, StorePlaces, Caught
<1>4. CASE ThrowLate(o)
  BY <1>4, LateAt
<1>5. CASE Crash(o)
  BY <1>5 DEF Crash
<1> QED
  BY <1>2, <1>3, <1>4, <1>5 DEF Works

LEMMA AtUndoValue ==
    ASSUME TypeOK, Control, NEW o \in Calls, Works(o), pc[o] = "undoValue"
    PROVE  /\ OnlyValue(o)
           /\ vault'[Cur(o)].writes = vault[Cur(o)].writes
           /\ \/ Passes(o, "undoMeta", "failed") /\ vault'[Cur(o)].state # "live"
              \/ pc'[o] \in {"undoOrphan", "crashed"} /\ Holds(o) /\ vault' = vault
<1> USE Went, KindFromPlace, StoreFields
       DEF storeVars, callVars, badVars, OnlyValue, OnlyMeta, StoresKept, Holds
<1>1. Cur(o) \in Ids
  BY AtWork DEF Resting, Ended
<1>2. CASE Step(o)
  <2>1. UndoValue(o)
    BY <1>2, StepAt
  <2>2. made'[o] = made[o] /\ copy'[o] = copy[o] /\ meta' = meta
        /\ Advance(o, "undoMeta", "failed") /\ DeleteValue(Cur(o))
    BY <2>1 DEF UndoValue
  <2> QED
    BY <1>1, <2>2, Advanced, VaultType
<1>3. CASE Throw(o)
  BY <1>3 DEF Throw, StorePlaces, Caught
<1>4. CASE ThrowLate(o)
  BY <1>4, LateAt
<1>5. CASE Crash(o)
  BY <1>5 DEF Crash
<1> QED
  BY <1>2, <1>3, <1>4, <1>5 DEF Works

LEMMA AtUndoOrphan ==
    ASSUME TypeOK, Control, NEW o \in Calls, Works(o), pc[o] = "undoOrphan"
    PROVE  /\ StoresKept(o)
           /\ \/ Passes(o, "undoMeta", "failed") /\ Tells(o, Cur(o))
              \/ pc'[o] = "crashed" /\ Holds(o)
<1> USE Went, KindFromPlace, StoreFields
       DEF storeVars, callVars, badVars, OnlyValue, OnlyMeta, StoresKept, Holds
<1>1. Cur(o) \in Ids
  BY AtWork DEF Resting, Ended
<1>2. CASE Step(o)
  <2>1. AuditOrphan(o)
    BY <1>2, StepAt
  <2>2. /\ Record(o, "Orphan") /\ Advance(o, "undoMeta", "failed")
        /\ UNCHANGED <<meta, vault, made, copy>>
    BY <2>1 DEF AuditOrphan
  <2> QED
    BY <2>2, Advanced, RecordNotes DEF Tells
<1>3. CASE Throw(o)
  BY <1>3 DEF Throw, StorePlaces, Caught
<1>4. CASE ThrowLate(o)
  BY <1>4, LateAt
<1>5. CASE Crash(o)
  BY <1>5 DEF Crash
<1> QED
  BY <1>2, <1>3, <1>4, <1>5 DEF Works

LEMMA AtLoad ==
    ASSUME TypeOK, Control, NEW o \in Calls, Works(o), pc[o] = "load"
    PROVE  /\ StoresKept(o)
           /\ todo'[o] = todo[o] /\ made'[o] = made[o]
           /\ \/ /\ pc'[o] = Afterwards(kind[o]) /\ Exists(Cur(o)) /\ copy'[o] = meta[Cur(o)]
                 /\ meta[Cur(o)].status \in AllowedFrom(kind[o])
              \/ pc'[o] = "auditDenied" /\ kind[o] = "GetValue" /\ copy'[o] = copy[o]
              \/ pc'[o] \in {"failed", "crashed"} /\ copy'[o] = copy[o]
<1> USE Went, KindFromPlace, StoreFields
       DEF storeVars, callVars, badVars, OnlyValue, OnlyMeta, StoresKept, Holds
<1>1. Cur(o) \in Ids
  BY AtWork DEF Resting, Ended
<1>2. CASE Step(o)
  <2>1. Load(o)
    BY <1>2, StepAt
  <2>2. UNCHANGED <<meta, vault, todo, made>>
    BY <2>1 DEF Load
  <2>3. CASE Exists(Cur(o)) /\ meta[Cur(o)].status \in AllowedFrom(kind[o])
    <3>1. copy' = [copy EXCEPT ![o] = meta[Cur(o)]] /\ Goto(o, Afterwards(kind[o]))
      BY <2>1, <2>3 DEF Load
    <3>2. copy'[o] = meta[Cur(o)]
      BY <3>1 DEF TypeOK
    <3> QED
      BY <2>2, <2>3, <3>1, <3>2
  <2>4. CASE ~(Exists(Cur(o)) /\ meta[Cur(o)].status \in AllowedFrom(kind[o]))
    <3>1. copy' = copy /\ Goto(o, IF kind[o] = "GetValue" THEN "auditDenied" ELSE "failed")
      BY <2>1, <2>4 DEF Load
    <3> QED
      BY <2>2, <3>1
  <2> QED
    BY <2>3, <2>4
<1>3. CASE Throw(o)
  BY <1>3 DEF Throw, StorePlaces, Caught
<1>4. CASE ThrowLate(o)
  BY <1>4, LateAt
<1>5. CASE Crash(o)
  BY <1>5 DEF Crash
<1> QED
  BY <1>2, <1>3, <1>4, <1>5 DEF Works

LEMMA AtRotate ==
    ASSUME TypeOK, Control, NEW o \in Calls, Works(o), pc[o] = "rotate"
    PROVE  /\ OnlyValue(o) /\ Holds(o)
           /\ \/ /\ pc'[o] = "replace"
                 /\ vault'[Cur(o)] = [state |-> "live", writes |-> vault[Cur(o)].writes + 1]
              \/ pc'[o] = "failed" /\ (vault' = vault \/ Cur(o) \in doubt')
              \/ pc'[o] = "crashed" /\ vault' = vault
<1> USE Went, KindFromPlace, StoreFields
       DEF storeVars, callVars, badVars, OnlyValue, OnlyMeta, StoresKept, Holds
<1>1. Cur(o) \in Ids
  BY AtWork DEF Resting, Ended
<1>2. CASE Step(o)
  BY <1>1, <1>2, StepAt, VaultType DEF RotateValue
<1>3. CASE Throw(o)
  BY <1>3 DEF Throw, StorePlaces, Caught
<1>4. CASE ThrowLate(o)
  BY <1>1, <1>4, LateAt, VaultType DEF RotateValue
<1>5. CASE Crash(o)
  BY <1>5 DEF Crash
<1> QED
  BY <1>2, <1>3, <1>4, <1>5 DEF Works

LEMMA AtReplace ==
    ASSUME TypeOK, Control, NEW o \in Calls, Works(o), pc[o] = "replace"
    PROVE  /\ OnlyMeta(o) /\ Holds(o)
           /\ \/ meta' = meta
              \/ ~Exists(Cur(o)) /\ meta'[Cur(o)] = None
              \/ Exists(Cur(o)) /\ meta'[Cur(o)] = Changed(kind[o], copy[o])
           /\ \/ pc'[o] = "audit" /\ (Exists(Cur(o)) => meta'[Cur(o)] = Changed(kind[o], copy[o]))
              \/ /\ pc'[o] = IF kind[o] = "Rotate" THEN "auditPartly" ELSE "failed"
                 /\ meta' = meta \/ Cur(o) \in doubt'
              \/ pc'[o] = "crashed" /\ meta' = meta
<1> USE Went, KindFromPlace, StoreFields
       DEF storeVars, callVars, badVars, OnlyValue, OnlyMeta, StoresKept, Holds
<1>1. Cur(o) \in Ids
  BY AtWork DEF Resting, Ended
<1>6. copy[o] \in Documents /\ Changed(kind[o], copy[o]) \in Documents
  BY ChangedType DEF TypeOK
<1>2. CASE Step(o)
  <2>1. Replace(o, "audit")
    BY <1>2, StepAt
  <2>2. /\ meta' = [meta EXCEPT ![Cur(o)] =
                       IF Exists(Cur(o)) THEN Changed(kind[o], copy[o]) ELSE None]
        /\ UNCHANGED <<vault, todo, made, copy>> /\ pc'[o] = "audit"
    BY <2>1 DEF Replace
  <2> QED
    BY <1>1, <1>6, <2>2
<1>3. CASE Throw(o)
  BY <1>3 DEF Throw, StorePlaces, Caught
<1>4. CASE ThrowLate(o)
  <2>1. Replace(o, Caught(kind[o], "replace")) /\ Cur(o) \in doubt'
    BY <1>4, LateAt
  <2>2. /\ meta' = [meta EXCEPT ![Cur(o)] =
                       IF Exists(Cur(o)) THEN Changed(kind[o], copy[o]) ELSE None]
        /\ UNCHANGED <<vault, todo, made, copy>>
        /\ pc'[o] = IF kind[o] = "Rotate" THEN "auditPartly" ELSE "failed"
    BY <2>1 DEF Replace, Caught
  <2> QED
    BY <1>1, <1>6, <2>1, <2>2
<1>5. CASE Crash(o)
  BY <1>5 DEF Crash
<1> QED
  BY <1>2, <1>3, <1>4, <1>5 DEF Works

LEMMA AtPurgeDelete ==
    ASSUME TypeOK, Control, NEW o \in Calls, Works(o), pc[o] = "purgeDelete"
    PROVE  /\ OnlyValue(o) /\ Holds(o)
           /\ vault'[Cur(o)].writes = vault[Cur(o)].writes
           /\ \/ pc'[o] \in {"purgeVault", "hardDelete"} /\ vault'[Cur(o)].state # "live"
              \/ pc'[o] = "failed" /\ Cur(o) \in doubt' /\ vault'[Cur(o)].state # "live"
              \/ pc'[o] \in {"auditFailed", "crashed"} /\ vault' = vault
<1> USE Went, KindFromPlace, StoreFields
       DEF storeVars, callVars, badVars, OnlyValue, OnlyMeta, StoresKept, Holds
<1>1. Cur(o) \in Ids
  BY AtWork DEF Resting, Ended
<1>2. CASE Step(o)
  BY <1>1, <1>2, StepAt, VaultType DEF PurgeDelete
<1>3. CASE Throw(o)
  BY <1>3 DEF Throw, StorePlaces, Caught
<1>4. CASE ThrowLate(o)
  BY <1>1, <1>4, LateAt, VaultType DEF PurgeDelete
<1>5. CASE Crash(o)
  BY <1>5 DEF Crash
<1> QED
  BY <1>2, <1>3, <1>4, <1>5 DEF Works

LEMMA AtPurgeVault ==
    ASSUME TypeOK, Control, NEW o \in Calls, Works(o), pc[o] = "purgeVault"
    PROVE  /\ OnlyValue(o) /\ Holds(o)
           /\ vault'[Cur(o)].writes = vault[Cur(o)].writes
           /\ vault'[Cur(o)].state = "live" <=> vault[Cur(o)].state = "live"
           /\ \/ pc'[o] \in {"hardDelete", "hardDeleteRefused", "crashed"}
              \/ pc'[o] = "failed" /\ Cur(o) \in doubt'
<1> USE Went, KindFromPlace, StoreFields
       DEF storeVars, callVars, badVars, OnlyValue, OnlyMeta, StoresKept, Holds
<1>1. Cur(o) \in Ids
  BY AtWork DEF Resting, Ended
<1>2. CASE Step(o)
  <2>1. PurgeVault(o, "hardDelete")
    BY <1>2, StepAt
  <2> QED
    BY <1>1, <2>1 DEF PurgeVault
<1>3. CASE Throw(o)
  BY <1>3 DEF Throw, StorePlaces, Caught
<1>4. CASE ThrowLate(o)
  <2>1. PurgeVault(o, "failed") /\ Cur(o) \in doubt'
    BY <1>4, LateAt
  <2> QED
    BY <1>1, <2>1 DEF PurgeVault
<1>5. CASE Crash(o)
  BY <1>5 DEF Crash
<1> QED
  BY <1>2, <1>3, <1>4, <1>5 DEF Works

LEMMA AtHardDelete ==
    ASSUME TypeOK, Control, NEW o \in Calls, Works(o), pc[o] \in {"hardDelete", "hardDeleteRefused"}
    PROVE  /\ OnlyMeta(o) /\ Holds(o)
           /\ \/ pc'[o] \in {"audit", "auditRefused"} /\ meta'[Cur(o)] = None
              \/ pc'[o] \in {"auditPartly", "crashed"} /\ meta' = meta
<1> USE Went, KindFromPlace, StoreFields
       DEF storeVars, callVars, badVars, OnlyValue, OnlyMeta, StoresKept, Holds
<1>1. Cur(o) \in Ids
  BY AtWork DEF Resting, Ended
<1>2. CASE Step(o)
  BY <1>1, <1>2, StepAt DEF HardDelete
<1>3. CASE Throw(o)
  BY <1>3 DEF Throw, StorePlaces, Caught
<1>4. CASE ThrowLate(o)
  BY <1>4, LateAt
<1>5. CASE Crash(o)
  BY <1>5 DEF Crash
<1> QED
  BY <1>2, <1>3, <1>4, <1>5 DEF Works

LEMMA AtRead ==
    ASSUME TypeOK, Control, NEW o \in Calls, Works(o), pc[o] = "read"
    PROVE  /\ StoresKept(o) /\ Holds(o)
           /\ pc'[o] \in {"audit", "auditFailed", "crashed"}
<1> USE Went, KindFromPlace, StoreFields
       DEF storeVars, callVars, badVars, OnlyValue, OnlyMeta, StoresKept, Holds
<1>1. Cur(o) \in Ids
  BY AtWork DEF Resting, Ended
<1>2. CASE Step(o)
  BY <1>1, <1>2, StepAt DEF ReadValue
<1>3. CASE Throw(o)
  BY <1>3 DEF Throw, StorePlaces, Caught
<1>4. CASE ThrowLate(o)
  BY <1>4, LateAt
<1>5. CASE Crash(o)
  BY <1>5 DEF Crash
<1> QED
  BY <1>2, <1>3, <1>4, <1>5 DEF Works

LEMMA AtAudit ==
    ASSUME TypeOK, Control, NEW o \in Calls, Works(o), pc[o] = "audit"
    PROVE  /\ StoresKept(o)
           /\ \/ Passes(o, "audit", "done")
              \/ pc'[o] = "crashed" /\ Holds(o)
<1> USE Went, KindFromPlace, StoreFields
       DEF storeVars, callVars, badVars, OnlyValue, OnlyMeta, StoresKept, Holds
<1>1. Cur(o) \in Ids
  BY AtWork DEF Resting, Ended
<1>2. CASE Step(o)
  <2>1. AuditEnd(o)
    BY <1>2, StepAt
  <2>2. Advance(o, "audit", "done") /\ UNCHANGED <<meta, vault, made, copy>>
    BY <2>1 DEF AuditEnd
  <2> QED
    BY <2>2, Advanced
<1>3. CASE Throw(o)
  BY <1>3 DEF Throw, StorePlaces, Caught
<1>4. CASE ThrowLate(o)
  BY <1>4, LateAt
<1>5. CASE Crash(o)
  BY <1>5 DEF Crash
<1> QED
  BY <1>2, <1>3, <1>4, <1>5 DEF Works

LEMMA AtAuditOther ==
    ASSUME TypeOK, Control, NEW o \in Calls, Works(o), pc[o] \in {"auditDenied", "auditFailed", "auditPartly", "auditRefused"}
    PROVE  /\ StoresKept(o) /\ Holds(o)
           /\ \/ pc'[o] = "crashed"
              \/ pc[o] = "auditDenied"  /\ pc'[o] = "failed"
              \/ pc[o] = "auditFailed"  /\ pc'[o] = IF kind[o] = "Set" THEN "undo" ELSE "failed"
              \/ pc[o] = "auditRefused" /\ pc'[o] = "done"
              \/ /\ pc[o] = "auditPartly" /\ pc'[o] = "partly"
                 /\ Cur(o) \in doubt' \/ <<o, Cur(o), "PartialFailure">> \in audit'
<1> USE Went, KindFromPlace, StoreFields
       DEF storeVars, callVars, badVars, OnlyValue, OnlyMeta, StoresKept, Holds
<1>1. Cur(o) \in Ids
  BY AtWork DEF Resting, Ended
<1>2. CASE Step(o)
  <2>1. AuditEnd(o)
    BY <1>2, StepAt
  <2>2. UNCHANGED <<meta, vault, made, copy, todo>>
    BY <2>1 DEF AuditEnd
  <2>3. CASE pc[o] = "auditPartly"
    <3>1. Record(o, "PartialFailure") /\ Goto(o, "partly")
      BY <2>1, <2>3 DEF AuditEnd
    <3> QED
      BY <2>2, <2>3, <3>1, RecordNotes
  <2>4. CASE pc[o] # "auditPartly"
    BY <2>1, <2>2, <2>4 DEF AuditEnd
  <2> QED
    BY <2>3, <2>4
<1>3. CASE Throw(o)
  BY <1>3 DEF Throw, StorePlaces, Caught
<1>4. CASE ThrowLate(o)
  BY <1>4, LateAt
<1>5. CASE Crash(o)
  BY <1>5 DEF Crash
<1> QED
  BY <1>2, <1>3, <1>4, <1>5 DEF Works


-----------------------------------------------------------------------------
(* Types and lists after a step of a call.                                 *)

LEMMA WorksShape ==
    ASSUME TypeOK, NEW o \in Calls, Works(o)
    PROVE  /\ pc' = [p \in Calls |-> pc'[p]]
           /\ todo' = [p \in Calls |-> todo'[p]]
           /\ made' = [p \in Calls |-> made'[p]]
           /\ copy' = [p \in Calls |-> copy'[p]]
<1> USE DEF TypeOK, storeVars, callVars, badVars, Goto
<1>1. CASE Step(o)
  <2>1. CASE VaultSet(o, "insert") \/ RotateValue(o, "replace") \/ Replace(o, "audit")
    BY <2>1 DEF VaultSet, RotateValue, Replace
  <2>2. CASE PurgeDelete(o, IF KeyVault THEN "purgeVault" ELSE "hardDelete")
    BY <2>2 DEF PurgeDelete
  <2>3. CASE PurgeVault(o, "hardDelete")
    BY <2>3 DEF PurgeVault
  <2>4. CASE Insert(o)
    BY <2>4 DEF Insert
  <2>5. CASE Cleanup(o) \/ StartUndo(o) \/ UndoMeta(o)
    BY <2>5 DEF Cleanup, StartUndo, UndoMeta
  <2>6. CASE UndoValue(o)
    BY <2>6 DEF UndoValue, Advance
  <2>7. CASE Load(o)
    BY <2>7 DEF Load
  <2>8. CASE HardDelete(o) \/ ReadValue(o)
    BY <2>8 DEF HardDelete, ReadValue
  <2>9. CASE AuditEnd(o)
    BY <2>9 DEF AuditEnd, Advance
  <2>10. CASE AuditOrphan(o)
    BY <2>10 DEF AuditOrphan, Advance
  <2> QED
    BY <1>1, <2>1, <2>2, <2>3, <2>4, <2>5, <2>6, <2>7, <2>8, <2>9, <2>10 DEF Step
<1>2. CASE Throw(o)
  BY <1>2 DEF Throw
<1>3. CASE ThrowLate(o)
  BY <1>3 DEF ThrowLate, VaultSet, InsertLate, RotateValue, Replace, PurgeDelete, PurgeVault
<1>4. CASE Crash(o)
  BY <1>4 DEF Crash
<1> QED
  BY <1>1, <1>2, <1>3, <1>4 DEF Works

LEMMA OneLong == ASSUME NEW S, NEW q \in Seq(S), q # <<>>, Len(q) <= 1 PROVE Len(q) = 1
<1>1. Len(q) \in Nat /\ Len(q) # 0
  OBVIOUS
<1>2. \A n \in Nat : n # 0 /\ n <= 1 => n = 1
  OBVIOUS
<1> QED
  BY <1>1, <1>2, Zenon

\* Where lists matter: a set before it created all, and after.
Building == {"vaultSet", "insert", "cleanup", "orphan"}

LEMMA HoldsLists ==
    ASSUME TypeOK, Control, NEW o \in Calls, pc[o] \notin Resting, Alone(o), Holds(o),
           pc'[o] # "idle",
           pc'[o] \in Building => pc[o] \in Building,
           kind[o] = "Set" /\ pc'[o] \in Undoing \cup {"audit"} => pc[o] \in Undoing \cup {"audit"}
    PROVE  ListsAt(o)'
<1>1. ListsAt(o) /\ todo[o] # <<>> /\ todo[o] \in Seq(Ids)
  BY AtWork DEF Control
<1>3. kind[o] # "Set" => Len(todo[o]) = 1
  <2>1. kind[o] # "Set" => Len(todo[o]) <= 1
    BY <1>1 DEF ListsAt
  <2> QED
    BY <1>1, <2>1, OneLong
<1> QED
  BY <1>1, <1>3 DEF ListsAt, Alone, Holds, Ahead, Made, Building, Resting, Ended

LEMMA PassesLists ==
    ASSUME TypeOK, Control, NEW o \in Calls, Alone(o), NEW again, NEW end, Passes(o, again, end),
           \/ again = "audit" /\ end = "done" /\ pc[o] = "audit"
           \/ again = "undoMeta" /\ end = "failed" /\ pc[o] \in Undoing /\ kind[o] = "Set"
    PROVE  ListsAt(o)' /\ todo'[o] \in Seq(Ids)
<1>1. ListsAt(o) /\ todo[o] # <<>> /\ todo[o] \in Seq(Ids)
  BY AtWork DEF Control, Resting, Ended, Undoing
<1>2. /\ Tail(todo[o]) \in Seq(Ids)
      /\ Len(Tail(todo[o])) <= Len(todo[o])
      /\ Listed(Tail(todo[o])) \subseteq Ahead(o)
      /\ Len(todo[o]) # 1 => Tail(todo[o]) # <<>>
  BY <1>1, HeadAndTail DEF Ahead
<1>3. Len(Tail(todo[o])) \in Nat /\ Len(todo[o]) \in Nat
  BY <1>1, <1>2
<1>4. kind[o] # "Set" => Len(Tail(todo[o])) <= 1 /\ made[o] = <<>>
  BY <1>1, <1>2, <1>3 DEF ListsAt
<1>5. kind[o] = "Set" => Listed(Tail(todo[o])) \subseteq Made(o)
  BY <1>1, <1>2 DEF ListsAt
<1>6. pc'[o] = IF Len(todo[o]) = 1 THEN end ELSE again
  BY DEF Passes
<1>7. pc'[o] \notin Resting => todo'[o] # <<>>
  BY <1>2, <1>6 DEF Passes, Resting, Ended
<1> QED
  BY <1>2, <1>4, <1>5, <1>6, <1>7 DEF ListsAt, Alone, Passes, Ahead, Made, Undoing, Ended

LEMMA WorksLists ==
    ASSUME TypeOK, Control, NEW o \in Calls, Works(o)
    PROVE  /\ ListsAt(o)'
           /\ pc'[o] \in PlacesOf(kind[o]) \ {"idle"}
           /\ todo'[o] \in Seq(Ids) /\ made'[o] \in Seq(Ids)
           /\ copy'[o] \in Documents
<1>1. Alone(o) /\ Busy(o)
  BY WorksAlone
<1>2. /\ todo[o] \in Seq(Ids) /\ made[o] \in Seq(Ids) /\ copy[o] \in Documents
      /\ pc[o] \in Places /\ kind[o] \in Kinds
      /\ pc[o] \in PlacesOf(kind[o])
  BY DEF TypeOK, Control
<1>3. ASSUME pc[o] \notin Resting, Holds(o),
             pc'[o] \in PlacesOf(kind[o]) \ {"idle"},
             pc'[o] \in Building => pc[o] \in Building,
             kind[o] = "Set" /\ pc'[o] \in Undoing \cup {"audit"}
                => pc[o] \in Undoing \cup {"audit"}
      PROVE  ListsAt(o)' /\ todo'[o] \in Seq(Ids) /\ made'[o] \in Seq(Ids) /\ copy'[o] \in Documents
  <2>1. ListsAt(o)'
    BY <1>1, <1>3, HoldsLists
  <2> QED
    BY <1>2, <1>3, <2>1 DEF Holds
<1> DEFINE P == PlacesOf(kind[o])
<1> USE KindFromPlace DEF Resting, Ended, Building, Undoing, Creating, PlacesOf, Kinds, Mutations
<1>10. CASE pc[o] \in {"vaultSet", "cleanup", "orphan"}
  <2>1. Holds(o) /\ pc'[o] \in {"insert", "undo", "auditFailed", "orphan", "crashed"}
    BY <1>10, AtVaultSet, AtCleanup, AtOrphan
  <2>2. pc'[o] \in PlacesOf(kind[o]) \ {"idle"}
    BY <1>10, <2>1
  <2> QED
    BY <1>3, <1>10, <2>1, <2>2
<1>11. CASE pc[o] = "insert"
  <2>0. /\ Cur(o) \in Ids /\ todo[o] # <<>> /\ ListsAt(o) /\ Distinct(todo[o])
        /\ kind[o] = "Set"
    BY <1>11, AtWork DEF Control, ListsAt
  <2>1. CASE Holds(o)
    <3>1. pc'[o] \in {"cleanup", "crashed"} \/ made'[o] = Append(made[o], Cur(o))
      BY <1>11, AtInsert
    <3>2. made[o] # Append(made[o], Cur(o))
      <4>1. Len(Append(made[o], Cur(o))) = Len(made[o]) + 1 /\ Len(made[o]) \in Nat
        BY <1>2, <2>0
      <4> QED
        BY <4>1
    <3>3. pc'[o] \in {"cleanup", "crashed"}
      BY <2>1, <3>1, <3>2 DEF Holds
    <3>4. pc'[o] \in PlacesOf(kind[o]) \ {"idle"}
      BY <2>0, <3>3
    <3> QED
      BY <1>3, <1>11, <2>1, <3>3, <3>4
  <2>2. CASE ~Holds(o)
    <3>1. /\ made'[o] = Append(made[o], Cur(o))
          /\ copy'[o] = copy[o]
          /\ \/ Len(todo[o]) = 1 /\ todo'[o] = made'[o] /\ pc'[o] = "audit"
             \/ Len(todo[o]) # 1 /\ todo'[o] = Tail(todo[o]) /\ pc'[o] = "vaultSet"
      BY <1>11, <2>2, AtInsert
    <3>2. /\ made'[o] \in Seq(Ids) /\ made'[o] # <<>>
          /\ Tail(todo[o]) \in Seq(Ids) /\ Distinct(Tail(todo[o]))
          /\ Len(todo[o]) # 1 => Tail(todo[o]) # <<>>
      BY <1>2, <2>0, <3>1, AppendOne, HeadAndTail
    <3>3. pc'[o] \in PlacesOf(kind[o]) \ {"idle"} /\ kind' = kind
      BY <1>1, <2>0, <3>1 DEF Alone
    <3>4. ListsAt(o)'
      BY <2>0, <3>1, <3>2, <3>3 DEF ListsAt, Ahead, Made
    <3> QED
      BY <1>2, <3>1, <3>2, <3>3, <3>4
  <2> QED
    BY <2>1, <2>2
<1>12. CASE pc[o] = "undo"
  <2>1. /\ made'[o] = made[o] /\ copy'[o] = copy[o]
        /\ \/ pc'[o] = "failed" /\ made[o] = <<>> /\ todo'[o] = made[o]
           \/ pc'[o] = "undoMeta" /\ made[o] # <<>> /\ todo'[o] = made[o]
           \/ pc'[o] = "crashed" /\ todo'[o] = todo[o]
    BY <1>12, AtUndo
  <2>2. kind[o] = "Set" /\ kind' = kind
    BY <1>1, <1>12 DEF Alone
  <2>3. ListsAt(o)'
    BY <2>1, <2>2 DEF ListsAt, Ahead, Made
  <2> QED
    BY <1>2, <2>1, <2>2, <2>3
<1>13. CASE pc[o] = "undoMeta"
  <2>1. Holds(o) /\ pc'[o] \in {"undoValue", "undoOrphan", "crashed"}
    BY <1>13, AtUndoMeta
  <2>2. pc'[o] \in PlacesOf(kind[o]) \ {"idle"}
    BY <1>13, <2>1
  <2> QED
    BY <1>3, <1>13, <2>1, <2>2
<1>14. CASE pc[o] \in {"undoValue", "undoOrphan"}
  <2>0. kind[o] = "Set"
    BY <1>14
  <2>1. CASE Passes(o, "undoMeta", "failed")
    <3>1. ListsAt(o)' /\ todo'[o] \in Seq(Ids)
      BY <1>1, <1>14, <2>0, <2>1, PassesLists
    <3> QED
      BY <1>2, <2>0, <2>1, <3>1 DEF Passes
  <2>2. CASE ~Passes(o, "undoMeta", "failed")
    <3>1. Holds(o) /\ pc'[o] \in {"undoOrphan", "crashed"}
      BY <1>14, <2>2, AtUndoValue, AtUndoOrphan
    <3>2. pc'[o] \in PlacesOf(kind[o]) \ {"idle"}
      BY <2>0, <3>1
    <3> QED
      BY <1>3, <1>14, <3>1, <3>2
  <2> QED
    BY <2>1, <2>2
<1>15. CASE pc[o] = "load"
  <2>1. /\ todo'[o] = todo[o] /\ made'[o] = made[o]
        /\ copy'[o] = meta[Cur(o)] \/ copy'[o] = copy[o]
        /\ \/ pc'[o] \in {Afterwards(kind[o]), "failed", "crashed"}
           \/ kind[o] = "GetValue" /\ pc'[o] = "auditDenied"
    BY <1>15, AtLoad
  <2>2. Cur(o) \in Ids
    BY <1>15, AtWork
  <2>3. pc'[o] \in PlacesOf(kind[o]) \ {"idle"} /\ kind[o] # "Set" /\ pc'[o] \notin Building
    BY <1>2, <1>15, <2>1 DEF Afterwards
  <2>4. copy'[o] \in Documents
    BY <1>2, <2>1, <2>2 DEF TypeOK
  <2>5. ListsAt(o) /\ todo[o] # <<>> /\ kind' = kind
    BY <1>1, <1>15 DEF Control, ListsAt, Alone
  <2>6. Len(todo[o]) = 1 /\ made[o] = <<>>
    <3>1. Len(todo[o]) <= 1 /\ made[o] = <<>>
      BY <2>3, <2>5 DEF ListsAt
    <3> QED
      BY <1>2, <2>5, <3>1, OneLong
  <2>7. ListsAt(o)'
    BY <2>1, <2>3, <2>5, <2>6 DEF ListsAt, Ahead, Made
  <2> QED
    BY <1>2, <2>1, <2>3, <2>4, <2>7
<1>16. CASE pc[o] \in {"rotate", "replace"}
  <2>1. /\ Holds(o)
        /\ \/ pc'[o] \in {"replace", "failed", "crashed", "audit"}
           \/ kind[o] = "Rotate" /\ pc'[o] = "auditPartly"
    <3>1. CASE pc[o] = "rotate"
      BY <3>1, AtRotate
    <3>2. CASE pc[o] = "replace"
      BY <3>2, AtReplace
    <3> QED
      BY <1>16, <3>1, <3>2
  <2>2. pc'[o] \in PlacesOf(kind[o]) \ {"idle"}
    BY <1>16, <2>1
  <2> QED
    BY <1>3, <1>16, <2>1, <2>2
<1>17. CASE pc[o] \in {"purgeDelete", "purgeVault", "hardDelete", "hardDeleteRefused"}
  <2>1. Holds(o) /\ pc'[o] \in {"purgeVault", "hardDelete", "hardDeleteRefused", "failed",
                                "auditFailed", "crashed", "audit", "auditRefused", "auditPartly"}
    BY <1>17, AtPurgeDelete, AtPurgeVault, AtHardDelete
  <2>2. pc'[o] \in PlacesOf(kind[o]) \ {"idle"} /\ kind[o] # "Set"
    BY <1>17, <2>1
  <2> QED
    BY <1>3, <1>17, <2>1, <2>2
<1>18. CASE pc[o] = "read"
  <2>1. Holds(o) /\ pc'[o] \in {"audit", "auditFailed", "crashed"}
    BY <1>18, AtRead
  <2>2. pc'[o] \in PlacesOf(kind[o]) \ {"idle"} /\ kind[o] # "Set"
    BY <1>18, <2>1
  <2> QED
    BY <1>3, <1>18, <2>1, <2>2
<1>19. CASE pc[o] = "audit"
  <2>1. CASE Passes(o, "audit", "done")
    <3>1. ListsAt(o)' /\ todo'[o] \in Seq(Ids)
      BY <1>1, <1>19, <2>1, PassesLists
    <3>2. pc'[o] \in {"audit", "done"}
      BY <2>1 DEF Passes
    <3> QED
      BY <1>2, <1>19, <2>1, <3>1, <3>2 DEF Passes
  <2>2. CASE ~Passes(o, "audit", "done")
    <3>1. Holds(o) /\ pc'[o] = "crashed"
      BY <1>19, <2>2, AtAudit
    <3>2. pc'[o] \in PlacesOf(kind[o]) \ {"idle"}
      BY <3>1
    <3> QED
      BY <1>3, <1>19, <3>1, <3>2
  <2> QED
    BY <2>1, <2>2
<1>20. CASE pc[o] \in {"auditDenied", "auditFailed", "auditPartly", "auditRefused"}
  <2>1. /\ Holds(o)
        /\ \/ pc'[o] \in {"failed", "crashed"}
           \/ kind[o] = "Set" /\ pc'[o] = "undo"
           \/ pc[o] = "auditPartly" /\ pc'[o] = "partly"
           \/ pc[o] = "auditRefused" /\ pc'[o] = "done"
    BY <1>20, AtAuditOther
  <2>2. pc'[o] \in PlacesOf(kind[o]) \ {"idle"}
    BY <1>20, <2>1
  <2> QED
    BY <1>3, <1>20, <2>1, <2>2
<1> QED
  BY <1>1, <1>2, <1>10, <1>11, <1>12, <1>13, <1>14, <1>15, <1>16, <1>17, <1>18, <1>19, <1>20
  DEF Busy, Places, StorePlaces

LEMMA WorksStores ==
    ASSUME TypeOK, Control, NEW o \in Calls, Works(o)
    PROVE  \/ StoresKept(o)
           \/ pc[o] \notin Resting /\ (OnlyMeta(o) \/ OnlyValue(o))
<1>1. Busy(o) /\ pc[o] \in Places
  BY WorksAlone DEF TypeOK
<1>2. CASE pc[o] \in Creating
  BY <1>2, AtVaultSet, AtInsert, AtCleanup, AtOrphan, AtUndo, AtUndoMeta, AtUndoValue, AtUndoOrphan
  DEF Creating, Resting, Ended
<1>3. CASE pc[o] \in {"load", "rotate", "replace", "read", "audit"}
  BY <1>3, AtLoad, AtRotate, AtReplace, AtRead, AtAudit DEF Resting, Ended
<1>4. CASE pc[o] \in {"purgeDelete", "purgeVault", "hardDelete", "hardDeleteRefused"}
  BY <1>4, AtPurgeDelete, AtPurgeVault, AtHardDelete DEF Resting, Ended
<1>5. CASE pc[o] \in {"auditDenied", "auditFailed", "auditPartly", "auditRefused"}
  BY <1>5, AtAuditOther
<1> QED
  BY <1>1, <1>2, <1>3, <1>4, <1>5 DEF Busy, Places, StorePlaces, Ended, Creating

\* A step leaves every secret as it is but the one at hand.
LEMMA WorksElsewhere ==
    ASSUME TypeOK, Control, NEW o \in Calls, Works(o)
    PROVE  /\ meta' \in [Ids -> Documents]
           /\ vault' \in [Ids -> [state : {"none", "live", "deleted"}, writes : Nat]]
           /\ \A t \in Ids : t # Cur(o) \/ pc[o] \in Resting
                 => meta'[t] = meta[t] /\ vault'[t] = vault[t]
BY WorksStores, StoreFields DEF StoresKept, OnlyMeta, OnlyValue

LEMMA WorksCounts ==
    ASSUME TypeOK, NEW o \in Calls, Works(o)
    PROVE  faults' \in Nat /\ crashes' \in Nat
<1> USE DEF TypeOK, badVars
<1>1. CASE AuditEnd(o)
  BY <1>1 DEF AuditEnd, Record
<1>2. CASE AuditOrphan(o)
  BY <1>2 DEF AuditOrphan, Record
<1>3. CASE Step(o) /\ ~AuditEnd(o) /\ ~AuditOrphan(o)
  BY <1>3 DEF Step, Insert, Cleanup, StartUndo, UndoMeta, UndoValue, Load, HardDelete, ReadValue
<1>4. CASE Throw(o)
  BY <1>4 DEF Throw
<1>5. CASE ThrowLate(o)
  BY <1>5 DEF ThrowLate
<1>6. CASE Crash(o)
  BY <1>6 DEF Crash
<1> QED
  BY <1>1, <1>2, <1>3, <1>4, <1>5, <1>6 DEF Works

LEMMA WorksTypes ==
    ASSUME TypeOK, Control, NEW o \in Calls, Works(o)
    PROVE  TypeOK'
<1>1. Alone(o) /\ Notes(o)
  BY WorksAlone, WorksNotes
<1>2. /\ pc'[o] \in Places
      /\ todo'[o] \in Seq(Ids) /\ made'[o] \in Seq(Ids) /\ copy'[o] \in Documents
  BY WorksLists, PlaceNames DEF TypeOK
<1>3. /\ pc' \in [Calls -> Places] /\ copy' \in [Calls -> Documents]
      /\ todo' \in [Calls -> Seq(Ids)] /\ made' \in [Calls -> Seq(Ids)]
  <2>1. \A p \in Calls : /\ pc'[p] \in Places /\ copy'[p] \in Documents
                         /\ todo'[p] \in Seq(Ids) /\ made'[p] \in Seq(Ids)
    BY <1>1, <1>2 DEF Alone, TypeOK
  <2> QED
    BY <2>1, WorksShape
<1>4. pc[o] \notin Resting => Cur(o) \in Ids
  BY AtWork
<1>5. audit' \subseteq Calls \X Ids \X {"Success", "Failed", "Denied", "PartialFailure", "Orphan"}
  BY <1>1, <1>4 DEF Notes, TypeOK
<1>6. doubt' \subseteq Ids
  BY <1>1, <1>4 DEF Notes, TypeOK
<1>7. kind' \in [Calls -> Kinds] /\ taken' \subseteq Ids
  BY <1>1 DEF Alone, TypeOK
<1> QED
  BY <1>3, <1>5, <1>6, <1>7, WorksElsewhere, WorksCounts DEF TypeOK

LEMMA WorksControl ==
    ASSUME TypeOK, Control, NEW o \in Calls, Works(o)
    PROVE  Control'
<1>1. Alone(o)
  BY WorksAlone
<1>2. ASSUME NEW p \in Calls
      PROVE  /\ pc'[p] \in PlacesOf(kind'[p])
             /\ pc'[p] = "idle" => kind'[p] = "GetValue"
             /\ ListsAt(p)'
  <2>1. CASE p = o
    BY <1>1, <2>1, WorksLists DEF Alone
  <2>2. CASE p # o
    <3>1. /\ pc'[p] = pc[p] /\ todo'[p] = todo[p] /\ made'[p] = made[p] /\ kind'[p] = kind[p]
      BY <1>1, <2>2 DEF Alone
    <3> QED
      BY <3>1 DEF Control, ListsAt, Ahead, Made
  <2> QED
    BY <2>1, <2>2
<1> QED
  BY <1>2 DEF Control

\* A rotation is recorded as a partial failure only as it ends.
LEMMA PartlyNotes ==
    ASSUME TypeOK, Control, NEW o \in Calls, Works(o), NEW p, NEW s,
           <<p, s, "PartialFailure">> \in audit' \ audit
    PROVE  /\ p = o /\ s = Cur(o)
           /\ pc[o] \in {"auditPartly", "auditRefused"}
           /\ pc'[o] \in {"partly", "done"}
<1>1. /\ p = o /\ s = Cur(o) /\ pc[o] \in {"auditPartly", "auditRefused"}
  BY WorksNotes DEF Notes
<1>2. ~Crash(o)
  BY DEF Crash
<1>3. pc'[o] # "crashed"
  <2>1. CASE Step(o)
    <3>1. AuditEnd(o)
      BY <1>1, <2>1, StepAt
    <3> QED
      BY <1>1, <3>1, Went DEF AuditEnd
  <2>2. ~Throw(o) /\ ~ThrowLate(o)
    BY <1>1, LateAt DEF Throw, StorePlaces
  <2> QED
    BY <1>2, <2>1, <2>2 DEF Works
<1> QED
  BY <1>1, <1>3, AtAuditOther

LEMMA WorksPartly ==
    ASSUME TypeOK, Control, PartlyEnded, NEW o \in Calls, Works(o)
    PROVE  PartlyEnded'
<1>1. Alone(o) /\ Busy(o)
  BY WorksAlone
<1>2. ASSUME NEW p \in Calls, NEW s \in Ids, <<p, s, "PartialFailure">> \in audit'
      PROVE  pc'[p] \in {"partly", "done"}
  <2>1. CASE <<p, s, "PartialFailure">> \in audit
    <3>1. pc[p] \in {"partly", "done"}
      BY <2>1 DEF PartlyEnded
    <3> QED
      BY <1>1, <3>1 DEF Alone, Busy, Ended
  <2>2. CASE <<p, s, "PartialFailure">> \notin audit
    BY <1>2, <2>2, PartlyNotes
  <2> QED
    BY <2>1, <2>2
<1> QED
  BY <1>2 DEF PartlyEnded

LEMMA WorksOne ==
    ASSUME TypeOK, OneMutation, NEW o \in Calls, Works(o)
    PROVE  OneMutation'
<1>1. Alone(o) /\ Busy(o)
  BY WorksAlone
<1>2. \A p \in Calls : Busy(p)' => Busy(p)
  BY <1>1 DEF Alone, Busy
<1> QED
  BY <1>1, <1>2 DEF OneMutation, Alone

\* While mutations come one after the other, who meets a mutation reads.
LEMMA OtherReads ==
    ASSUME TypeOK, Control, OneMutation, Serial, NEW o \in Calls, NEW p \in Calls, p # o,
           Works(o), Busy(p), kind[p] # "GetValue"
    PROVE  kind[o] = "GetValue" /\ StoresKept(o) /\ meta' = meta /\ vault' = vault
<1>1. Busy(o) /\ pc[o] \in PlacesOf(kind[o])
  BY WorksAlone DEF Control
<1>2. kind[o] = "GetValue"
  BY <1>1 DEF OneMutation
<1>3. pc[o] \in {"load", "read", "audit", "auditDenied", "auditFailed"}
  BY <1>1, <1>2 DEF PlacesOf, Busy, Ended
<1>4. StoresKept(o)
  BY <1>3, AtLoad, AtRead, AtAudit, AtAuditOther
<1> QED
  BY <1>2, <1>4 DEF StoresKept

-----------------------------------------------------------------------------
(* What a step can do to a secret.                                         *)

LEMMA WorksMoves ==
    ASSUME TypeOK, Control, NEW o \in Calls, Works(o)
    PROVE  \/ todo'[o] = todo[o] /\ made'[o] = made[o]
           \/ /\ todo[o] # <<>> /\ pc[o] \notin Resting
              /\ todo'[o] = Tail(todo[o]) /\ made'[o] = made[o]
           \/ pc[o] = "undo" /\ todo'[o] = made[o] /\ made'[o] = made[o]
           \/ /\ pc[o] = "insert" /\ made'[o] = Append(made[o], Cur(o))
              /\ \/ todo'[o] = Tail(todo[o])
                 \/ todo'[o] = made'[o] /\ Len(todo[o]) = 1
<1>1. Busy(o) /\ pc[o] \in Places
  BY WorksAlone DEF TypeOK
<1>2. pc[o] \notin Resting => todo[o] # <<>>
  BY AtWork
<1>3. CASE pc[o] = "insert"
  BY <1>3, AtInsert DEF Holds
<1>4. CASE pc[o] \in {"vaultSet", "cleanup", "orphan", "undo", "undoMeta"}
  BY <1>4, AtVaultSet, AtCleanup, AtOrphan, AtUndo, AtUndoMeta DEF Holds
<1>5. CASE pc[o] \in {"undoValue", "undoOrphan"}
  BY <1>2, <1>5, AtUndoValue, AtUndoOrphan DEF Holds, Passes, Resting, Ended
<1>6. CASE pc[o] \in {"load", "rotate", "replace", "read"}
  BY <1>6, AtLoad, AtRotate, AtReplace, AtRead DEF Holds
<1>7. CASE pc[o] = "audit"
  BY <1>2, <1>7, AtAudit DEF Holds, Passes, Resting, Ended
<1>8. CASE pc[o] \in {"purgeDelete", "purgeVault", "hardDelete", "hardDeleteRefused"}
  BY <1>8, AtPurgeDelete, AtPurgeVault, AtHardDelete DEF Holds
<1>9. CASE pc[o] \in {"auditDenied", "auditFailed", "auditPartly", "auditRefused"}
  BY <1>9, AtAuditOther DEF Holds
<1> QED
  BY <1>1, <1>3, <1>4, <1>5, <1>6, <1>7, <1>8, <1>9 DEF Busy, Places, StorePlaces, Ended

\* A call takes no secret up after it has begun.
LEMMA WorksIds ==
    ASSUME TypeOK, Control, NEW o \in Calls, Works(o)
    PROVE  /\ Listed(todo'[o]) \cup Listed(made'[o]) \subseteq Ahead(o) \cup Made(o)
           /\ kind[o] # "Set" => Listed(todo'[o]) \subseteq Ahead(o)
           /\ Made(o) \subseteq Listed(made'[o])
<1>1. todo[o] \in Seq(Ids) /\ made[o] \in Seq(Ids)
  BY DEF TypeOK
<1>2. CASE todo'[o] = todo[o] /\ made'[o] = made[o]
  BY <1>2 DEF Ahead, Made
<1>3. CASE todo[o] # <<>> /\ todo'[o] = Tail(todo[o]) /\ made'[o] = made[o]
  BY <1>1, <1>3, HeadAndTail DEF Ahead, Made
<1>4. CASE pc[o] = "undo" /\ todo'[o] = made[o] /\ made'[o] = made[o]
  BY <1>4, KindFromPlace DEF Creating, Ahead, Made
<1>5. CASE /\ pc[o] = "insert" /\ made'[o] = Append(made[o], Cur(o))
           /\ todo'[o] = Tail(todo[o]) \/ todo'[o] = made'[o]
  <2>1. todo[o] # <<>> /\ Cur(o) \in Ids /\ kind[o] = "Set"
    BY <1>5, AtWork, KindFromPlace DEF Resting, Ended, Creating
  <2>2. Ahead(o) = {Cur(o)} \cup Listed(Tail(todo[o]))
    BY <1>1, <2>1, HeadAndTail DEF Ahead, Cur
  <2>3. Listed(made'[o]) = Made(o) \cup {Cur(o)}
    BY <1>1, <1>5, <2>1, AppendOne DEF Made
  <2> QED
    BY <1>5, <2>1, <2>2, <2>3
<1> QED
  BY <1>2, <1>3, <1>4, <1>5, WorksMoves

LEMMA WhoCreates ==
    ASSUME TypeOK, Control, NEW o \in Calls, Works(o), NEW t \in Ids, ~Exists(t), pc[o] # "insert"
    PROVE  ~Exists(t)'
<1>1. Busy(o) /\ pc[o] \in Places
  BY WorksAlone DEF TypeOK
<1>2. None.status = "none"
  BY StoreFields
<1>3. CASE StoresKept(o) \/ OnlyValue(o)
  BY <1>3 DEF StoresKept, OnlyValue, Exists
<1>4. CASE t # Cur(o)
  BY <1>4, WorksElsewhere DEF Exists
<1>5. CASE t = Cur(o) /\ pc[o] \in {"undoMeta", "replace", "hardDelete", "hardDeleteRefused"}
  <2>1. meta'[t] = None \/ meta'[t] = meta[t]
    BY <1>5, AtUndoMeta, AtReplace, AtHardDelete
  <2> QED
    BY <1>2, <2>1 DEF Exists
<1>6. CASE pc[o] \notin {"undoMeta", "replace", "hardDelete", "hardDeleteRefused"}
  <2>1. CASE pc[o] \in {"vaultSet", "cleanup", "orphan", "undo", "undoValue", "undoOrphan"}
    BY <1>3, <2>1, AtVaultSet, AtCleanup, AtOrphan, AtUndo, AtUndoValue, AtUndoOrphan
  <2>2. CASE pc[o] \in {"load", "rotate", "read", "audit", "purgeDelete", "purgeVault"}
    BY <1>3, <2>2, AtLoad, AtRotate, AtRead, AtAudit, AtPurgeDelete, AtPurgeVault
  <2>3. CASE pc[o] \in {"auditDenied", "auditFailed", "auditPartly", "auditRefused"}
    BY <1>3, <2>3, AtAuditOther
  <2> QED
    BY <1>1, <1>6, <2>1, <2>2, <2>3 DEF Busy, Places, StorePlaces, Ended
<1> QED
  BY <1>4, <1>5, <1>6

LEMMA WhoRevives ==
    ASSUME TypeOK, Control, NEW o \in Calls, Works(o), NEW t \in Ids, ~Live(t),
           pc[o] \notin {"vaultSet", "rotate"}
    PROVE  ~Live(t)'
<1>1. Busy(o) /\ pc[o] \in Places
  BY WorksAlone DEF TypeOK
<1>2. CASE StoresKept(o) \/ OnlyMeta(o)
  BY <1>2 DEF StoresKept, OnlyMeta, Live
<1>3. CASE t # Cur(o)
  BY <1>3, WorksElsewhere DEF Live
<1>4. CASE t = Cur(o) /\ pc[o] \in {"cleanup", "undoValue", "purgeDelete", "purgeVault"}
  <2>1. \/ vault'[t].state # "live"
        \/ vault' = vault
        \/ vault'[t].state = "live" <=> vault[t].state = "live"
    BY <1>4, AtCleanup, AtUndoValue, AtPurgeDelete, AtPurgeVault
  <2> QED
    BY <2>1 DEF Live
<1>5. CASE pc[o] \in {"insert", "orphan", "undo", "undoMeta", "undoOrphan"}
  BY <1>2, <1>5, AtInsert, AtOrphan, AtUndo, AtUndoMeta, AtUndoOrphan
<1>6. CASE pc[o] \in {"load", "replace", "read", "audit", "hardDelete", "hardDeleteRefused"}
  BY <1>2, <1>6, AtLoad, AtReplace, AtRead, AtAudit, AtHardDelete
<1>7. CASE pc[o] \in {"auditDenied", "auditFailed", "auditPartly", "auditRefused"}
  BY <1>2, <1>7, AtAuditOther
<1> QED
  BY <1>1, <1>3, <1>4, <1>5, <1>6, <1>7 DEF Busy, Places, StorePlaces, Ended

LEMMA UntouchedStays ==
    ASSUME TypeOK, Control, NEW o \in Calls, Works(o), NEW t \in Ids, Untouched(t),
           meta'[t] = meta[t]
    PROVE  Untouched(t)'
<1>1. Alone(o)
  BY WorksAlone
<1>2. ASSUME NEW p \in Calls, kind'[p] # "Set" PROVE t \notin Ahead(p)'
  <2>1. kind[p] # "Set" /\ t \notin Ahead(p)
    BY <1>1, <1>2 DEF Alone, Untouched
  <2>2. Listed(todo'[p]) \subseteq Ahead(p)
    BY <1>1, <2>1, WorksIds DEF Alone, Ahead
  <2> QED
    BY <2>1, <2>2 DEF Ahead
<1>3. ASSUME NEW p \in Calls, <<p, t, "PartialFailure">> \in audit' PROVE FALSE
  <2>1. <<p, t, "PartialFailure">> \in audit' \ audit
    BY <1>3 DEF Untouched
  <2>2. t = Cur(o) /\ pc[o] \in {"auditPartly", "auditRefused"}
    BY <2>1, PartlyNotes
  <2>3. kind[o] # "Set" /\ Cur(o) \in Ahead(o)
    BY <2>2, KindFromPlace, AtWork DEF Resting, Ended
  <2> QED
    BY <2>2, <2>3 DEF Untouched
<1>4. ~Exists(t)'
  BY DEF Untouched, Exists
<1> QED
  BY <1>2, <1>3, <1>4 DEF Untouched

\* A fresh secret is left alone by every call that does not create it.
LEMMA FreshStays ==
    ASSUME TypeOK, Control, NEW o \in Calls, Works(o), NEW t \in Ids, Fresh(t),
           kind[o] = "Set" => t # Cur(o) \/ pc[o] \in Resting
    PROVE  Fresh(t)'
<1>1. t # Cur(o) \/ pc[o] \in Resting
  <2>1. CASE kind[o] # "Set" /\ pc[o] \notin Resting
    BY <2>1, AtWork DEF Fresh, Untouched
  <2> QED
    BY <2>1
<1>2. meta'[t] = meta[t] /\ vault'[t] = vault[t]
  BY <1>1, WorksElsewhere
<1>3. Untouched(t)'
  BY <1>2, UntouchedStays DEF Fresh
<1> QED
  BY <1>2, <1>3 DEF Fresh

LEMMA FreshGone == ASSUME NEW t, Fresh(t) PROVE Gone(t) /\ ~Exists(t) /\ ~Live(t) /\ Untouched(t)
BY DEF Fresh, Untouched, Gone, Live

\* What was told stays told.
LEMMA ToldStays ==
    ASSUME TypeOK, Control, LoadedHolds, NEW o \in Calls, Works(o), NEW p \in Calls, NEW t \in Ids,
           Told(p, t), t # Cur(o) \/ pc[o] \notin {"vaultSet", "insert"}
    PROVE  Told(p, t)'
<1>1. doubt \subseteq doubt' /\ audit \subseteq audit'
  BY WorksNotes DEF Notes
<1>2. CASE Gone(t)
  <2>1. CASE t # Cur(o)
    BY <1>2, <2>1, WorksElsewhere DEF Gone, Told, Exists, Live
  <2>2. CASE t = Cur(o)
    <3>1. ~Exists(t)'
      BY <1>2, <2>2, WhoCreates DEF Gone
    <3>2. Serial => pc[o] # "rotate"
      BY <1>2, <2>2 DEF LoadedHolds, LoadedAt, AtHand, Gone
    <3>3. Serial => ~Live(t)'
      BY <1>2, <2>2, <3>2, WhoRevives DEF Gone
    <3> QED
      BY <3>1, <3>3 DEF Told, Gone
  <2> QED
    BY <2>1, <2>2
<1> QED
  BY <1>1, <1>2 DEF Told

LEMMA WorksApart ==
    ASSUME TypeOK, Control, IdsApart, NEW o \in Calls, Works(o)
    PROVE  IdsApart'
<1>1. Alone(o)
  BY WorksAlone
<1>2. ASSUME NEW s \in Ids \ taken' PROVE Fresh(s)'
  <2>1. s \in Ids \ taken /\ Fresh(s)
    BY <1>1, <1>2 DEF Alone, IdsApart
  <2>2. kind[o] = "Set" => s # Cur(o) \/ pc[o] \in Resting
    BY <2>1, AtWork DEF IdsApart
  <2> QED
    BY <2>1, <2>2, FreshStays
<1>3. ASSUME NEW p \in Calls
      PROVE  (Ahead(p) \cup Made(p))' \subseteq Ahead(p) \cup Made(p)
  <2>1. CASE p = o
    BY <2>1, WorksIds DEF Ahead, Made
  <2>2. CASE p # o
    BY <1>1, <2>2 DEF Alone, Ahead, Made
  <2> QED
    BY <2>1, <2>2
<1>4. ASSUME NEW p \in Calls, kind'[p] = "Set" PROVE (Ahead(p) \cup Made(p))' \subseteq taken'
  BY <1>1, <1>3, <1>4 DEF Alone, IdsApart
<1>5. ASSUME NEW p \in Calls, NEW q \in Calls, kind'[p] = "Set", kind'[q] = "Set", p # q
      PROVE  ((Ahead(p) \cup Made(p)) \cap (Ahead(q) \cup Made(q)))' = {}
  <2>1. (Ahead(p) \cup Made(p)) \cap (Ahead(q) \cup Made(q)) = {}
    BY <1>1, <1>5 DEF Alone, IdsApart
  <2>2. /\ (Ahead(p) \cup Made(p))' \subseteq Ahead(p) \cup Made(p)
        /\ (Ahead(q) \cup Made(q))' \subseteq Ahead(q) \cup Made(q)
    BY <1>3
  <2> QED
    BY <2>1, <2>2
<1> QED
  BY <1>2, <1>4, <1>5 DEF IdsApart

-----------------------------------------------------------------------------
(* What a SetManyAsync has done so far.                                    *)

\* No other call touches the secrets of a set.
LEMMA SetElsewhere ==
    ASSUME TypeOK, Control, IdsApart, SetsRight, OneMutation, LoadedHolds,
           NEW o \in Calls, Works(o), NEW p \in Calls, p # o, kind[p] = "Set"
    PROVE  SetAt(p)'
<1>1. /\ pc'[p] = pc[p] /\ todo'[p] = todo[p] /\ made'[p] = made[p]
      /\ SetAt(p)
  BY WorksAlone DEF Alone, SetsRight
<1>2. ASSUME NEW t \in Ahead(p) \cup Made(p)
      PROVE  t \in Ids /\ (kind[o] = "Set" => t # Cur(o) \/ pc[o] \in Resting)
  <2>1. t \in taken /\ taken \subseteq Ids
    BY DEF IdsApart, TypeOK
  <2>2. kind[o] = "Set" => t \notin Ahead(o)
    BY DEF IdsApart
  <2> QED
    BY <2>1, <2>2, AtWork
<1>3. ASSUME NEW t \in Ahead(p) \cup Made(p), Fresh(t) PROVE Fresh(t)'
  BY <1>2, <1>3, FreshStays
<1>4. ASSUME NEW t \in Ahead(p) \cup Made(p), Untouched(t)
      PROVE  Untouched(t)' /\ vault'[t] = vault[t]
  <2>1. kind[o] # "Set" /\ pc[o] \notin Resting => t # Cur(o)
    BY <1>4, AtWork DEF Untouched
  <2>2. meta'[t] = meta[t] /\ vault'[t] = vault[t]
    BY <1>2, <2>1, WorksElsewhere
  <2> QED
    BY <1>2, <1>4, <2>2, UntouchedStays
<1>5. ASSUME NEW t \in Ahead(p) \cup Made(p), Told(p, t) PROVE Told(p, t)'
  <2>1. pc[o] \in {"vaultSet", "insert"} => t # Cur(o)
    BY <1>2, KindFromPlace DEF Creating, Resting, Ended
  <2> QED
    BY <1>2, <1>5, <2>1, ToldStays
<1>6. ASSUME NEW t \in Ahead(p) \cup Made(p), ~Exists(t), pc[p] \in Undoing PROVE ~Exists(t)'
  <2>1. pc[o] = "insert" => t # Cur(o)
    BY <1>2, KindFromPlace DEF Creating, Resting, Ended
  <2>2. t # Cur(o) => meta'[t] = meta[t]
    BY <1>2, WorksElsewhere
  <2> QED
    BY <1>2, <1>6, <2>1, <2>2, WhoCreates DEF Exists
<1>7. ASSUME Serial, pc[p] \in {"vaultSet", "insert", "audit"} PROVE meta' = meta
  BY <1>7, OtherReads DEF Busy, Ended
<1>8. pc[p] \in {"insert", "cleanup", "undoValue"} => Cur(p) \in Ahead(p)
  BY AtWork DEF Resting, Ended
<1>9. pc[p] \in {"insert", "cleanup", "orphan"} => Listed(Tail(todo[p])) \subseteq Ahead(p)
  <2> SUFFICES ASSUME pc[p] \in {"insert", "cleanup", "orphan"}
               PROVE  Listed(Tail(todo[p])) \subseteq Ahead(p)
    OBVIOUS
  <2>1. todo[p] \in Seq(Ids) /\ todo[p] # <<>>
    BY AtWork DEF Resting, Ended
  <2> QED
    BY <2>1, HeadAndTail DEF Ahead
<1>10. doubt \subseteq doubt'
  BY WorksNotes DEF Notes
<1>11. /\ Ahead(p)' = Ahead(p) /\ Made(p)' = Made(p) /\ AtHand(p)' = AtHand(p)
       /\ Listed(Tail(todo'[p])) = Listed(Tail(todo[p]))
       /\ pc[p] \in {"insert", "cleanup", "undoValue"} => AtHand(p) \subseteq Ahead(p)
  BY <1>1, <1>8 DEF Ahead, Made, Cur, AtHand
<1>12. /\ (pc[p] = "vaultSet" => \A t \in Ahead(p) : Fresh(t))'
       /\ (pc[p] \in {"insert", "cleanup", "orphan"} => \A t \in Listed(Tail(todo[p])) : Fresh(t))'
  BY <1>1, <1>3, <1>9, <1>11 DEF SetAt
<1>13. (pc[p] = "insert" => \A s \in AtHand(p) :
                               Untouched(s) /\ vault[s] = [state |-> "live", writes |-> 1])'
  BY <1>1, <1>4, <1>11 DEF SetAt
<1>14. (pc[p] = "cleanup" => \A s \in AtHand(p) : s \in doubt \/ Untouched(s))'
  BY <1>1, <1>4, <1>10, <1>11 DEF SetAt
<1>15. /\ (pc[p] \in {"auditFailed", "undo"} => \A t \in Ahead(p) : Told(p, t))'
       /\ (pc[p] \in Undoing => \A t \in Made(p) \ Ahead(p) : Told(p, t))'
       /\ (pc[p] = "failed" => \A t \in Made(p) : Told(p, t))'
  BY <1>1, <1>5, <1>11 DEF SetAt, Undoing
<1>16. (pc[p] = "undoValue" => \A s \in AtHand(p) : ~Exists(s))'
  BY <1>1, <1>6, <1>11 DEF SetAt, Undoing
<1>17. (Serial /\ pc[p] \in {"vaultSet", "insert", "audit"} => \A t \in Made(p) : Exists(t))'
  BY <1>1, <1>7, <1>11 DEF SetAt, Exists
<1> QED
  BY <1>12, <1>13, <1>14, <1>15, <1>16, <1>17 DEF SetAt

LEMMA SetHere ==
    ASSUME TypeOK, Control, IdsApart, SetsRight, LoadedHolds, NEW o \in Calls, Works(o), kind[o] = "Set"
    PROVE  SetAt(o)'
<1>a. PICK s : s = Cur(o)
  OBVIOUS
<1>b. PICK rest : rest = Listed(Tail(todo[o]))
  OBVIOUS
<1>1. /\ SetAt(o) /\ Busy(o)
      /\ todo[o] \in Seq(Ids) /\ made[o] \in Seq(Ids)
      /\ pc[o] \in PlacesOf("Set") \ ({"idle"} \cup Ended)
  BY WorksAlone DEF SetsRight, TypeOK, Control, Busy
<1>2. AtHand(o) = {s} /\ Ahead(o) \subseteq Ids /\ Made(o) \subseteq Ids
  BY <1>a, <1>1, ListedType DEF AtHand, Ahead, Made
<1>3. pc[o] # "undo" => /\ todo[o] # <<>> /\ s \in Ids /\ Ahead(o) = {s} \cup rest
  BY <1>a, <1>b, <1>1, AtWork, HeadAndTail DEF Resting, Cur, Ahead
<1>4. /\ pc[o] \in {"vaultSet", "insert", "cleanup", "orphan"} => Distinct(todo[o]) /\ s \notin rest
      /\ pc[o] \in Undoing \cup {"audit"} => Ahead(o) \subseteq Made(o)
  BY <1>a, <1>b, <1>1, <1>3, HeadAndTail DEF Control, ListsAt, Cur
<1>5. ASSUME NEW t \in Ids, t # s, Fresh(t) PROVE Fresh(t)'
  BY <1>a, <1>5, FreshStays
<1>6. ASSUME NEW t \in Ids, t # s \/ pc[o] \notin {"vaultSet", "insert"}, Told(o, t) PROVE Told(o, t)'
  BY <1>a, <1>6, ToldStays
<1>7. doubt \subseteq doubt' /\ audit \subseteq audit'
  BY WorksNotes DEF Notes
<1>8. ASSUME NEW t, Fresh(t)' PROVE Told(o, t)'
  BY <1>8 DEF Fresh, Untouched, Told, Gone, Live
<1>9. ASSUME Holds(o)
      PROVE  /\ Ahead(o)' = Ahead(o) /\ Made(o)' = Made(o) /\ AtHand(o)' = {s}
             /\ Listed(Tail(todo[o]))' = rest
  BY <1>a, <1>b, <1>9 DEF Holds, Ahead, Made, AtHand, Cur
<1>10. CASE pc[o] = "vaultSet"
  <2>1. /\ OnlyValue(o) /\ Holds(o)
        /\ \/ pc'[o] = "insert" /\ vault'[s] = [state |-> "live", writes |-> vault[s].writes + 1]
           \/ pc'[o] = "undo" /\ (vault' = vault \/ s \in doubt')
           \/ pc'[o] = "crashed" /\ vault' = vault
    BY <1>a, <1>10, AtVaultSet
  <2>2. Fresh(s) /\ \A t \in rest : Fresh(t)'
    BY <1>1, <1>2, <1>3, <1>4, <1>5, <1>10 DEF SetAt
  <2>3. Untouched(s)' /\ ~Exists(s)'
    <3>1. meta'[s] = meta[s]
      BY <2>1 DEF OnlyValue
    <3>2. Untouched(s)'
      BY <1>3, <1>10, <2>2, <3>1, UntouchedStays DEF Fresh
    <3> QED
      BY <3>2 DEF Untouched
  <2>4. \A t \in Made(o) : Serial => Exists(t)'
    BY <1>1, <1>10, <2>1 DEF SetAt, OnlyValue, Exists
  <2>5. CASE pc'[o] = "insert"
    <3>1. vault'[s] = [state |-> "live", writes |-> 1]
      <4>1. vault[s].writes = 0
        BY <2>2 DEF Fresh
      <4> QED
        BY <2>1, <2>5, <4>1
    <3> QED
      BY <1>9, <2>1, <2>2, <2>3, <2>4, <2>5, <3>1 DEF SetAt, Undoing
  <2>6. CASE pc'[o] = "undo"
    <3>1. Told(o, s)'
      <4>1. CASE vault' = vault
        BY <2>2, <2>3, <4>1 DEF Told, Gone, Fresh, Live
      <4> QED
        BY <2>1, <2>6, <4>1 DEF Told
    <3>2. \A t \in Ahead(o)' : Told(o, t)'
      BY <1>3, <1>8, <1>9, <1>10, <2>1, <2>2, <3>1
    <3> QED
      BY <2>6, <3>2 DEF SetAt, Undoing
  <2>7. CASE pc'[o] = "crashed"
    BY <2>7 DEF SetAt, Undoing
  <2> QED
    BY <2>1, <2>5, <2>6, <2>7
<1>11. CASE pc[o] = "insert"
  <2>1. /\ OnlyMeta(o) /\ Untouched(s)
        /\ \/ /\ meta'[s] = New /\ made'[o] = Append(made[o], s)
              /\ \/ Len(todo[o]) = 1 /\ todo'[o] = made'[o] /\ pc'[o] = "audit"
                 \/ Len(todo[o]) # 1 /\ todo'[o] = Tail(todo[o]) /\ pc'[o] = "vaultSet"
           \/ pc'[o] = "cleanup" /\ Holds(o) /\ (meta' = meta \/ s \in doubt')
           \/ pc'[o] = "crashed" /\ Holds(o) /\ meta' = meta
    BY <1>a, <1>1, <1>2, <1>11, AtInsert DEF SetAt
  <2>2. \A t \in rest : Fresh(t)'
    BY <1>b, <1>1, <1>2, <1>3, <1>4, <1>5, <1>11 DEF SetAt
  <2>3. CASE pc'[o] \in {"audit", "vaultSet"}
    <3>1. Made(o)' = Made(o) \cup {s} /\ New.status # "none"
      <4>1. made'[o] = Append(made[o], s) /\ s \in Ids
        BY <1>3, <1>11, <2>1, <2>3
      <4>2. Listed(Append(made[o], s)) = Listed(made[o]) \cup {s}
        BY <1>1, <4>1, AppendOne
      <4> QED
        BY <4>1, <4>2, StoreFields DEF Made
    <3>2. \A t \in Made(o) \ {s} : meta'[t] = meta[t]
      BY <1>a, <1>2, <1>11, WorksElsewhere
    <3>3. \A t \in Made(o)' : Serial => Exists(t)'
      BY <1>1, <1>11, <2>1, <2>3, <3>1, <3>2 DEF SetAt, Exists
    <3>4. pc'[o] = "vaultSet" => \A t \in Ahead(o)' : Fresh(t)'
      BY <1>b, <2>1, <2>2 DEF Ahead
    <3> QED
      BY <2>3, <3>3, <3>4 DEF SetAt, Undoing
  <2>4. CASE pc'[o] = "cleanup"
    <3>1. s \in doubt' \/ Untouched(s)'
      BY <1>3, <1>11, <2>1, <2>4, UntouchedStays
    <3> QED
      BY <1>9, <2>1, <2>2, <2>4, <3>1 DEF SetAt, Undoing
  <2>5. CASE pc'[o] = "crashed"
    BY <2>5 DEF SetAt, Undoing
  <2> QED
    BY <2>1, <2>3, <2>4, <2>5
<1>12. CASE pc[o] \in {"cleanup", "orphan"}
  <2>1. \A t \in rest : Fresh(t)' /\ Told(o, t)'
    BY <1>b, <1>1, <1>2, <1>3, <1>4, <1>5, <1>8, <1>12 DEF SetAt
  <2>2. /\ Holds(o)
        /\ \/ pc'[o] \in {"orphan", "crashed"}
           \/ pc'[o] = "auditFailed" /\ pc[o] = "orphan" /\ Tells(o, s)
           \/ pc'[o] = "auditFailed" /\ pc[o] = "cleanup" /\ OnlyValue(o) /\ vault'[s].state # "live"
    BY <1>a, <1>12, AtCleanup, AtOrphan
  <2>3. CASE pc'[o] = "auditFailed"
    <3>1. pc[o] = "cleanup" => s \in doubt \/ ~Exists(s)
      BY <1>1, <1>2 DEF SetAt, Untouched
    <3>2. Told(o, s)'
      BY <1>7, <1>12, <2>2, <2>3, <3>1 DEF Told, Tells, Gone, OnlyValue, Exists, Live
    <3> QED
      BY <1>3, <1>9, <1>12, <2>1, <2>2, <2>3, <3>2 DEF SetAt, Undoing
  <2>4. CASE pc'[o] \in {"orphan", "crashed"}
    BY <1>9, <2>1, <2>2, <2>4 DEF SetAt, Undoing
  <2> QED
    BY <2>2, <2>3, <2>4
<1>13. CASE pc[o] = "auditFailed"
  <2>1. Holds(o) /\ pc'[o] \in {"undo", "crashed"}
    BY <1>13, AtAuditOther
  <2>2. \A t \in Ahead(o) : Told(o, t)'
    BY <1>1, <1>2, <1>6, <1>13 DEF SetAt
  <2> QED
    BY <1>9, <2>1, <2>2 DEF SetAt, Undoing
<1>14. CASE pc[o] = "undo"
  <2>1. /\ made'[o] = made[o]
        /\ \/ pc'[o] = "failed" /\ made[o] = <<>>
           \/ pc'[o] = "undoMeta" /\ todo'[o] = made[o]
           \/ pc'[o] = "crashed"
    BY <1>14, AtUndo
  <2>2. pc'[o] = "failed" => Made(o)' = {}
    BY <2>1, OneListed DEF Made
  <2>3. pc'[o] = "undoMeta" => Made(o)' = Ahead(o)'
    BY <2>1 DEF Made, Ahead
  <2> QED
    BY <2>1, <2>2, <2>3 DEF SetAt, Undoing
<1>15. CASE pc[o] \in Undoing
  <2>1. \A t \in Made(o) \ Ahead(o) : Told(o, t)'
    BY <1>1, <1>2, <1>6, <1>15 DEF SetAt, Undoing
  <2>2. CASE Holds(o) /\ pc'[o] \in {"undoOrphan", "crashed"}
    BY <1>9, <2>1, <2>2 DEF SetAt, Undoing
  <2>3. CASE pc[o] = "undoMeta" /\ pc'[o] = "undoValue"
    <3>1. Holds(o) /\ meta'[s] = None /\ None.status = "none"
      BY <1>a, <2>3, AtUndoMeta, StoreFields
    <3> QED
      BY <1>9, <2>1, <2>3, <3>1 DEF SetAt, Undoing, Exists
  <2>4. CASE Passes(o, "undoMeta", "failed") /\ pc[o] # "undoMeta"
    <3>1. Told(o, s)'
      <4>1. CASE pc[o] = "undoOrphan"
        <5>1. Tells(o, s)
          BY <1>a, <2>4, <4>1, AtUndoOrphan DEF Passes
        <5> QED
          BY <5>1 DEF Told, Tells
      <4>2. CASE pc[o] = "undoValue"
        <5>1. OnlyValue(o) /\ vault'[s].state # "live"
          BY <1>a, <2>4, <4>2, AtUndoValue DEF Passes
        <5>2. ~Exists(s)
          BY <1>1, <1>2, <4>2 DEF SetAt
        <5> QED
          BY <5>1, <5>2 DEF Told, Gone, Exists, Live, OnlyValue
      <4> QED
        BY <1>15, <2>4, <4>1, <4>2 DEF Undoing
    <3>2. Made(o)' = Made(o) /\ Ahead(o)' = rest
      BY <1>b, <2>4 DEF Passes, Made, Ahead
    <3>3. \A t \in Made(o) \ rest : Told(o, t)'
      BY <1>3, <1>15, <2>1, <3>1 DEF Undoing
    <3>4. Len(todo[o]) = 1 => rest = {}
      BY <1>b, <1>1, <1>3, <1>15, HeadAndTail DEF Undoing
    <3> QED
      BY <2>4, <3>2, <3>3, <3>4 DEF SetAt, Undoing, Passes
  <2> QED
    BY <1>15, <2>2, <2>3, <2>4, AtUndoMeta, AtUndoValue, AtUndoOrphan DEF Undoing
<1>16. CASE pc[o] = "audit"
  <2>1. /\ meta' = meta /\ made'[o] = made[o]
        /\ pc'[o] \in {"audit", "done", "crashed"}
    BY <1>16, AtAudit DEF StoresKept, Passes, Holds
  <2> QED
    BY <1>1, <1>16, <2>1 DEF SetAt, Undoing, Made, Exists
<1> QED
  BY <1>1, <1>10, <1>11, <1>12, <1>13, <1>14, <1>15, <1>16 DEF PlacesOf, Creating, Undoing, Ended

LEMMA WorksSets ==
    ASSUME TypeOK, Control, IdsApart, SetsRight, OneMutation, LoadedHolds, NEW o \in Calls, Works(o)
    PROVE  SetsRight'
<1>1. ASSUME NEW p \in Calls, kind'[p] = "Set" PROVE SetAt(p)'
  BY <1>1, SetHere, SetElsewhere, WorksAlone DEF Alone
<1> QED
  BY <1>1 DEF SetsRight

-----------------------------------------------------------------------------
(* What the properties need of a step.                                     *)

\* The call that loaded a document.
LEMMA LoadedHere ==
    ASSUME TypeOK, Control, LoadedHolds, Serial, NEW o \in Calls, Works(o)
    PROVE  LoadedAt(o)'
<1>1. /\ LoadedAt(o) /\ Busy(o) /\ kind[o] \in Kinds /\ pc[o] \in PlacesOf(kind[o])
  BY WorksAlone DEF LoadedHolds, TypeOK, Control
<1>2. CASE pc[o] \in Creating \cup {"read", "audit", "auditDenied", "auditFailed", "auditPartly", "auditRefused"}
  <2>1. CASE pc[o] \in {"vaultSet", "insert", "cleanup", "orphan", "undo"}
    BY <2>1, AtVaultSet, AtInsert, AtCleanup, AtOrphan, AtUndo DEF LoadedAt
  <2>2. CASE pc[o] \in Undoing
    BY <2>2, AtUndoMeta, AtUndoValue, AtUndoOrphan DEF LoadedAt, Undoing, Passes
  <2>3. CASE pc[o] \in {"read", "audit"}
    BY <2>3, AtRead, AtAudit DEF LoadedAt, Passes
  <2>4. CASE pc[o] \in {"auditDenied", "auditFailed", "auditPartly", "auditRefused"}
    BY <2>4, AtAuditOther DEF LoadedAt
  <2> QED
    BY <1>2, <2>1, <2>2, <2>3, <2>4 DEF Creating, Undoing
<1>3. CASE pc[o] = "load"
  <2>1. PICK s : s = Cur(o)
    OBVIOUS
  <2>2. /\ meta' = meta /\ todo'[o] = todo[o]
        /\ \/ pc'[o] = Afterwards(kind[o]) /\ Exists(s) /\ copy'[o] = meta[s]
           \/ pc'[o] \in {"auditDenied", "failed", "crashed"}
    BY <1>3, <2>1, AtLoad DEF StoresKept
  <2>3. AtHand(o)' = {s}
    BY <2>1, <2>2 DEF AtHand, Cur
  <2>4. kind[o] # "Set"
    BY <1>3, KindFromPlace
  <2>5. Afterwards(kind[o]) \in {"rotate", "purgeDelete", "read", "replace"}
    BY <1>1, <2>4 DEF Afterwards, Kinds, Mutations
  <2> QED
    BY <2>2, <2>3, <2>5 DEF LoadedAt, Exists
<1>4. CASE pc[o] \in {"rotate", "replace", "purgeDelete", "purgeVault", "hardDelete", "hardDeleteRefused"}
  <2>1. PICK s : s = Cur(o)
    OBVIOUS
  <2>2. AtHand(o) = {s} /\ Exists(s) /\ copy[o] = meta[s]
    BY <1>1, <1>4, <2>1 DEF AtHand, LoadedAt
  <2>3. Holds(o)
    <3>1. CASE pc[o] \in {"rotate", "replace", "purgeDelete"}
      BY <3>1, AtRotate, AtReplace, AtPurgeDelete
    <3>2. CASE pc[o] \in {"purgeVault", "hardDelete", "hardDeleteRefused"}
      BY <3>2, AtPurgeVault, AtHardDelete
    <3> QED
      BY <1>4, <3>1, <3>2
  <2>4. AtHand(o)' = {s}
    BY <2>1, <2>3 DEF Holds, AtHand, Cur
  <2>5. CASE pc[o] \in {"rotate", "purgeDelete", "purgeVault"}
    <3>1. meta' = meta
      BY <2>5, AtRotate, AtPurgeDelete, AtPurgeVault DEF OnlyValue
    <3>2. pc'[o] \in {"purgeVault", "hardDelete", "hardDeleteRefused"} => ~Live(s)'
      <4>1. CASE pc[o] = "rotate"
        BY <4>1, AtRotate
      <4>2. CASE pc[o] = "purgeDelete"
        BY <2>1, <4>2, AtPurgeDelete DEF Live
      <4>3. CASE pc[o] = "purgeVault"
        <5>1. ~Live(s) /\ s \in Ids
          BY <1>1, <2>1, <2>2, <4>3, AtWork DEF LoadedAt, Resting, Ended
        <5> QED
          BY <4>3, <5>1, WhoRevives
      <4> QED
        BY <2>5, <4>1, <4>2, <4>3
    <3> QED
      BY <2>2, <2>3, <2>4, <3>1, <3>2 DEF LoadedAt, Exists, Holds
  <2>6. CASE pc[o] \in {"replace", "hardDelete", "hardDeleteRefused"}
    BY <2>6, AtReplace, AtHardDelete DEF LoadedAt
  <2> QED
    BY <1>4, <2>5, <2>6
<1> QED
  BY <1>1, <1>2, <1>3, <1>4 DEF PlacesOf, Kinds, Mutations, Busy, Ended, Creating

LEMMA WorksLoaded ==
    ASSUME TypeOK, Control, OneMutation, LoadedHolds, NEW o \in Calls, Works(o)
    PROVE  LoadedHolds'
<1> SUFFICES ASSUME Serial, NEW p \in Calls PROVE LoadedAt(p)'
  BY DEF LoadedHolds
<1>1. CASE p = o
  BY <1>1, LoadedHere
<1>2. CASE p # o
  <2>1. pc'[p] = pc[p] /\ todo'[p] = todo[p] /\ copy'[p] = copy[p] /\ LoadedAt(p)
    BY <1>2, WorksAlone DEF Alone, LoadedHolds
  <2>2. AtHand(p)' = AtHand(p)
    BY <2>1 DEF AtHand, Cur
  <2>3. CASE pc[p] \in {"rotate", "replace", "purgeDelete", "purgeVault", "hardDelete", "hardDeleteRefused"}
    <3>1. Busy(p) /\ kind[p] # "GetValue"
      BY <2>3, KindFromPlace DEF Busy, Ended, Mutations
    <3>2. meta' = meta /\ vault' = vault
      BY <1>2, <3>1, OtherReads
    <3> QED
      BY <2>1, <2>2, <3>2 DEF LoadedAt, Exists, Live
  <2>4. CASE pc[p] \notin {"rotate", "replace", "purgeDelete", "purgeVault", "hardDelete", "hardDeleteRefused"}
    BY <2>1, <2>4 DEF LoadedAt
  <2> QED
    BY <2>3, <2>4
<1> QED
  BY <1>1, <1>2

LEMMA OneOnly == ASSUME NEW S, NEW q \in Seq(S), Len(q) = 1 PROVE q = <<Head(q)>>
OBVIOUS

\* A call but a set has just the secret at hand.
LEMMA JustOne ==
    ASSUME TypeOK, Control, NEW o \in Calls, kind[o] # "Set", pc[o] \notin Resting
    PROVE  todo[o] = <<Cur(o)>> /\ Ahead(o) = {Cur(o)} /\ Cur(o) \in Ids
<1>1. todo[o] \in Seq(Ids) /\ todo[o] # <<>> /\ Cur(o) \in Ids /\ Len(todo[o]) <= 1
  BY AtWork DEF Control, ListsAt
<1>2. Len(todo[o]) = 1
  BY <1>1, OneLong
<1>3. todo[o] = <<Cur(o)>>
  BY <1>1, <1>2, OneOnly DEF Cur
<1> QED
  BY <1>1, <1>3, OneListed DEF Ahead

\* A purge goes on until its metadata is gone, or stops.
LEMMA PurgeGoesOn ==
    ASSUME TypeOK, Control, NEW o \in Calls, Works(o), NEW s \in Ids, HalfPurged(s),
           s \notin doubt', Exists(s)'
    PROVE  HalfPurged(s)'
<1>1. PICK p \in Calls :
        /\ kind[p] = "Purge" /\ todo[p] = <<s>>
        /\ pc[p] \in {"purgeVault", "hardDelete", "hardDeleteRefused", "auditPartly", "partly", "crashed"}
  BY DEF HalfPurged
<1>2. Alone(o) /\ Busy(o)
  BY WorksAlone
<1>3. CASE p # o
  BY <1>1, <1>2, <1>3 DEF Alone, HalfPurged
<1>4. CASE p = o
  <2>1. Cur(o) = s /\ pc[o] \in {"purgeVault", "hardDelete", "hardDeleteRefused", "auditPartly"}
    BY <1>1, <1>2, <1>4, OneListed DEF Busy, Ended, Cur
  <2>2. /\ Holds(o)
        /\ pc'[o] \in {"hardDelete", "hardDeleteRefused", "auditPartly", "partly", "crashed"}
    <3>1. CASE pc[o] = "purgeVault"
      BY <2>1, <3>1, AtPurgeVault
    <3>2. CASE pc[o] \in {"hardDelete", "hardDeleteRefused"}
      BY <2>1, <3>2, AtHardDelete, StoreFields DEF Exists
    <3>3. CASE pc[o] = "auditPartly"
      BY <3>3, AtAuditOther
    <3> QED
      BY <2>1, <3>1, <3>2, <3>3
  <2> QED
    BY <1>1, <1>2, <1>4, <2>2 DEF Alone, Holds, HalfPurged
<1> QED
  BY <1>3, <1>4

LEMMA WorksBehind ==
    ASSUME TypeOK, Control, SetsRight, ValueBehindSecret, NEW o \in Calls, Works(o)
    PROVE  ValueBehindSecret'
<1> SUFFICES ASSUME NEW s \in Ids, s \notin doubt', Exists(s)', ~HalfPurged(s)'
             PROVE  Live(s)'
  BY DEF ValueBehindSecret
<1>1. s \notin doubt /\ ~HalfPurged(s) /\ Alone(o) /\ Busy(o)
  BY WorksNotes, PurgeGoesOn, WorksAlone DEF Notes
<1>2. Exists(s) => Live(s)
  BY <1>1 DEF ValueBehindSecret
<1>3. CASE ~Exists(s)
  <2>1. pc[o] = "insert"
    BY <1>3, WhoCreates
  <2>2. s = Cur(o)
    BY <1>3, <2>1, WorksElsewhere DEF Exists
  <2>3. Live(s)
    BY <2>1, <2>2, KindFromPlace DEF SetsRight, SetAt, AtHand, Creating, Live
  <2> QED
    BY <2>1, <2>3, AtInsert DEF OnlyMeta, Live
<1>4. CASE Exists(s) /\ Live(s)
  <2>1. CASE s # Cur(o) \/ pc[o] \in Resting
    BY <1>4, <2>1, WorksElsewhere DEF Live
  <2>2. CASE StoresKept(o) \/ OnlyMeta(o)
    BY <1>4, <2>2 DEF Live, StoresKept, OnlyMeta
  <2>3. CASE s = Cur(o) /\ pc[o] \in {"vaultSet", "rotate"}
    <3>1. \/ vault'[s] = [state |-> "live", writes |-> vault[s].writes + 1]
          \/ vault' = vault
      <4>1. CASE pc[o] = "vaultSet"
        BY <2>3, <4>1, AtVaultSet
      <4>2. CASE pc[o] = "rotate"
        BY <2>3, <4>2, AtRotate
      <4> QED
        BY <2>3, <4>1, <4>2
    <3> QED
      BY <1>4, <3>1 DEF Live
  <2>4. CASE s = Cur(o) /\ pc[o] \in {"cleanup", "undoValue"}
    <3>1. s \in doubt \/ ~Exists(s)
      BY <2>4, KindFromPlace DEF SetsRight, SetAt, AtHand, Creating, Untouched
    <3> QED
      BY <1>1, <1>4, <3>1
  <2>5. CASE s = Cur(o) /\ pc[o] = "purgeDelete"
    <3>1. kind[o] = "Purge" /\ todo[o] = <<s>>
      BY <2>5, KindFromPlace, JustOne DEF Resting, Ended
    <3>2. Holds(o) /\ (vault' = vault \/ pc'[o] \in {"purgeVault", "hardDelete"})
      BY <2>5, AtPurgeDelete
    <3> QED
      BY <1>1, <1>4, <3>1, <3>2 DEF HalfPurged, Holds, Alone, Live
  <2>6. CASE s = Cur(o) /\ pc[o] = "purgeVault"
    BY <1>4, <2>6, AtPurgeVault DEF Live
  <2>7. CASE s = Cur(o) /\ pc[o] \notin {"vaultSet", "rotate", "cleanup", "undoValue", "purgeDelete", "purgeVault"}
    <3>1. CASE pc[o] \in {"insert", "orphan", "undo", "undoMeta", "undoOrphan"}
      BY <2>2, <3>1, AtInsert, AtOrphan, AtUndo, AtUndoMeta, AtUndoOrphan
    <3>2. CASE pc[o] \in {"load", "replace", "hardDelete", "hardDeleteRefused", "read", "audit"}
      BY <2>2, <3>2, AtLoad, AtReplace, AtHardDelete, AtRead, AtAudit
    <3>3. CASE pc[o] \in {"auditDenied", "auditFailed", "auditPartly", "auditRefused"}
      BY <2>2, <3>3, AtAuditOther
    <3>4. pc[o] \in Places
      BY DEF TypeOK
    <3> QED
      BY <1>1, <2>7, <3>1, <3>2, <3>3, <3>4 DEF Places, StorePlaces, Busy, Ended
  <2> QED
    BY <2>1, <2>3, <2>4, <2>5, <2>6, <2>7
<1> QED
  BY <1>2, <1>3, <1>4

\* A set parts with a secret that is there, or told.
LEMMA SetParts ==
    ASSUME TypeOK, Control, SetsRight, Serial, NEW o \in Calls, Works(o), kind[o] = "Set", SetAt(o)',
           Control', LoadedHolds, NEW s \in Ids, s \in Ahead(o) \cup Made(o)
    PROVE  \/ kind'[o] = "Set" /\ (Busy(o)' \/ pc'[o] = "crashed") /\ s \in (Ahead(o) \cup Made(o))'
           \/ Told(o, s)'
           \/ Exists(s)'
<1>1. /\ Alone(o) /\ Busy(o) /\ kind'[o] = "Set" /\ pc'[o] \in PlacesOf("Set") /\ pc'[o] # "idle"
      /\ pc[o] \in PlacesOf("Set")
      /\ todo[o] \in Seq(Ids) /\ made[o] \in Seq(Ids)
  BY WorksAlone, WorksLists DEF Control, Alone, TypeOK
<1>2. CASE pc'[o] \notin {"failed", "done"} /\ s \in (Ahead(o) \cup Made(o))'
  BY <1>1, <1>2 DEF PlacesOf, Creating, Busy, Ended
<1>3. CASE pc'[o] = "failed" /\ s \in Made(o)'
  BY <1>3 DEF SetAt
<1>4. CASE pc[o] = "audit"
  <2>1. s \in Made(o) /\ Exists(s) /\ meta' = meta
    BY <1>1, <1>4, AtAudit DEF Control, ListsAt, SetsRight, SetAt, Undoing, StoresKept
  <2> QED
    BY <2>1 DEF Exists
<1>5. CASE pc[o] = "undo" /\ s \in Ahead(o)
  <2>1. Told(o, s)
    BY <1>5 DEF SetsRight, SetAt
  <2> QED
    BY <1>5, <2>1, ToldStays
<1>6. CASE pc[o] = "insert"
  <2>1. todo[o] # <<>> /\ Cur(o) \in Ids
    BY <1>6, AtWork DEF Resting, Ended
  <2>2. /\ Ahead(o) = {Cur(o)} \cup Listed(Tail(todo[o]))
        /\ Len(todo[o]) = 1 => Listed(Tail(todo[o])) = {}
        /\ Listed(Append(made[o], Cur(o))) = Made(o) \cup {Cur(o)}
    BY <1>1, <2>1, HeadAndTail, AppendOne DEF Ahead, Cur, Made
  <2>3. /\ pc'[o] \in {"audit", "vaultSet", "cleanup", "crashed"}
        /\ \/ todo'[o] = todo[o] /\ made'[o] = made[o]
           \/ /\ made'[o] = Append(made[o], Cur(o))
              /\ \/ Len(todo[o]) = 1
                 \/ todo'[o] = Tail(todo[o])
    BY <1>6, AtInsert DEF Holds
  <2>4. s \in (Ahead(o) \cup Made(o))'
    <3>1. CASE todo'[o] = todo[o] /\ made'[o] = made[o]
      BY <3>1 DEF Ahead, Made
    <3>2. CASE made'[o] = Append(made[o], Cur(o)) /\ (Len(todo[o]) = 1 \/ todo'[o] = Tail(todo[o]))
      BY <2>2, <3>2 DEF Ahead, Made
    <3> QED
      BY <2>3, <3>1, <3>2
  <2> QED
    BY <1>2, <2>3, <2>4
<1>7. CASE pc[o] \in Undoing
  <2>1. s \in Made(o) /\ made'[o] = made[o] /\ pc'[o] # "done"
    <3>1. s \in Made(o)
      BY <1>7 DEF Control, ListsAt
    <3> QED
      BY <1>7, <3>1, AtUndoMeta, AtUndoValue, AtUndoOrphan DEF Undoing, Passes, Holds
  <2> QED
    BY <1>2, <1>3, <2>1 DEF Made
<1>8. CASE pc[o] = "undo" /\ s \in Made(o)
  <2>1. made'[o] = made[o] /\ pc'[o] # "done"
    BY <1>8, AtUndo
  <2> QED
    BY <1>2, <1>3, <1>8, <2>1 DEF Made
<1>9. CASE pc[o] \in {"vaultSet", "cleanup", "orphan", "auditFailed"}
  <2>1. Holds(o) /\ pc'[o] \notin {"failed", "done"}
    BY <1>9, AtVaultSet, AtCleanup, AtOrphan, AtAuditOther
  <2> QED
    BY <1>2, <2>1 DEF Holds, Ahead, Made
<1> QED
  BY <1>1, <1>4, <1>5, <1>6, <1>7, <1>8, <1>9 DEF PlacesOf, Creating, Undoing, Busy, Ended

LEMMA WorksOrphans ==
    ASSUME TypeOK, Control, SetsRight, LoadedHolds, OrphanKnown, NEW o \in Calls, Works(o),
           SetsRight', Control'
    PROVE  OrphanKnown'
<1> SUFFICES ASSUME Serial, NEW s \in Ids, s \notin doubt', Live(s)', ~Exists(s)'
             PROVE  SetHas(s)' \/ OrphanTold(s)'
  BY DEF OrphanKnown
<1>1. s \notin doubt /\ audit \subseteq audit' /\ Alone(o) /\ Busy(o)
  BY WorksNotes, WorksAlone DEF Notes
<1>2. ASSUME OrphanTold(s) PROVE OrphanTold(s)'
  BY <1>1, <1>2 DEF OrphanTold
<1>3. ASSUME SetHas(s) PROVE SetHas(s)' \/ OrphanTold(s)'
  <2>1. PICK p \in Calls : /\ kind[p] = "Set" /\ (Busy(p) \/ pc[p] = "crashed")
                           /\ s \in Ahead(p) \cup Made(p)
    BY <1>3 DEF SetHas
  <2>2. CASE p # o
    BY <1>1, <2>1, <2>2 DEF Alone, SetHas, Busy, Ahead, Made
  <2>3. CASE p = o
    <3>1. SetAt(o)'
      BY <1>1, <2>1, <2>3 DEF SetsRight, Alone
    <3>2. \/ kind'[o] = "Set" /\ (Busy(o)' \/ pc'[o] = "crashed") /\ s \in (Ahead(o) \cup Made(o))'
          \/ Told(o, s)'
          \/ Exists(s)'
      BY <2>1, <2>3, <3>1, SetParts
    <3>3. Told(o, s)' => OrphanTold(s)'
      BY DEF Told, Gone, OrphanTold
    <3> QED
      BY <3>2, <3>3 DEF SetHas
  <2> QED
    BY <2>2, <2>3
<1>4. CASE Live(s) /\ ~Exists(s)
  BY <1>1, <1>2, <1>3, <1>4 DEF OrphanKnown
<1>5. CASE ~Live(s)
  <2>1. s = Cur(o) /\ pc[o] \in {"vaultSet", "rotate"}
    BY <1>1, <1>5, WhoRevives, WorksElsewhere DEF Live
  <2>2. pc[o] # "rotate"
    <3> SUFFICES ASSUME pc[o] = "rotate" PROVE FALSE
      OBVIOUS
    <3>1. Exists(s)
      BY <2>1 DEF LoadedHolds, LoadedAt, AtHand
    <3> QED
      BY <3>1, AtRotate DEF OnlyValue, Exists
  <2>3. SetHas(s)
    BY <1>1, <2>1, <2>2, KindFromPlace, AtWork DEF SetHas, Creating, Resting, Ended
  <2> QED
    BY <1>3, <2>3
<1>6. CASE Live(s) /\ Exists(s)
  <2>1. s = Cur(o) /\ pc[o] \notin Resting
    BY <1>6, WorksElsewhere DEF Exists
  <2>2. pc[o] \in {"insert", "undoMeta"} => SetHas(s)
    BY <1>1, <2>1, KindFromPlace, AtWork DEF SetHas, Creating
  <2>3. pc[o] \notin {"hardDelete", "hardDeleteRefused"}
    BY <1>6, <2>1 DEF LoadedHolds, LoadedAt, AtHand
  <2>4. pc[o] # "replace"
    <3> SUFFICES ASSUME pc[o] = "replace" PROVE FALSE
      OBVIOUS
    <3>1. meta' = meta \/ meta'[s] = Changed(kind[o], copy[o])
      BY <1>6, <2>1, AtReplace
    <3>2. copy[o] = meta[s] /\ kind[o] \in Mutations \ {"Purge"} /\ copy[o] \in Documents
      BY <2>1, KindFromPlace DEF LoadedHolds, LoadedAt, AtHand, TypeOK
    <3> QED
      BY <1>6, <3>1, <3>2, ChangedType DEF Exists
  <2>5. meta' # meta
    BY <1>6 DEF Exists
  <2>6. pc[o] \notin {"load", "rotate", "read", "audit", "purgeDelete", "purgeVault"}
    BY <2>5, AtLoad, AtRotate, AtRead, AtAudit, AtPurgeDelete, AtPurgeVault DEF StoresKept, OnlyValue
  <2>7. pc[o] \notin {"auditDenied", "auditFailed", "auditPartly", "auditRefused"}
    BY <2>5, AtAuditOther DEF StoresKept
  <2>8. pc[o] \notin {"vaultSet", "cleanup", "orphan", "undo", "undoValue", "undoOrphan"}
    BY <2>5, AtVaultSet, AtCleanup, AtOrphan, AtUndo, AtUndoValue, AtUndoOrphan DEF StoresKept, OnlyValue
  <2>9. pc[o] \in Places
    BY DEF TypeOK
  <2>10. pc[o] \in {"insert", "undoMeta"}
    BY <2>1, <2>3, <2>4, <2>6, <2>7, <2>8, <2>9 DEF Places, StorePlaces, Resting, Ended
  <2> QED
    BY <1>3, <2>2, <2>10
<1> QED
  BY <1>4, <1>5, <1>6

\* The books of a secret no rotation is at.
LEMMA BooksElsewhere ==
    ASSUME TypeOK, Control, SetsRight, LoadedHolds, Serial, NEW o \in Calls, Works(o), NEW s \in Ids,
           kind[o] # "Rotate" \/ s # Cur(o),
           Exists(s) => Balanced(s), Exists(s)', s \notin doubt'
    PROVE  Balanced(s)'
<1>1. Alone(o) /\ Busy(o) /\ pc[o] \in Places /\ pc[o] \in PlacesOf(kind[o])
  BY WorksAlone DEF TypeOK, Control
<1>2. PartlyRotated(s)' = PartlyRotated(s)
  <2>1. ASSUME NEW p \in Calls, kind[p] = "Rotate"
        PROVE  <<p, s, "PartialFailure">> \in audit' <=> <<p, s, "PartialFailure">> \in audit
    BY <2>1, PartlyNotes, WorksNotes DEF Notes
  <2> QED
    BY <1>1, <2>1 DEF PartlyRotated, Alone
<1>3. Rotating(s)' <=> Rotating(s)
  <2>1. kind[o] = "Rotate" => s \notin Ahead(o) /\ s \notin Ahead(o)'
    <3> SUFFICES ASSUME kind[o] = "Rotate" PROVE s \notin Ahead(o) /\ s \notin Ahead(o)'
      OBVIOUS
    <3>1. pc[o] \notin Resting
      BY <1>1 DEF PlacesOf, Busy, Ended, Resting
    <3>2. Ahead(o) = {Cur(o)}
      BY <3>1, JustOne
    <3>3. Ahead(o)' \subseteq Ahead(o)
      BY WorksIds DEF Ahead
    <3> QED
      BY <3>2, <3>3
  <2>2. ASSUME NEW p \in Calls
        PROVE  (kind[p] = "Rotate" /\ pc[p] \in {"replace", "auditPartly"} /\ s \in Ahead(p))'
               <=> (kind[p] = "Rotate" /\ pc[p] \in {"replace", "auditPartly"} /\ s \in Ahead(p))
    BY <1>1, <2>1 DEF Alone, Ahead
  <2> QED
    BY <2>2 DEF Rotating
<1>4. ASSUME Exists(s), meta'[s].rotations = meta[s].rotations, vault'[s].writes = vault[s].writes
      PROVE  Balanced(s)'
  BY <1>2, <1>3, <1>4 DEF Balanced
<1>5. CASE ~Exists(s)
  <2>1. pc[o] = "insert"
    BY <1>5, WhoCreates
  <2>2. s = Cur(o)
    BY <1>5, <2>1, WorksElsewhere DEF Exists
  <2>3. Untouched(s) /\ vault[s] = [state |-> "live", writes |-> 1]
    BY <2>1, <2>2, KindFromPlace DEF SetsRight, SetAt, AtHand, Creating
  <2>4. PartlyRotated(s)' = {} /\ ~Rotating(s)'
    BY <1>2, <1>3, <2>3 DEF Untouched, PartlyRotated, Rotating
  <2>5. vault'[s].writes = 1
    BY <2>1, <2>3, AtInsert DEF OnlyMeta
  <2>6. meta'[s] = New
    <3>1. meta' # meta
      BY <1>5 DEF Exists
    <3> QED
      BY <2>1, <2>2, <3>1, AtInsert
  <2>7. IsFiniteSet({}) /\ Cardinality({}) = 0
    BY FS_EmptySet
  <2> QED
    BY <2>4, <2>5, <2>6, <2>7, StoreFields DEF Balanced
<1>6. CASE Exists(s) /\ s # Cur(o)
  BY <1>4, <1>6, WorksElsewhere
<1>7. CASE Exists(s) /\ s = Cur(o) /\ kind[o] # "Rotate"
  <2>1. CASE StoresKept(o)
    BY <1>4, <1>7, <2>1 DEF StoresKept
  <2>2. CASE pc[o] \in {"vaultSet", "insert"}
    BY <1>7, <2>2, KindFromPlace, AtWork
    DEF SetsRight, SetAt, AtHand, Creating, Untouched, Fresh, Resting, Ended
  <2>3. CASE pc[o] \in {"cleanup", "undoValue", "purgeDelete", "purgeVault"}
    <3>1. meta' = meta /\ vault'[s].writes = vault[s].writes
      <4>1. CASE pc[o] \in {"cleanup", "undoValue"}
        BY <1>7, <4>1, AtCleanup, AtUndoValue DEF OnlyValue
      <4>2. CASE pc[o] \in {"purgeDelete", "purgeVault"}
        BY <1>7, <4>2, AtPurgeDelete, AtPurgeVault DEF OnlyValue
      <4> QED
        BY <2>3, <4>1, <4>2
    <3> QED
      BY <1>4, <1>7, <3>1
  <2>4. CASE pc[o] \in {"undoMeta", "hardDelete", "hardDeleteRefused"}
    <3>1. vault' = vault /\ (meta' = meta \/ meta'[s] = None)
      BY <1>7, <2>4, AtUndoMeta, AtHardDelete DEF OnlyMeta
    <3>2. meta' = meta
      BY <3>1, StoreFields DEF Exists
    <3> QED
      BY <1>4, <1>7, <3>1, <3>2
  <2>5. CASE pc[o] = "replace"
    <3>1. vault' = vault /\ (meta' = meta \/ meta'[s] = Changed(kind[o], copy[o]))
      BY <1>7, <2>5, AtReplace DEF OnlyMeta
    <3>2. copy[o] = meta[s] /\ kind[o] \in Mutations \ {"Purge"} /\ copy[o] \in Documents
      BY <1>7, <2>5, KindFromPlace DEF LoadedHolds, LoadedAt, AtHand, TypeOK
    <3>3. Changed(kind[o], copy[o]).rotations = copy[o].rotations
      BY <1>7, <3>2, ChangedType
    <3>4. meta'[s].rotations = meta[s].rotations
      BY <3>1, <3>2, <3>3
    <3> QED
      BY <1>4, <1>7, <3>1, <3>4
  <2>6. CASE pc[o] \in {"orphan", "undo", "undoOrphan", "load", "read", "audit"}
    BY <2>1, <2>6, AtOrphan, AtUndo, AtUndoOrphan, AtLoad, AtRead, AtAudit
  <2>7. CASE pc[o] \in {"auditDenied", "auditFailed", "auditPartly", "auditRefused"}
    BY <2>1, <2>7, AtAuditOther
  <2>8. pc[o] # "rotate"
    BY <1>7, KindFromPlace
  <2> QED
    BY <1>1, <2>2, <2>3, <2>4, <2>5, <2>6, <2>7, <2>8 DEF Places, StorePlaces, Busy, Ended
<1> QED
  BY <1>5, <1>6, <1>7

\* The books of the secret a rotation is at.
LEMMA BooksRotated ==
    ASSUME TypeOK, Control, PartlyEnded, OneMutation, LoadedHolds, Serial, NEW o \in Calls, Works(o),
           NEW s \in Ids, kind[o] = "Rotate", s = Cur(o), Balanced(s), s \notin doubt',
           Exists(s), ~RotationStopped(s)'
    PROVE  Balanced(s)'
<1>1. Alone(o) /\ Busy(o) /\ Notes(o)
  BY WorksAlone, WorksNotes
<1>2. pc[o] \in {"load", "rotate", "replace", "audit", "auditPartly"}
  <2>1. pc[o] \in PlacesOf("Rotate")
    BY DEF Control
  <2> QED
    BY <1>1, <2>1 DEF PlacesOf, Busy, Ended
<1>3. s \in Ahead(o)
  BY <1>2, AtWork DEF Resting, Ended
<1>4. Rotating(s) <=> pc[o] \in {"replace", "auditPartly"}
  <2>1. ASSUME NEW p \in Calls, kind[p] = "Rotate", pc[p] \in {"replace", "auditPartly"} PROVE p = o
    BY <1>1, <2>1 DEF OneMutation, Busy, Ended
  <2> QED
    BY <1>3, <2>1 DEF Rotating
<1>5. Rotating(s)' <=> pc'[o] \in {"replace", "auditPartly"} /\ s \in Ahead(o)'
  <2>1. ASSUME NEW p \in Calls, p # o, kind'[p] = "Rotate", pc'[p] \in {"replace", "auditPartly"}
        PROVE  FALSE
    BY <1>1, <2>1 DEF OneMutation, Busy, Ended, Alone
  <2> QED
    BY <1>1, <2>1 DEF Rotating, Alone
<1>6. ASSUME Holds(o) PROVE Ahead(o)' = Ahead(o) /\ pc'[o] # "crashed"
  <2>1. Ahead(o)' = Ahead(o)
    BY <1>6 DEF Holds, Ahead
  <2> QED
    BY <1>1, <1>3, <2>1 DEF RotationStopped, Alone
<1>7. ASSUME pc[o] # "auditPartly" PROVE PartlyRotated(s)' = PartlyRotated(s)
  <2>1. ASSUME NEW p \in Calls, kind[p] = "Rotate"
        PROVE  <<p, s, "PartialFailure">> \in audit' <=> <<p, s, "PartialFailure">> \in audit
    BY <1>1, <1>2, <1>7, <2>1, PartlyNotes DEF Notes
  <2> QED
    BY <1>1, <2>1 DEF PartlyRotated, Alone
<1>8. /\ vault[s].writes \in Nat /\ meta[s].rotations \in Nat
      /\ IsFiniteSet(PartlyRotated(s)) /\ Cardinality(PartlyRotated(s)) \in Nat
  BY FS_CardinalityType DEF TypeOK, Documents, Balanced
<1>9. CASE pc[o] \in {"load", "audit"}
  <2>1. /\ StoresKept(o)
        /\ pc'[o] \notin {"replace", "auditPartly"}
    BY <1>9, AtLoad, AtAudit DEF Passes, Afterwards
  <2> QED
    BY <1>4, <1>5, <1>7, <1>9, <2>1 DEF Balanced, StoresKept
<1>10. CASE pc[o] = "rotate"
  <2>1. /\ Holds(o) /\ meta' = meta
        /\ \/ pc'[o] = "replace" /\ vault'[s] = [state |-> "live", writes |-> vault[s].writes + 1]
           \/ pc'[o] = "failed" /\ vault' = vault
    BY <1>6, <1>10, AtRotate DEF OnlyValue
  <2>2. vault[s].writes = meta[s].rotations + Cardinality(PartlyRotated(s)) + 1
    BY <1>4, <1>10 DEF Balanced
  <2>3. CASE pc'[o] = "replace"
    <3>1. vault'[s].writes = vault[s].writes + 1 /\ Rotating(s)'
      BY <1>3, <1>5, <1>6, <2>1, <2>3
    <3>2. vault'[s].writes = meta[s].rotations + Cardinality(PartlyRotated(s)) + 2
      BY <1>8, <2>2, <3>1
    <3> QED
      BY <1>7, <1>8, <1>10, <2>1, <3>1, <3>2 DEF Balanced
  <2>4. CASE pc'[o] = "failed"
    BY <1>5, <1>7, <1>8, <1>10, <2>1, <2>2, <2>4 DEF Balanced
  <2> QED
    BY <2>1, <2>3, <2>4
<1>11. CASE pc[o] = "replace"
  <2>1. /\ Holds(o) /\ vault' = vault
        /\ \/ pc'[o] = "audit" /\ meta'[s] = Changed("Rotate", copy[o])
           \/ pc'[o] = "auditPartly" /\ meta' = meta
    BY <1>6, <1>11, AtReplace DEF OnlyMeta
  <2>2. vault[s].writes = meta[s].rotations + Cardinality(PartlyRotated(s)) + 2
    BY <1>4, <1>11 DEF Balanced
  <2>3. CASE pc'[o] = "audit"
    <3>1. copy[o] = meta[s] /\ copy[o] \in Documents
      BY <1>11 DEF LoadedHolds, LoadedAt, AtHand, TypeOK
    <3>2. Changed("Rotate", copy[o]).rotations = meta[s].rotations + 1
      BY <3>1, ChangedType DEF Mutations
    <3>3. meta'[s].rotations = meta[s].rotations + 1 /\ ~Rotating(s)'
      BY <1>5, <2>1, <2>3, <3>2
    <3>4. vault[s].writes = (meta[s].rotations + 1) + Cardinality(PartlyRotated(s)) + 1
      BY <1>8, <2>2
    <3> QED
      BY <1>7, <1>8, <1>11, <2>1, <3>3, <3>4 DEF Balanced
  <2>4. CASE pc'[o] = "auditPartly"
    BY <1>3, <1>5, <1>6, <1>7, <1>8, <1>11, <2>1, <2>2, <2>4 DEF Balanced
  <2> QED
    BY <2>1, <2>3, <2>4
<1>12. CASE pc[o] = "auditPartly"
  <2>1. /\ Holds(o) /\ meta' = meta /\ vault' = vault /\ pc'[o] = "partly"
        /\ <<o, s, "PartialFailure">> \in audit'
    BY <1>6, <1>12, AtAuditOther DEF StoresKept
  <2>2. vault[s].writes = meta[s].rotations + Cardinality(PartlyRotated(s)) + 2
    BY <1>4, <1>12 DEF Balanced
  <2>3. o \notin PartlyRotated(s)
    BY <1>12 DEF PartlyEnded, PartlyRotated
  <2>4. PartlyRotated(s)' = PartlyRotated(s) \cup {o}
    <3>1. ASSUME NEW p \in Calls, p # o
          PROVE  <<p, s, "PartialFailure">> \in audit' <=> <<p, s, "PartialFailure">> \in audit
      BY <1>1, <3>1, PartlyNotes DEF Notes
    <3> QED
      BY <1>1, <2>1, <3>1 DEF PartlyRotated, Alone
  <2>5. /\ IsFiniteSet(PartlyRotated(s) \cup {o})
        /\ Cardinality(PartlyRotated(s) \cup {o}) = Cardinality(PartlyRotated(s)) + 1
    <3>1. /\ IsFiniteSet(PartlyRotated(s) \cup {o})
          /\ Cardinality(PartlyRotated(s) \cup {o}) =
                IF o \in PartlyRotated(s) THEN Cardinality(PartlyRotated(s))
                ELSE Cardinality(PartlyRotated(s)) + 1
      BY <1>8, FS_AddElement, Zenon
    <3> QED
      BY <2>3, <3>1, Zenon
  <2>6. ~Rotating(s)'
    BY <1>5, <2>1
  <2>7. vault[s].writes = meta[s].rotations + (Cardinality(PartlyRotated(s)) + 1) + 1
    BY <1>8, <2>2
  <2> QED
    BY <2>1, <2>4, <2>5, <2>6, <2>7 DEF Balanced
<1> QED
  BY <1>2, <1>9, <1>10, <1>11, <1>12

LEMMA WorksBooks ==
    ASSUME TypeOK, Control, PartlyEnded, SetsRight, OneMutation, LoadedHolds, BooksKept,
           NEW o \in Calls, Works(o)
    PROVE  BooksKept'
<1> SUFFICES ASSUME Serial, NEW s \in Ids, s \notin doubt', Exists(s)', ~RotationStopped(s)'
             PROVE  Balanced(s)'
  BY DEF BooksKept
<1>1. s \notin doubt /\ Alone(o) /\ Busy(o)
  BY WorksNotes, WorksAlone DEF Notes
<1>2. ~RotationStopped(s)
  BY <1>1 DEF RotationStopped, Alone, Ahead, Busy, Ended
<1>3. Exists(s) => Balanced(s)
  BY <1>1, <1>2 DEF BooksKept
<1>4. CASE kind[o] = "Rotate" /\ s = Cur(o)
  <2>1. Exists(s)
    BY <1>4, WhoCreates, KindFromPlace DEF Creating
  <2> QED
    BY <1>3, <1>4, <2>1, BooksRotated
<1>5. CASE kind[o] # "Rotate" \/ s # Cur(o)
  BY <1>3, <1>5, BooksElsewhere
<1> QED
  BY <1>4, <1>5

-----------------------------------------------------------------------------
(* A call begins.                                                          *)

Begins(o) ==
    /\ meta' = meta /\ vault' = vault /\ audit' = audit
    /\ made' = made /\ copy' = copy
    /\ doubt' = doubt /\ faults' = faults /\ crashes' = crashes
    /\ pc[o] = "idle" /\ kind[o] = "GetValue" /\ Made(o) = {} /\ Ahead(o) = {}
    /\ pc' \in [Calls -> Places] /\ kind' \in [Calls -> Kinds] /\ todo' \in [Calls -> Seq(Ids)]
    /\ \A p \in Calls \ {o} : pc'[p] = pc[p] /\ kind'[p] = kind[p] /\ todo'[p] = todo[p]
    /\ Serial => kind'[o] = "GetValue" \/ NoMutation
    /\ todo'[o] # <<>>

BeginsSet(o) ==
    /\ Begins(o)
    /\ kind'[o] = "Set" /\ pc'[o] = "vaultSet"
    /\ Listed(todo'[o]) \subseteq Ids \ taken
    /\ taken' = taken \cup Listed(todo'[o])
    /\ Distinct(todo'[o])

BeginsOther(o) ==
    /\ Begins(o)
    /\ kind'[o] \in Kinds \ {"Set"} /\ pc'[o] = "load"
    /\ taken' = taken
    /\ \E s \in Ids : Exists(s) /\ todo'[o] = <<s>>

LEMMA IdleCall ==
    ASSUME TypeOK, Control, NEW o \in Calls, pc[o] = "idle"
    PROVE  kind[o] = "GetValue" /\ Made(o) = {} /\ Ahead(o) = {} /\ made[o] = <<>>
<1>1. kind[o] = "GetValue" /\ todo[o] = <<>> /\ made[o] = <<>>
  BY DEF Control, ListsAt
<1> QED
  BY <1>1, OneListed DEF Made, Ahead

LEMMA BeginSetBegins ==
    ASSUME TypeOK, Control, NEW o \in Calls, BeginSet(o)
    PROVE  BeginsSet(o)
<1>1. /\ pc[o] = "idle" /\ (Serial => NoMutation)
      /\ kind' = [kind EXCEPT ![o] = "Set"] /\ pc' = [pc EXCEPT ![o] = "vaultSet"]
      /\ UNCHANGED <<meta, vault, audit, made, copy, doubt, faults, crashes>>
  BY DEF BeginSet, Goto, storeVars, badVars
<1>2. PICK n \in 1 .. MaxBatch : \E q \in [1 .. n -> Ids \ taken] :
         /\ Distinct(q)
         /\ todo' = [todo EXCEPT ![o] = q]
         /\ taken' = taken \cup {q[i] : i \in 1 .. n}
  BY DEF BeginSet
<1>3. PICK q \in [1 .. n -> Ids \ taken] :
         /\ Distinct(q)
         /\ todo' = [todo EXCEPT ![o] = q]
         /\ taken' = taken \cup {q[i] : i \in 1 .. n}
  BY <1>2
<1>4. n \in Nat /\ n # 0
  BY SecretsAssumption
<1>5. q \in Seq(Ids) /\ q # <<>>
  <2>1. q \in Seq(Ids) /\ Len(q) = n
    BY <1>4
  <2>2. Len(<<>>) = 0
    OBVIOUS
  <2> QED
    BY <1>4, <2>1, <2>2, Zenon
<1>6. DOMAIN q = 1 .. n /\ Listed(q) = {q[i] : i \in 1 .. n} /\ Listed(q) \subseteq Ids \ taken
  BY DEF Listed
<1>7. /\ todo' \in [Calls -> Seq(Ids)] /\ todo'[o] = q
      /\ kind' \in [Calls -> Kinds] /\ kind'[o] = "Set"
      /\ pc' \in [Calls -> Places] /\ pc'[o] = "vaultSet"
      /\ \A p \in Calls \ {o} : pc'[p] = pc[p] /\ kind'[p] = kind[p] /\ todo'[p] = todo[p]
  BY <1>1, <1>3, <1>5 DEF TypeOK, Kinds, Places, StorePlaces
<1> QED
  BY <1>1, <1>3, <1>5, <1>6, <1>7, IdleCall DEF BeginsSet, Begins

LEMMA BeginOtherBegins ==
    ASSUME TypeOK, Control, NEW o \in Calls, NEW k \in Kinds \ {"Set"}, NEW s \in Ids, BeginOther(o, k, s)
    PROVE  BeginsOther(o)
<1>1. /\ pc[o] = "idle" /\ Exists(s)
      /\ Serial => k = "GetValue" \/ NoMutation
      /\ kind' = [kind EXCEPT ![o] = k] /\ pc' = [pc EXCEPT ![o] = "load"]
      /\ todo' = [todo EXCEPT ![o] = <<s>>]
      /\ UNCHANGED <<meta, vault, audit, made, copy, taken, doubt, faults, crashes>>
  BY DEF BeginOther, Goto, storeVars, badVars
<1>2. /\ todo' \in [Calls -> Seq(Ids)] /\ todo'[o] = <<s>>
      /\ kind' \in [Calls -> Kinds] /\ kind'[o] = k
      /\ pc' \in [Calls -> Places] /\ pc'[o] = "load"
      /\ \A p \in Calls \ {o} : pc'[p] = pc[p] /\ kind'[p] = kind[p] /\ todo'[p] = todo[p]
  BY <1>1 DEF TypeOK, Kinds, Places, StorePlaces
<1> QED
  BY <1>1, <1>2, IdleCall, OneListed DEF BeginsOther, Begins

\* What stays true whatever begins.
LEMMA BeginsKeeps ==
    ASSUME IInv, NEW o \in Calls, Begins(o)
    PROVE  /\ OneMutation'
           /\ \A p \in Calls \ {o} :
                 /\ Ahead(p)' = Ahead(p) /\ Made(p)' = Made(p) /\ AtHand(p)' = AtHand(p)
                 /\ (Busy(p)' <=> Busy(p))
           /\ Made(o)' = {}
           /\ \A s \in Ids : PartlyRotated(s)' = PartlyRotated(s)
<1>1. \A p \in Calls \ {o} : /\ Ahead(p)' = Ahead(p) /\ Made(p)' = Made(p) /\ AtHand(p)' = AtHand(p)
                             /\ (Busy(p)' <=> Busy(p))
  BY DEF Begins, Ahead, Made, AtHand, Cur, Busy
<1>2. OneMutation'
  <2> SUFFICES ASSUME Serial, NEW p \in Calls, NEW q \in Calls, Busy(p)', Busy(q)',
                      kind'[p] # "GetValue", kind'[q] # "GetValue"
               PROVE  p = q
    BY DEF OneMutation
  <2>1. CASE p # o /\ q # o
    BY <1>1, <2>1 DEF IInv, OneMutation, Begins
  <2>2. CASE p = o /\ q # o
    BY <1>1, <2>2 DEF Begins, NoMutation
  <2>3. CASE p # o /\ q = o
    BY <1>1, <2>3 DEF Begins, NoMutation
  <2> QED
    BY <2>1, <2>2, <2>3
<1>3. Made(o)' = {}
  BY DEF Begins, Made
<1>4. ASSUME NEW s \in Ids PROVE PartlyRotated(s)' = PartlyRotated(s)
  <2>1. <<o, s, "PartialFailure">> \notin audit
    BY DEF IInv, PartlyEnded, Begins
  <2> QED
    BY <2>1 DEF Begins, PartlyRotated
<1> QED
  BY <1>1, <1>2, <1>3, <1>4

LEMMA BeginsInvariant ==
    ASSUME IInv, NEW o \in Calls, BeginsSet(o) \/ BeginsOther(o)
    PROVE  IInv'
<1>1. /\ Begins(o)
      /\ kind'[o] \in Kinds /\ pc'[o] \in {"vaultSet", "load"}
      /\ kind'[o] = "Set" => /\ pc'[o] = "vaultSet" /\ Distinct(todo'[o])
                             /\ Listed(todo'[o]) \subseteq Ids \ taken
                             /\ taken' = taken \cup Listed(todo'[o])
      /\ kind'[o] # "Set" => /\ pc'[o] = "load" /\ taken' = taken
                             /\ \E s \in Ids : Exists(s) /\ todo'[o] = <<s>>
  BY DEF BeginsSet, BeginsOther, Begins, Kinds
<1>2. /\ OneMutation'
      /\ \A p \in Calls \ {o} :
            /\ Ahead(p)' = Ahead(p) /\ Made(p)' = Made(p) /\ AtHand(p)' = AtHand(p)
            /\ (Busy(p)' <=> Busy(p))
            /\ pc'[p] = pc[p] /\ kind'[p] = kind[p] /\ todo'[p] = todo[p] /\ made'[p] = made[p]
            /\ copy'[p] = copy[p]
      /\ Made(o)' = {} /\ made'[o] = <<>> /\ Ahead(o)' = Listed(todo'[o])
      /\ \A s \in Ids : PartlyRotated(s)' = PartlyRotated(s)
  BY <1>1, BeginsKeeps, IdleCall DEF Begins, IInv, Ahead
<1>3. ASSUME NEW s, s \in Listed(todo'[o]), kind'[o] # "Set" PROVE Exists(s)
  BY <1>1, <1>3, OneListed
<1>4. TypeOK'
  BY <1>1 DEF Begins, IInv, TypeOK
<1>5. Control'
  <2>1. \A p \in Calls \ {o} :
           pc'[p] \in PlacesOf(kind'[p]) /\ (pc'[p] = "idle" => kind'[p] = "GetValue") /\ ListsAt(p)'
    BY <1>2 DEF IInv, Control, ListsAt
  <2>2. kind'[o] # "Set" => Len(todo'[o]) = 1
    BY <1>1, OneListed
  <2>3. ListsAt(o)'
    <3>1. kind'[o] # "Set" => Len(todo'[o]) <= 1
      BY <2>2
    <3>2. kind'[o] = "Set" => Distinct(todo[o])'
      BY <1>1 DEF Distinct
    <3> QED
      BY <1>1, <1>2, <2>2, <3>1, <3>2 DEF ListsAt, Begins, Undoing
  <2>4. pc'[o] \in PlacesOf(kind'[o]) /\ pc'[o] # "idle"
    BY <1>1 DEF PlacesOf, Creating, Kinds, Mutations
  <2> QED
    BY <2>1, <2>3, <2>4 DEF Control
<1>6. PartlyEnded'
  BY <1>1, <1>2 DEF IInv, PartlyEnded, Begins
<1>7. ASSUME NEW t \in Ids, Untouched(t) PROVE Untouched(t)'
  <2>1. ASSUME NEW p \in Calls, kind'[p] # "Set" PROVE t \notin Ahead(p)'
    <3>1. ~Exists(t)
      BY <1>7 DEF Untouched
    <3> QED
      BY <1>2, <1>3, <1>7, <2>1, <3>1 DEF Untouched
  <2> QED
    BY <1>1, <1>7, <2>1 DEF Untouched, Begins, Exists
<1>8. ASSUME NEW t \in Ids, Fresh(t) PROVE Fresh(t)'
  BY <1>1, <1>7, <1>8 DEF Fresh, Begins
<1>9. IdsApart'
  <2>1. ASSUME NEW s \in Ids \ taken' PROVE Fresh(s)'
    BY <1>1, <1>8 DEF IInv, IdsApart
  <2>2. ASSUME NEW p \in Calls, kind'[p] = "Set"
        PROVE  /\ (Ahead(p) \cup Made(p))' \subseteq taken'
               /\ p # o => (Ahead(p) \cup Made(p))' \subseteq taken
               /\ p = o => (Ahead(p) \cup Made(p))' \cap taken = {}
    BY <1>1, <1>2, <2>2 DEF IInv, IdsApart
  <2>3. ASSUME NEW p \in Calls, NEW q \in Calls, kind'[p] = "Set", kind'[q] = "Set", p # q
        PROVE  ((Ahead(p) \cup Made(p)) \cap (Ahead(q) \cup Made(q)))' = {}
    <3>1. CASE p # o /\ q # o
      BY <1>2, <2>3, <3>1 DEF IInv, IdsApart
    <3>2. CASE p = o \/ q = o
      BY <2>2, <2>3, <3>2
    <3> QED
      BY <3>1, <3>2
  <2> QED
    BY <2>1, <2>2, <2>3 DEF IdsApart
<1>10. SetsRight'
  <2>1. ASSUME NEW p \in Calls, kind'[p] = "Set", p # o PROVE SetAt(p)'
    <3>1. SetAt(p) /\ Ahead(p) \cup Made(p) \subseteq Ids
      BY <1>2, <2>1, ListedType DEF IInv, SetsRight, TypeOK, Ahead, Made
    <3>2. \A t : Told(p, t) => Told(p, t)'
      BY <1>1 DEF Begins, Told, Gone, Exists, Live
    <3>3. pc[p] \in {"insert", "cleanup", "orphan"}
             => AtHand(p) \subseteq Ids /\ Listed(Tail(todo[p])) \subseteq Ids
      <4>1. pc[p] \in {"insert", "cleanup", "orphan"} => Cur(p) \in Ids /\ Tail(todo[p]) \in Seq(Ids)
        BY AtWork DEF IInv, Resting, Ended
      <4> QED
        BY <4>1, ListedType DEF AtHand
    <3> QED
      BY <1>1, <1>2, <1>7, <1>8, <2>1, <3>1, <3>2, <3>3 DEF SetAt, Undoing, Begins, Exists
  <2>2. ASSUME kind'[o] = "Set" PROVE SetAt(o)'
    <3>1. \A t \in Listed(todo'[o]) : Fresh(t)'
      BY <1>1, <1>8, <2>2 DEF IInv, IdsApart
    <3> QED
      BY <1>1, <1>2, <2>2, <3>1 DEF SetAt, Undoing
  <2> QED
    BY <2>1, <2>2 DEF SetsRight
<1>11. LoadedHolds'
  <2> SUFFICES ASSUME Serial, NEW p \in Calls PROVE LoadedAt(p)'
    BY DEF LoadedHolds
  <2>1. CASE p = o
    BY <1>1, <2>1 DEF LoadedAt
  <2>2. CASE p # o
    BY <1>1, <1>2, <2>2 DEF IInv, LoadedHolds, LoadedAt, Begins, Exists, Live
  <2> QED
    BY <2>1, <2>2
<1>12. ValueBehindSecret'
  <2>1. ASSUME NEW s, HalfPurged(s) PROVE HalfPurged(s)'
    BY <1>1, <1>2, <2>1 DEF HalfPurged, Begins
  <2> QED
    BY <1>1, <2>1 DEF IInv, ValueBehindSecret, Begins, Exists, Live
<1>13. OrphanKnown'
  <2>1. ASSUME NEW s, SetHas(s) PROVE SetHas(s)'
    <3>1. PICK p \in Calls : /\ kind[p] = "Set" /\ (Busy(p) \/ pc[p] = "crashed")
                             /\ s \in Ahead(p) \cup Made(p)
      BY <2>1 DEF SetHas
    <3>2. p # o
      BY <1>1, <3>1 DEF Begins
    <3> QED
      BY <1>2, <3>1, <3>2 DEF SetHas
  <2>2. ASSUME NEW s PROVE OrphanTold(s) => OrphanTold(s)'
    BY <1>1 DEF Begins, OrphanTold
  <2> QED
    BY <1>1, <2>1, <2>2 DEF IInv, OrphanKnown, Begins, Exists, Live
<1>14. BooksKept'
  <2> SUFFICES ASSUME Serial, NEW s \in Ids, s \notin doubt', Exists(s)', ~RotationStopped(s)'
               PROVE  Balanced(s)'
    BY DEF BooksKept
  <2>1. ASSUME RotationStopped(s) PROVE FALSE
    <3>1. PICK p \in Calls : kind[p] = "Rotate" /\ pc[p] = "crashed" /\ s \in Ahead(p)
      BY <2>1 DEF RotationStopped
    <3>2. p # o
      BY <1>1, <3>1 DEF Begins
    <3> QED
      BY <1>2, <3>1, <3>2 DEF RotationStopped
  <2>2. Balanced(s)
    BY <1>1, <2>1 DEF IInv, BooksKept, Begins, Exists
  <2>3. Rotating(s)' <=> Rotating(s)
    <3>1. ASSUME NEW p \in Calls
          PROVE  (kind[p] = "Rotate" /\ pc[p] \in {"replace", "auditPartly"} /\ s \in Ahead(p))'
                 <=> (kind[p] = "Rotate" /\ pc[p] \in {"replace", "auditPartly"} /\ s \in Ahead(p))
      BY <1>1, <1>2 DEF Begins
    <3> QED
      BY <3>1 DEF Rotating
  <2> QED
    BY <1>1, <1>2, <2>2, <2>3 DEF Balanced, Begins
<1> QED
  BY <1>2, <1>4, <1>5, <1>6, <1>9, <1>10, <1>11, <1>12, <1>13, <1>14 DEF IInv

-----------------------------------------------------------------------------
(* The theorems.                                                           *)

LEMMA InitInvariant == Init => IInv
<1> SUFFICES ASSUME Init PROVE IInv
  OBVIOUS
<1>1. /\ None \in Documents /\ None.status = "none"
      /\ \A s \in Ids : ~Exists(s) /\ vault[s] = [state |-> "none", writes |-> 0]
      /\ \A o \in Calls : /\ pc[o] = "idle" /\ kind[o] = "GetValue" /\ ~Busy(o)
                          /\ todo[o] = <<>> /\ made[o] = <<>> /\ Ahead(o) = {} /\ Made(o) = {}
      /\ audit = {}
  BY OneListed DEF Init, Exists, Live, Busy, Ended, Ahead, Made, Documents, None, Statuses, Accesses
<1>2. TypeOK
  BY <1>1 DEF Init, TypeOK, Kinds, Places
<1>3. Control
  <2>1. Len(<<>>) = 0
    OBVIOUS
  <2> QED
    BY <1>1, <2>1 DEF Control, ListsAt, PlacesOf, Resting, Undoing, Ended
<1>4. IdsApart
  BY <1>1 DEF IdsApart, Fresh, Untouched
<1>5. ValueBehindSecret /\ OrphanKnown /\ BooksKept
  BY <1>1 DEF ValueBehindSecret, OrphanKnown, BooksKept, Live
<1>6. PartlyEnded /\ SetsRight /\ OneMutation /\ LoadedHolds
  BY <1>1 DEF PartlyEnded, SetsRight, OneMutation, LoadedHolds, LoadedAt
<1> QED
  BY <1>2, <1>3, <1>4, <1>5, <1>6 DEF IInv

LEMMA WorksInvariant ==
    ASSUME IInv, NEW o \in Calls, Works(o)
    PROVE  IInv'
<1>1. /\ TypeOK /\ Control /\ PartlyEnded /\ IdsApart /\ SetsRight /\ OneMutation
      /\ LoadedHolds /\ ValueBehindSecret /\ OrphanKnown /\ BooksKept
  BY DEF IInv
<1>2. TypeOK' /\ Control'
  BY <1>1, WorksTypes, WorksControl
<1>3. PartlyEnded' /\ IdsApart' /\ OneMutation'
  BY <1>1, WorksPartly, WorksApart, WorksOne
<1>4. SetsRight' /\ LoadedHolds'
  BY <1>1, WorksSets, WorksLoaded
<1>5. ValueBehindSecret'
  BY <1>1, WorksBehind
<1>6. OrphanKnown'
  BY <1>1, <1>2, <1>4, WorksOrphans
<1>7. BooksKept'
  BY <1>1, WorksBooks
<1> QED
  BY <1>2, <1>3, <1>4, <1>5, <1>6, <1>7 DEF IInv

LEMMA SameInvariant == ASSUME IInv, UNCHANGED vars PROVE IInv'
<1>1. UNCHANGED <<meta, vault, audit, kind, pc, todo, made, copy, taken, doubt, faults, crashes>>
  BY DEF vars, storeVars, callVars, badVars
<1>2. /\ \A s : /\ (Exists(s)' <=> Exists(s)) /\ (Live(s)' <=> Live(s))
                /\ (Untouched(s)' <=> Untouched(s)) /\ (Fresh(s)' <=> Fresh(s))
                /\ (HalfPurged(s)' <=> HalfPurged(s)) /\ (SetHas(s)' <=> SetHas(s))
                /\ (OrphanTold(s)' <=> OrphanTold(s))
                /\ (RotationStopped(s)' <=> RotationStopped(s)) /\ (Balanced(s)' <=> Balanced(s))
  BY <1>1 DEF Exists, Live, Untouched, Fresh, HalfPurged, SetHas, OrphanTold, RotationStopped, Balanced,
     Rotating, PartlyRotated, Ahead, Made, Busy
<1>3. TypeOK' /\ Control'
  BY <1>1 DEF IInv, TypeOK, Control, ListsAt, Ahead, Made
<1>4. PartlyEnded' /\ OneMutation'
  BY <1>1 DEF IInv, PartlyEnded, OneMutation, Busy
<1>5. IdsApart'
  BY <1>1, <1>2 DEF IInv, IdsApart, Ahead, Made
<1>6. SetsRight'
  <2>1. \A o, s : Told(o, s)' <=> Told(o, s)
    BY <1>1, <1>2 DEF Told, Gone
  <2> QED
    BY <1>1, <1>2, <2>1 DEF IInv, SetsRight, SetAt, Ahead, Made, AtHand, Cur, Undoing
<1>7. LoadedHolds'
  BY <1>1, <1>2 DEF IInv, LoadedHolds, LoadedAt, AtHand, Cur
<1>8. ValueBehindSecret' /\ OrphanKnown' /\ BooksKept'
  BY <1>1, <1>2 DEF IInv, ValueBehindSecret, OrphanKnown, BooksKept
<1> QED
  BY <1>3, <1>4, <1>5, <1>6, <1>7, <1>8 DEF IInv

\* The invariant is inductive.
THEOREM SecretsInvariance == Spec => []IInv
<1>1. IInv /\ [Next]_vars => IInv'
  <2> SUFFICES ASSUME IInv, [Next]_vars PROVE IInv'
    OBVIOUS
  <2>0. TypeOK /\ Control
    BY DEF IInv
  <2>1. ASSUME NEW o \in Calls, BeginSet(o) PROVE IInv'
    BY <2>0, <2>1, BeginSetBegins, BeginsInvariant
  <2>2. ASSUME NEW o \in Calls, NEW k \in Kinds \ {"Set"}, NEW s \in Ids, BeginOther(o, k, s) PROVE IInv'
    BY <2>0, <2>2, BeginOtherBegins, BeginsInvariant
  <2>3. ASSUME NEW o \in Calls, Step(o) \/ Throw(o) \/ ThrowLate(o) \/ Crash(o) PROVE IInv'
    BY <2>3, WorksInvariant DEF Works
  <2>4. CASE Terminating \/ UNCHANGED vars
    BY <2>4, SameInvariant DEF Terminating
  <2> QED
    BY <2>1, <2>2, <2>3, <2>4 DEF Next
<1> QED
  BY InitInvariant, <1>1, PTL DEF Spec

\* Types of the documents, the values and the calls, whatever stores throw and
\* whichever process stops.
THEOREM SecretTypes == Spec => []TypeOK
<1>1. IInv => TypeOK
  BY DEF IInv
<1> QED
  BY <1>1, SecretsInvariance, PTL

\* A secret that is listed has its value, unless a purge is or stopped between
\* the two stores, for mutations in any interleaving.
THEOREM ValueBehind == Spec => []ValueBehindSecret
<1>1. IInv => ValueBehindSecret
  BY DEF IInv
<1> QED
  BY <1>1, SecretsInvariance, PTL

\* A SetManyAsync that failed left no secret the audit does not tell of, also
\* while other calls go on (CompensateAsync).
THEOREM FailedBatchTold == Spec => []AllOrTold
<1>1. IInv => AllOrTold
  <2> SUFFICES ASSUME IInv, NEW o \in Calls, kind[o] = "Set", pc[o] = "failed", NEW i \in DOMAIN made[o],
                      Exists(made[o][i]), made[o][i] \notin doubt
               PROVE  <<o, made[o][i], "Orphan">> \in audit
    BY DEF AllOrTold
  <2>1. made[o][i] \in Made(o)
    BY DEF Made, Listed
  <2> QED
    BY <2>1 DEF IInv, SetsRight, SetAt, Told, Gone
<1> QED
  BY <1>1, SecretsInvariance, PTL

\* While mutations come one after the other, a value no metadata points at was
\* recorded for reconciliation (CreateAsync, CompensateAsync).
THEOREM OrphansTold == ASSUME Serial PROVE Spec => []OrphanRecorded
<1>1. IInv => OrphanRecorded
  <2> SUFFICES ASSUME IInv, NEW s \in Ids \ doubt, Live(s), ~Exists(s),
                      \A o \in Calls : Busy(o) \/ pc[o] = "crashed" => ~Handling(o, s)
               PROVE  \E o \in Calls : <<o, s, "Orphan">> \in audit
    BY DEF OrphanRecorded
  <2>1. ~SetHas(s)
    BY DEF SetHas, Handling, Ahead, Made, Listed
  <2> QED
    BY <2>1 DEF IInv, OrphanKnown, OrphanTold
<1> QED
  BY <1>1, SecretsInvariance, PTL

\* While mutations come one after the other, the rotations counted and those
\* recorded as partial failures are all the writes of a value but the first
\* (RotateAsync).
THEOREM RotationsTold == ASSUME Serial PROVE Spec => []BookkeepingTold
<1>1. IInv => BookkeepingTold
  <2> SUFFICES ASSUME IInv, NEW s \in Ids \ doubt, Exists(s),
                      \A o \in Calls : Busy(o) \/ pc[o] = "crashed" => ~Handling(o, s)
               PROVE  vault[s].writes = 1 + meta[s].rotations + Cardinality(PartlyRotated(s))
    BY DEF BookkeepingTold, PartlyRotated
  <2>1. ~RotationStopped(s) /\ ~Rotating(s)
    BY DEF RotationStopped, Rotating, Handling, Ahead, Listed, Busy, Ended
  <2>2. Balanced(s)
    BY <2>1 DEF IInv, BooksKept
  <2>3. /\ meta[s].rotations \in Nat
        /\ Cardinality(PartlyRotated(s)) \in Nat
    BY <2>2, FS_CardinalityType DEF IInv, TypeOK, Documents, Balanced
  <2>4. vault[s].writes = meta[s].rotations + Cardinality(PartlyRotated(s)) + 1
    BY <2>1, <2>2 DEF Balanced
  <2> QED
    BY <2>3, <2>4
<1> QED
  BY <1>1, SecretsInvariance, PTL

-----------------------------------------------------------------------------
(* What was locked or deleted comes back only by an unlock or a restore,   *)
(* or by a stale write.                                                    *)

\* What is about to be replaced was loaded in a status the operation allows.
LoadedAllowed ==
    \A o \in Calls : pc[o] \in {"rotate", "replace"} => copy[o].status \in AllowedFrom(kind[o])

LEMMA WorksAllowed ==
    ASSUME TypeOK, Control, LoadedAllowed, NEW o \in Calls, Works(o)
    PROVE  LoadedAllowed'
<1>1. Alone(o) /\ Busy(o) /\ pc[o] \in Places
  BY WorksAlone DEF TypeOK
<1>2. ASSUME pc'[o] \in {"rotate", "replace"} PROVE copy'[o].status \in AllowedFrom(kind[o])
  <2>1. CASE pc[o] = "load"
    BY <1>2, <2>1, AtLoad
  <2>2. CASE pc[o] = "rotate"
    BY <2>2, AtRotate DEF Holds, LoadedAllowed
  <2>3. CASE pc[o] \in {"vaultSet", "insert", "cleanup", "orphan", "undo"}
    BY <1>2, <2>3, AtVaultSet, AtInsert, AtCleanup, AtOrphan, AtUndo
  <2>4. CASE pc[o] \in {"undoMeta", "undoValue", "undoOrphan", "read", "audit"}
    BY <1>2, <2>4, AtUndoMeta, AtUndoValue, AtUndoOrphan, AtRead, AtAudit DEF Passes
  <2>5. CASE pc[o] \in {"replace", "purgeDelete", "purgeVault", "hardDelete", "hardDeleteRefused"}
    BY <1>2, <2>5, AtReplace, AtPurgeDelete, AtPurgeVault, AtHardDelete
  <2>6. CASE pc[o] \in {"auditDenied", "auditFailed", "auditPartly", "auditRefused"}
    BY <1>2, <2>6, AtAuditOther
  <2> QED
    BY <1>1, <2>1, <2>2, <2>3, <2>4, <2>5, <2>6 DEF Busy, Places, StorePlaces, Ended
<1> QED
  BY <1>1, <1>2 DEF LoadedAllowed, Alone

LEMMA ChangedStatus ==
    ASSUME NEW k \in Mutations \ {"Purge"}, NEW doc \in Documents, doc.status \in AllowedFrom(k)
    PROVE  /\ doc.status = "deleted" => k = "Restore"
           /\ doc.status = "locked" /\ Changed(k, doc).status = "active" => k = "Unlock"
<1>1. doc.status = "deleted" => k = "Restore"
  BY DEF AllowedFrom, Mutations
<1>2. doc.status = "locked" /\ Changed(k, doc).status = "active" => k = "Unlock"
  <2>1. CASE k \in {"Update", "UpdateAccess", "Rotate"}
    <3>1. PICK st \in Statuses \cup {"none"}, ac \in Accesses, n \in Nat :
             doc = [status |-> st, access |-> ac, rotations |-> n]
      BY DEF Documents
    <3> QED
      BY <2>1, <3>1 DEF Changed
  <2>2. CASE k = "Delete"
    BY <2>2 DEF Changed, Documents
  <2> QED
    BY <2>1, <2>2 DEF AllowedFrom, Mutations
<1> QED
  BY <1>1, <1>2

StatusStep ==
    \A s \in Ids :
        /\ meta[s].status = "deleted" /\ meta'[s].status \in {"active", "locked"} =>
              \E o \in Calls : Replacing("Restore", s, o) \/ WritesStale(s, o)
        /\ meta[s].status = "locked" /\ meta'[s].status = "active" =>
              \E o \in Calls : Replacing("Unlock", s, o) \/ WritesStale(s, o)

LEMMA WorksStatus ==
    ASSUME TypeOK, Control, SetsRight, LoadedAllowed, NEW o \in Calls, Works(o)
    PROVE  StatusStep
<1> SUFFICES ASSUME NEW s \in Ids, meta[s].status \in {"deleted", "locked"},
                    meta'[s].status \in {"active", "locked"}, meta'[s].status # meta[s].status
             PROVE  /\ meta[s].status = "deleted" =>
                          Replacing("Restore", s, o) \/ WritesStale(s, o)
                    /\ meta[s].status = "locked" /\ meta'[s].status = "active" =>
                          Replacing("Unlock", s, o) \/ WritesStale(s, o)
  BY DEF StatusStep
<1>0. Exists(s) /\ Exists(s)'
  BY DEF Exists
<1>1. s = Cur(o) /\ pc[o] \notin Resting /\ meta' # meta
  BY WorksElsewhere
<1>2. None.status = "none" /\ meta'[s] # None
  BY <1>0, StoreFields DEF Exists
<1>3. pc[o] # "insert"
  BY <1>0, <1>1, KindFromPlace DEF SetsRight, SetAt, AtHand, Creating, Untouched
<1>4. pc[o] \notin {"undoMeta", "hardDelete", "hardDeleteRefused"}
  BY <1>1, <1>2, AtUndoMeta, AtHardDelete
<1>5. pc[o] \notin {"load", "rotate", "read", "audit", "purgeDelete", "purgeVault"}
  BY <1>1, AtLoad, AtRotate, AtRead, AtAudit, AtPurgeDelete, AtPurgeVault DEF StoresKept, OnlyValue
<1>6. pc[o] \notin {"auditDenied", "auditFailed", "auditPartly", "auditRefused"}
  BY <1>1, AtAuditOther DEF StoresKept
<1>7. pc[o] \notin {"vaultSet", "cleanup", "orphan", "undo", "undoValue", "undoOrphan"}
  BY <1>1, AtVaultSet, AtCleanup, AtOrphan, AtUndo, AtUndoValue, AtUndoOrphan DEF StoresKept, OnlyValue
<1>8. pc[o] = "replace"
  <2>1. pc[o] \in Places
    BY DEF TypeOK
  <2> QED
    BY <1>1, <1>3, <1>4, <1>5, <1>6, <1>7, <2>1 DEF Places, StorePlaces, Resting, Ended
<1>9. /\ kind[o] \in Mutations \ {"Purge"} /\ kind[o] # "Set"
      /\ copy[o] \in Documents /\ copy[o].status \in AllowedFrom(kind[o])
  BY <1>1, <1>8, KindFromPlace DEF LoadedAllowed, TypeOK, Mutations
<1>10. meta'[s] = Changed(kind[o], copy[o]) /\ todo[o] = <<s>>
  BY <1>0, <1>1, <1>8, <1>9, AtReplace, JustOne
<1>11. CASE copy[o] # meta[s]
  BY <1>8, <1>10, <1>11 DEF WritesStale
<1>12. CASE copy[o] = meta[s]
  BY <1>8, <1>9, <1>10, <1>12, ChangedStatus DEF Replacing
<1> QED
  BY <1>11, <1>12

\* Whatever calls overlap, a deleted secret is there again only by a restore, and
\* a locked one active only by an unlock, or else by a call that writes back a
\* document it loaded before another call replaced it (ReplaceAsync).
THEOREM ComesBackAsked == Spec => ComesBack
<1>1. Init => LoadedAllowed
  BY DEF Init, LoadedAllowed
<1>2. IInv /\ LoadedAllowed /\ [Next]_vars => LoadedAllowed' /\ (StatusStep \/ UNCHANGED vars)
  <2> SUFFICES ASSUME IInv, LoadedAllowed, [Next]_vars
               PROVE  LoadedAllowed' /\ (StatusStep \/ UNCHANGED vars)
    OBVIOUS
  <2>0. TypeOK /\ Control /\ SetsRight
    BY DEF IInv
  <2>1. ASSUME NEW o \in Calls, BeginsSet(o) \/ BeginsOther(o)
        PROVE  LoadedAllowed' /\ StatusStep
    BY <2>1 DEF BeginsSet, BeginsOther, Begins, LoadedAllowed, StatusStep
  <2>2. ASSUME NEW o \in Calls, BeginSet(o) PROVE LoadedAllowed' /\ StatusStep
    BY <2>0, <2>1, <2>2, BeginSetBegins
  <2>3. ASSUME NEW o \in Calls, NEW k \in Kinds \ {"Set"}, NEW s \in Ids, BeginOther(o, k, s)
        PROVE  LoadedAllowed' /\ StatusStep
    BY <2>0, <2>1, <2>3, BeginOtherBegins
  <2>4. ASSUME NEW o \in Calls, Step(o) \/ Throw(o) \/ ThrowLate(o) \/ Crash(o)
        PROVE  LoadedAllowed' /\ StatusStep
    BY <2>0, <2>4, WorksAllowed, WorksStatus DEF Works
  <2>5. CASE Terminating \/ UNCHANGED vars
    BY <2>5 DEF Terminating, LoadedAllowed, vars, callVars
  <2> QED
    BY <2>2, <2>3, <2>4, <2>5 DEF Next
<1>3. Spec => []LoadedAllowed
  BY <1>1, <1>2, SecretsInvariance, PTL DEF Spec
<1>4. IInv /\ LoadedAllowed /\ [Next]_vars => [StatusStep]_vars
  BY <1>2
<1>5. Spec => [][StatusStep]_vars
  BY <1>3, <1>4, SecretsInvariance, PTL DEF Spec
<1> QED
  BY <1>5, PTL DEF ComesBack, StatusStep
=============================================================================

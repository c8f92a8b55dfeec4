------------------------------- MODULE Secrets -------------------------------
(***************************************************************************)
(* SecretService: secrets whose metadata is in MongoDB and whose value is  *)
(* in a value store, Azure Key Vault or a collection beside the metadata.  *)
(* There is no transaction over the two and no version on the metadata:    *)
(* a mutation loads the whole document and later replaces all of it.       *)
(*                                                                         *)
(* A call o of the service is a thread; each call of a store is one step   *)
(* of it.  SetAsync is a SetManyAsync of one secret.  Callers are          *)
(* authorised; names, tags and descriptions are left out.                  *)
(***************************************************************************)
EXTENDS Naturals, Sequences, FiniteSets

CONSTANTS Ids,         \* ids of secrets
          Calls,       \* calls of the service
          KeyVault,    \* whether values are in Key Vault or in the database
          MaxBatch,    \* bound: secrets of one SetManyAsync
          Serial,      \* bound: whether mutations come one after the other
          MaxFaults,   \* bound: calls of a store that throw
          MaxCrashes   \* bound: calls whose process stops half way

ASSUME SecretsAssumption ==
    /\ {KeyVault, Serial} \subseteq BOOLEAN
    /\ {MaxBatch, MaxFaults, MaxCrashes} \subseteq Nat

VARIABLES meta,      \* the metadata document of each secret
          vault,     \* the value of each secret: state and number of writes
          audit,     \* outcomes recorded: <<call, secret, outcome>>
          kind,      \* the operation of each call
          pc,        \* where each call is
          todo,      \* secrets the call has still to handle, in order
          made,      \* secrets a SetManyAsync has created
          copy,      \* the document a call has loaded
          taken,     \* ids given out
          doubt,     \* history: secrets with a write whose effect its caller does
                     \* not know, or an audit record that is lost
          faults,
          crashes

storeVars == <<meta, vault>>
callVars  == <<kind, todo, made, copy>>
badVars   == <<doubt, faults, crashes>>
vars == <<storeVars, audit, callVars, pc, taken, badVars>>

-----------------------------------------------------------------------------
(* Documents and operations.                                               *)

Statuses == {"active", "locked", "deleted"}
Accesses == {"initial", "changed"}

None == [status |-> "none", access |-> "initial", rotations |-> 0]
New  == [None EXCEPT !.status = "active"]
Documents == [status : Statuses \cup {"none"}, access : Accesses, rotations : Nat]

Exists(s) == meta[s].status # "none"
Live(s) == vault[s].state = "live"

\* Replacing the document, moving its status, and the rest of a secret's life.
Mutations == {"Update", "UpdateAccess", "Rotate", "Lock", "Unlock", "Delete", "Restore", "Purge"}
Kinds == Mutations \cup {"Set", "GetValue"}

\* The statuses an operation starts from: EnsureTransitionAllowed, and for a
\* read CheckValueRead.
AllowedFrom(k) ==
    CASE k \in {"Update", "UpdateAccess", "Rotate", "Delete"} -> {"active", "locked"}
      [] k \in {"Lock", "GetValue"}                          -> {"active"}
      [] k = "Unlock"                                        -> {"locked"}
      [] k \in {"Restore", "Purge"}                          -> {"deleted"}

\* Slip: rotating counts down.
ChangedBelow(k, doc) ==
    CASE k \in {"Update", "UpdateAccess"} -> doc
      [] k = "Rotate"                     -> [doc EXCEPT !.rotations = @ - 1]
      [] k \notin {"Update", "UpdateAccess", "Rotate"} -> [doc EXCEPT !.status = "deleted"]

\* What the operation makes of the document it loaded.
Changed(k, doc) ==
    CASE k = "Update"                -> doc
      [] k = "UpdateAccess"          -> [doc EXCEPT !.access = "changed"]
      [] k = "Rotate"                -> [doc EXCEPT !.rotations = @ + 1]
      [] k = "Lock"                  -> [doc EXCEPT !.status = "locked"]
      [] k \in {"Unlock", "Restore"} -> [doc EXCEPT !.status = "active"]
      [] k = "Delete"                -> [doc EXCEPT !.status = "deleted"]

Ended == {"done", "failed", "partly", "crashed"}
Busy(o) == pc[o] \notin Ended \cup {"idle"}

Init ==
    /\ meta = [s \in Ids |-> None]
    /\ vault = [s \in Ids |-> [state |-> "none", writes |-> 0]]
    /\ audit = {}
    /\ kind = [o \in Calls |-> "GetValue"]
    /\ pc = [o \in Calls |-> "idle"]
    /\ todo = [o \in Calls |-> <<>>]
    /\ made = [o \in Calls |-> <<>>]
    /\ copy = [o \in Calls |-> None]
    /\ taken = {}
    /\ doubt = {}
    /\ faults = 0
    /\ crashes = 0

Goto(o, place) == pc' = [pc EXCEPT ![o] = place]
Cur(o) == Head(todo[o])

-----------------------------------------------------------------------------
(* The value stores.                                                       *)

\* Both SetAsync; Key Vault refuses the name of a value that was deleted and
\* not purged.
Writable(s) == vault[s].state # "deleted"
WriteValue(s) ==
    vault' = [vault EXCEPT ![s] = [state |-> "live", writes |-> @.writes + 1]]

\* DeleteAsync: Key Vault keeps the value until it is purged.
DeletedState(s) ==
    CASE KeyVault /\ vault[s].state # "none" -> "deleted"
      [] ~KeyVault \/ vault[s].state = "none" -> "none"
DeleteValue(s) == vault' = [vault EXCEPT ![s].state = DeletedState(s)]

-----------------------------------------------------------------------------
(* A call begins.                                                          *)

NoMutation == \A o \in Calls : Busy(o) => kind[o] = "GetValue"

Distinct(q) == \A i, j \in DOMAIN q : q[i] = q[j] => i = j

\* BuildSecret gives a new secret an id no secret ever had.
BeginSet(o) ==
    /\ pc[o] = "idle"
    /\ Serial => NoMutation
    /\ \E n \in 1 .. MaxBatch : \E q \in [1 .. n -> Ids \ taken] :
          /\ Distinct(q)
          /\ todo' = [todo EXCEPT ![o] = q]
          /\ taken' = taken \cup {q[i] : i \in 1 .. n}
    /\ kind' = [kind EXCEPT ![o] = "Set"]
    /\ Goto(o, "vaultSet")
    /\ UNCHANGED <<storeVars, audit, made, copy, badVars>>

\* A client knows the id of a secret once its metadata can be listed.
BeginOther(o, k, s) ==
    /\ pc[o] = "idle"
    /\ k # "GetValue" /\ Serial => NoMutation
    /\ Exists(s)
    /\ kind' = [kind EXCEPT ![o] = k]
    /\ todo' = [todo EXCEPT ![o] = <<s>>]
    /\ Goto(o, "load")
    /\ UNCHANGED <<storeVars, audit, made, copy, taken, badVars>>

-----------------------------------------------------------------------------
(* SetManyAsync: CreateAsync for each secret, vault first; then the audit. *)

VaultSet(o, after) ==
    /\ pc[o] = "vaultSet"
    /\ WriteValue(Cur(o))
    /\ Goto(o, after)
    /\ UNCHANGED <<meta, audit, callVars, taken>>

\* The secret is created: on to the next one, or to the audit of all.
Insert(o) ==
    /\ pc[o] = "insert"
    /\ meta' = [meta EXCEPT ![Cur(o)] = New]
    /\ made' = [made EXCEPT ![o] = Append(@, Cur(o))]
    /\ IF Len(todo[o]) = 1
       THEN todo' = [todo EXCEPT ![o] = made'[o]] /\ Goto(o, "audit")
       ELSE todo' = [todo EXCEPT ![o] = Tail(@)]  /\ Goto(o, "vaultSet")
    /\ UNCHANGED <<vault, audit, kind, copy, taken, badVars>>

\* The insert throws and the document is there all the same.
InsertLate(o) ==
    /\ pc[o] = "insert"
    /\ meta' = [meta EXCEPT ![Cur(o)] = New]
    /\ Goto(o, "cleanup")
    /\ UNCHANGED <<vault, audit, callVars, taken>>

\* The insert failed: the value is deleted again.
Cleanup(o) ==
    /\ pc[o] = "cleanup"
    /\ DeleteValue(Cur(o))
    /\ Goto(o, "auditFailed")
    /\ UNCHANGED <<meta, audit, callVars, taken, badVars>>

\* Slip: the failure of a batch is only rethrown.
UndoNothing(o) ==
    /\ pc[o] = "undo"
    /\ Goto(o, "failed")
    /\ UNCHANGED <<storeVars, audit, callVars, taken, badVars>>

\* CompensateAsync takes the secrets that were created in their order.
StartUndo(o) ==
    /\ pc[o] = "undo"
    /\ todo' = [todo EXCEPT ![o] = made[o]]
    /\ Goto(o, IF made[o] = <<>> THEN "failed" ELSE "undoMeta")
    /\ UNCHANGED <<storeVars, audit, kind, made, copy, taken, badVars>>

UndoMeta(o) ==
    /\ pc[o] = "undoMeta"
    /\ meta' = [meta EXCEPT ![Cur(o)] = None]
    /\ Goto(o, "undoValue")
    /\ UNCHANGED <<vault, audit, callVars, taken, badVars>>

\* On to the next secret of the list, or to the end of the call.
Advance(o, again, end) ==
    /\ todo' = [todo EXCEPT ![o] = Tail(@)]
    /\ Goto(o, IF Len(todo[o]) = 1 THEN end ELSE again)

UndoValue(o) ==
    /\ pc[o] = "undoValue"
    /\ DeleteValue(Cur(o))
    /\ Advance(o, "undoMeta", "failed")
    /\ UNCHANGED <<meta, audit, kind, made, copy, taken, badVars>>

-----------------------------------------------------------------------------
(* Every other operation loads the document first.                         *)

\* Where an operation goes once it may go on.
Afterwards(k) ==
    CASE k = "Rotate"   -> "rotate"
      [] k = "Purge"    -> "purgeDelete"
      [] k = "GetValue" -> "read"
      [] k \in {"Update", "UpdateAccess", "Lock", "Unlock", "Delete", "Restore"} -> "replace"

\* Slip: a mutation goes on in whatever status the secret is.
LoadUnchecked(o) ==
    /\ pc[o] = "load"
    /\ IF Exists(Cur(o)) THEN copy' = [copy EXCEPT ![o] = meta[Cur(o)]] /\ Goto(o, Afterwards(kind[o]))
                         ELSE UNCHANGED copy /\ Goto(o, "failed")
    /\ UNCHANGED <<storeVars, audit, kind, todo, made, taken, badVars>>

\* A mutation that is refused just throws; a read records the denial.
Load(o) ==
    LET s == Cur(o) IN
    /\ pc[o] = "load"
    /\ IF Exists(s) /\ meta[s].status \in AllowedFrom(kind[o])
       THEN copy' = [copy EXCEPT ![o] = meta[s]] /\ Goto(o, Afterwards(kind[o]))
       ELSE UNCHANGED copy /\ Goto(o, IF kind[o] = "GetValue" THEN "auditDenied" ELSE "failed")
    /\ UNCHANGED <<storeVars, audit, kind, todo, made, taken, badVars>>

\* RotateAsync writes the value before the document.
RotateValue(o, after) ==
    /\ pc[o] = "rotate"
    /\ IF Writable(Cur(o)) THEN WriteValue(Cur(o)) /\ Goto(o, after)
                           ELSE UNCHANGED vault /\ Goto(o, "failed")
    /\ UNCHANGED <<meta, audit, callVars, taken>>

\* Slip: the replacement inserts a document that is gone.
ReplaceOrInsert(o, after) ==
    /\ pc[o] = "replace"
    /\ meta' = [meta EXCEPT ![Cur(o)] = Changed(kind[o], copy[o])]
    /\ Goto(o, after)
    /\ UNCHANGED <<vault, audit, callVars, taken>>

\* ReplaceAsync matches by id only: the newest document is overwritten with
\* the loaded one, and a document that is gone stays so without an error.
Replace(o, after) ==
    LET s == Cur(o) IN
    /\ pc[o] = "replace"
    /\ meta' = [meta EXCEPT ![s] = IF Exists(s) THEN Changed(kind[o], copy[o]) ELSE None]
    /\ Goto(o, after)
    /\ UNCHANGED <<vault, audit, callVars, taken>>

\* PurgeAsync of the value store, in two steps for Key Vault.
PurgeDelete(o, after) ==
    /\ pc[o] = "purgeDelete"
    /\ DeleteValue(Cur(o))
    /\ Goto(o, after)
    /\ UNCHANGED <<meta, audit, callVars, taken>>

PurgeVault(o, after) ==
    /\ pc[o] = "purgeVault"
    /\ vault' = [vault EXCEPT ![Cur(o)].state = IF @ = "deleted" THEN "none" ELSE @]
    /\ Goto(o, after)
    /\ UNCHANGED <<meta, audit, callVars, taken>>

\* 'refused' when Key Vault kept the deleted value.
HardDelete(o) ==
    /\ pc[o] \in {"hardDelete", "hardDeleteRefused"}
    /\ meta' = [meta EXCEPT ![Cur(o)] = None]
    /\ Goto(o, IF pc[o] = "hardDelete" THEN "audit" ELSE "auditRefused")
    /\ UNCHANGED <<vault, audit, callVars, taken, badVars>>

ReadValue(o) ==
    /\ pc[o] = "read"
    /\ Goto(o, IF Live(Cur(o)) THEN "audit" ELSE "auditFailed")
    /\ UNCHANGED <<storeVars, audit, callVars, taken, badVars>>

-----------------------------------------------------------------------------
(* The audit.                                                              *)

\* RecordAsync swallows its own failures.
Record(o, outcome) ==
    \/ audit' = audit \cup {<<o, Cur(o), outcome>>} /\ UNCHANGED badVars
    \/ /\ faults < MaxFaults
       /\ faults' = faults + 1
       /\ doubt' = doubt \cup {Cur(o)}
       /\ UNCHANGED <<audit, crashes>>

\* A failed CreateAsync makes SetManyAsync undo the rest.
AuditEnd(o) ==
    /\ \/ pc[o] = "audit" /\ Record(o, "Success") /\ Advance(o, "audit", "done")
       \/ /\ \/ pc[o] = "auditDenied"  /\ Record(o, "Denied")         /\ Goto(o, "failed")
             \/ pc[o] = "auditPartly"  /\ Record(o, "PartialFailure") /\ Goto(o, "partly")
             \/ pc[o] = "auditRefused" /\ Record(o, "PartialFailure") /\ Goto(o, "done")
             \/ /\ pc[o] = "auditFailed"
                /\ Record(o, "Failed")
                /\ Goto(o, IF kind[o] = "Set" THEN "undo" ELSE "failed")
          /\ UNCHANGED todo
    /\ UNCHANGED <<storeVars, kind, made, copy, taken>>

\* Slip: an entry that could not be cleaned up is only logged.
OrphanLogged(o) ==
    /\ \/ pc[o] = "orphan"     /\ UNCHANGED todo /\ Goto(o, "auditFailed")
       \/ pc[o] = "undoOrphan" /\ Advance(o, "undoMeta", "failed")
    /\ UNCHANGED <<storeVars, audit, kind, made, copy, taken, badVars>>

\* An entry that could not be cleaned up is recorded for reconciliation.
AuditOrphan(o) ==
    /\ \/ pc[o] = "orphan"     /\ UNCHANGED todo /\ Goto(o, "auditFailed")
       \/ pc[o] = "undoOrphan" /\ Advance(o, "undoMeta", "failed")
    /\ Record(o, "Orphan")
    /\ UNCHANGED <<storeVars, kind, made, copy, taken>>

-----------------------------------------------------------------------------
(* Failures.                                                               *)

\* Where a call goes when the store throws at the place 'at'.
Caught(k, at) ==
    CASE at \in {"load", "rotate"}                  -> "failed"
      [] at = "vaultSet"                            -> "undo"
      [] at = "insert"                              -> "cleanup"
      [] at = "cleanup"                             -> "orphan"
      [] at \in {"undoMeta", "undoValue"}           -> "undoOrphan"
      [] at = "replace" /\ k = "Rotate"             -> "auditPartly"
      [] at = "replace" /\ k # "Rotate"             -> "failed"
      [] at \in {"purgeDelete", "read"}             -> "auditFailed"
      [] at = "purgeVault"                          -> "hardDeleteRefused"
      [] at \in {"hardDelete", "hardDeleteRefused"} -> "auditPartly"

StorePlaces == {"load", "rotate", "vaultSet", "insert", "cleanup", "undoMeta", "undoValue",
                "replace", "purgeDelete", "read", "purgeVault", "hardDelete", "hardDeleteRefused"}

\* Slip: a rotation whose replacement throws takes back a count it never made.
ThrowUncounting(o) ==
    /\ faults < MaxFaults
    /\ pc[o] \in StorePlaces
    /\ faults' = faults + 1
    /\ Goto(o, Caught(kind[o], pc[o]))
    /\ meta' = [meta EXCEPT ![Cur(o)].rotations =
                    IF pc[o] = "replace" /\ kind[o] = "Rotate" THEN @ - 1 ELSE @]
    /\ UNCHANGED <<vault, audit, callVars, taken, doubt, crashes>>

Throw(o) ==
    /\ faults < MaxFaults
    /\ pc[o] \in StorePlaces
    /\ faults' = faults + 1
    /\ Goto(o, Caught(kind[o], pc[o]))
    /\ UNCHANGED <<storeVars, audit, callVars, taken, doubt, crashes>>

\* The token of the request is cancelled, or the connection is lost, after the
\* server took the write.
ThrowLate(o) ==
    /\ faults < MaxFaults
    /\ faults' = faults + 1
    /\ \/ VaultSet(o, Caught("Set", "vaultSet"))
       \/ InsertLate(o)
       \/ RotateValue(o, Caught("Rotate", "rotate"))
       \/ Replace(o, Caught(kind[o], "replace"))
       \/ PurgeDelete(o, "failed")
       \/ PurgeVault(o, "failed")
    /\ doubt' = doubt \cup {Cur(o)}
    /\ UNCHANGED crashes

Crash(o) ==
    /\ crashes < MaxCrashes
    /\ Busy(o)
    /\ crashes' = crashes + 1
    /\ Goto(o, "crashed")
    /\ UNCHANGED <<storeVars, audit, callVars, taken, doubt, faults>>

-----------------------------------------------------------------------------

Step(o) ==
    \/ /\ \/ VaultSet(o, "insert")
          \/ RotateValue(o, "replace")
          \/ Replace(o, "audit")
          \/ PurgeDelete(o, IF KeyVault THEN "purgeVault" ELSE "hardDelete")
          \/ PurgeVault(o, "hardDelete")
       /\ UNCHANGED badVars
    \/ Insert(o)
    \/ Cleanup(o)
    \/ StartUndo(o)
    \/ UndoMeta(o)
    \/ UndoValue(o)
    \/ Load(o)
    \/ HardDelete(o)
    \/ ReadValue(o)
    \/ AuditEnd(o)
    \/ AuditOrphan(o)

Terminating == (\A o \in Calls : ~Busy(o)) /\ UNCHANGED vars

Next ==
    \/ \E o \in Calls :
          \/ BeginSet(o)
          \/ \E k \in Kinds \ {"Set"}, s \in Ids : BeginOther(o, k, s)
          \/ Step(o)
          \/ Throw(o)
          \/ ThrowLate(o)
          \/ Crash(o)
    \/ Terminating

Spec == Init /\ [][Next]_vars

-----------------------------------------------------------------------------
(* Properties.                                                             *)

Places == StorePlaces \cup Ended \cup
          {"idle", "undo", "orphan", "undoOrphan", "audit", "auditDenied",
           "auditFailed", "auditPartly", "auditRefused"}

\* Types: documents, values, the places of the calls and their lists.
TypeOK ==
    /\ meta \in [Ids -> Documents]
    /\ vault \in [Ids -> [state : {"none", "live", "deleted"}, writes : Nat]]
    /\ audit \subseteq Calls \X Ids \X {"Success", "Failed", "Denied", "PartialFailure", "Orphan"}
    /\ kind \in [Calls -> Kinds]
    /\ pc \in [Calls -> Places]
    /\ {todo, made} \subseteq [Calls -> Seq(Ids)]
    /\ copy \in [Calls -> Documents]
    /\ {taken, doubt} \subseteq SUBSET Ids
    /\ {faults, crashes} \subseteq Nat

\* A purge that is, or stopped, between the vault and the metadata.
HalfPurged(s) ==
    \E o \in Calls :
        /\ kind[o] = "Purge"
        /\ todo[o] = <<s>>
        /\ pc[o] \in {"purgeVault", "hardDelete", "hardDeleteRefused", "auditPartly",
                       "partly", "crashed"}

\* A secret that is listed has its value, also a deleted one, which could be
\* restored: the order of the writes of create, compensate and purge.  A write
\* whose effect its caller does not know is excluded, here and below.
ValueBehindSecret == \A s \in Ids \ doubt : Exists(s) /\ ~HalfPurged(s) => Live(s)

Handling(o, s) == \/ \E i \in DOMAIN todo[o] : todo[o][i] = s
                  \/ \E i \in DOMAIN made[o] : made[o][i] = s

\* A value no metadata points at was recorded for reconciliation, once no call
\* works on it (CreateAsync, CompensateAsync).
OrphanRecorded ==
    \A s \in Ids \ doubt :
        /\ Live(s) /\ ~Exists(s)
        /\ \A o \in Calls : Busy(o) \/ pc[o] = "crashed" => ~Handling(o, s)
        => \E o \in Calls : <<o, s, "Orphan">> \in audit

\* A batch that failed left nothing behind that the audit does not tell of.
AllOrTold ==
    \A o \in Calls :
        kind[o] = "Set" /\ pc[o] = "failed"
            => \A i \in DOMAIN made[o] :
                  Exists(made[o][i]) /\ made[o][i] \notin doubt
                      => <<o, made[o][i], "Orphan">> \in audit

\* An operation k is about to replace the document.
Replacing(k, s, o) == pc[o] = "replace" /\ kind[o] = k /\ todo[o] = <<s>>

\* What is about to be written is not the document as it is now.
WritesStale(s, o) == pc[o] = "replace" /\ todo[o] = <<s>> /\ copy[o] # meta[s]

\* What was deleted comes back only by a restore, and what was locked only by an
\* unlock, or else by a call that loaded the document before it was changed: the
\* checks of the status (EnsureTransitionAllowed) leave no other way.
ComesBack ==
    [][\A s \in Ids :
          /\ meta[s].status = "deleted" /\ meta'[s].status \in {"active", "locked"} =>
                \E o \in Calls : Replacing("Restore", s, o) \/ WritesStale(s, o)
          /\ meta[s].status = "locked" /\ meta'[s].status = "active" =>
                \E o \in Calls : Replacing("Unlock", s, o) \/ WritesStale(s, o)]_vars

\* The count of rotations is behind the writes of the value only by those that
\* were recorded as partial failures (RotateAsync), once no call works on it.
BookkeepingTold ==
    \A s \in Ids \ doubt :
        /\ Exists(s)
        /\ \A o \in Calls : Busy(o) \/ pc[o] = "crashed" => ~Handling(o, s)
        => vault[s].writes = 1 + meta[s].rotations
               + Cardinality({o \in Calls : kind[o] = "Rotate"
                                               /\ <<o, s, "PartialFailure">> \in audit})

-----------------------------------------------------------------------------
(* What the documentation says and the code does not keep.                 *)

\* "Returns a locked secret to active", "Restores a soft-deleted secret": what was
\* deleted is back only by a restore, what was locked active only by an unlock.
StatusKept ==
    [][\A s \in Ids :
          /\ meta[s].status = "deleted" /\ meta'[s].status \in {"active", "locked"} =>
                \E o \in Calls : Replacing("Restore", s, o)
          /\ meta[s].status = "locked" /\ meta'[s].status = "active" =>
                \E o \in Calls : Replacing("Unlock", s, o)]_vars

\* "The only reachable inconsistency is a vault entry no metadata points at,
\* which nothing can read."
NeverHollow == \A s \in Ids : meta[s].status = "active" => Live(s)

\* "On any failure every secret already created in this call is compensated
\* (vault delete plus metadata delete) before the exception propagates."
BatchCompensated ==
    \A o \in Calls :
        kind[o] = "Set" /\ pc[o] = "failed" => \A i \in DOMAIN made[o] : ~Exists(made[o][i])

\* "... the only methods that return plaintext, and both are always audited."
AlwaysAudited ==
    \A o \in Calls :
        kind[o] = "GetValue" /\ pc[o] = "done" => \E s \in Ids : <<o, s, "Success">> \in audit
=============================================================================

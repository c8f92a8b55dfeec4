----------------------------- MODULE SecretTags -----------------------------
(***************************************************************************)
(* SecretTagCatalogService: the tenant's tag catalogue is one document     *)
(* that RegisterAsync reads, extends and writes back whole.  A read that   *)
(* fails counts as an empty catalogue.                                     *)
(***************************************************************************)
EXTENDS Naturals, FiniteSets

CONSTANTS Tags,      \* tag keys
          Seeded,    \* the tags whose entries were seeded by hand
          Writers,   \* calls of RegisterAsync
          MaxFaults  \* bound: reads and writes of the document that throw

ASSUME TagsAssumption == Seeded \subseteq Tags /\ MaxFaults \in Nat

VARIABLES catalogue,  \* the entries: <<tag, whether its label was given by hand>>
          stored,     \* tags some secret carries
          pc,         \* where each call is
          keys,       \* the tags a call registers
          seen,       \* the entries a call has read
          faults

vars == <<catalogue, stored, pc, keys, seen, faults>>

ByHand(tags)  == tags \X {TRUE}
Derived(tags) == tags \X {FALSE}
KeysOf(entries) == {e[1] : e \in entries}

Init ==
    /\ catalogue = ByHand(Seeded)
    /\ stored = {}
    /\ pc = [w \in Writers |-> "idle"]
    /\ keys = [w \in Writers |-> {}]
    /\ seen = [w \in Writers |-> {}]
    /\ faults = 0

Goto(w, place) == pc' = [pc EXCEPT ![w] = place]

\* A secret was written with these tags; RegisterAsync comes after it.
Begin(w) ==
    /\ pc[w] = "idle"
    /\ \E tags \in SUBSET Tags \ {{}} :
          /\ keys' = [keys EXCEPT ![w] = tags]
          /\ stored' = stored \cup tags
    /\ Goto(w, "read")
    /\ UNCHANGED <<catalogue, seen, faults>>

\* Nothing is written when every key is known.
Continue(w, entries) ==
    /\ seen' = [seen EXCEPT ![w] = entries]
    /\ Goto(w, IF keys[w] \subseteq KeysOf(entries) THEN "done" ELSE "write")
    /\ UNCHANGED <<catalogue, stored, keys>>

Read(w) == pc[w] = "read" /\ Continue(w, catalogue) /\ UNCHANGED faults

\* Slip: the added entries alone are written.
WriteAdded(w) ==
    /\ pc[w] = "write"
    /\ catalogue' = Derived(keys[w] \ KeysOf(seen[w]))
    /\ Goto(w, "done")
    /\ UNCHANGED <<stored, keys, seen, faults>>

\* Slip: the keys are labelled anew, also the known ones.
WriteLabels(w) ==
    /\ pc[w] = "write"
    /\ catalogue' = seen[w] \cup Derived(keys[w])
    /\ Goto(w, "done")
    /\ UNCHANGED <<stored, keys, seen, faults>>

Write(w) ==
    /\ pc[w] = "write"
    /\ catalogue' = seen[w] \cup Derived(keys[w] \ KeysOf(seen[w]))
    /\ Goto(w, "done")
    /\ UNCHANGED <<stored, keys, seen, faults>>

Fault == faults < MaxFaults /\ faults' = faults + 1

\* ReadAsync answers an empty list when the document cannot be read.
ReadFails(w) == pc[w] = "read" /\ Continue(w, {}) /\ Fault

\* RegisterAsync swallows the failure of the write.
WriteFails(w) ==
    /\ pc[w] = "write"
    /\ Goto(w, "done")
    /\ Fault
    /\ UNCHANGED <<catalogue, stored, keys, seen>>

Terminating == (\A w \in Writers : pc[w] = "done") /\ UNCHANGED vars

Next ==
    \/ \E w \in Writers : Begin(w) \/ Read(w) \/ Write(w) \/ ReadFails(w) \/ WriteFails(w)
    \/ Terminating

Spec == Init /\ [][Next]_vars

-----------------------------------------------------------------------------
(* Properties.                                                             *)

\* Types: entries, places and what the calls hold.
TypeOK ==
    /\ catalogue \subseteq Tags \X BOOLEAN
    /\ stored \subseteq Tags
    /\ pc \in [Writers -> {"idle", "read", "write", "done"}]
    /\ keys \in [Writers -> SUBSET Tags]
    /\ seen \in [Writers -> SUBSET (Tags \X BOOLEAN)]
    /\ faults \in Nat

\* However the calls overlap and fail, the catalogue has one entry for a tag
\* and none for a tag nobody seeded or stored.
EntriesUnique ==
    /\ \A e, f \in catalogue : e[1] = f[1] => e = f
    /\ KeysOf(catalogue) \subseteq Seeded \cup stored

\* "Two creates landing together can lose one of the new entries": a seeded
\* entry is not among what they can lose, as long as no read fails.
SeedsSurviveRaces == faults = 0 => ByHand(Seeded) \subseteq catalogue

-----------------------------------------------------------------------------
(* What the documentation says and the code does not keep.                 *)

\* "Nothing removes an entry"; "an existing key is never rewritten".
SeedsKept == ByHand(Seeded) \subseteq catalogue
=============================================================================

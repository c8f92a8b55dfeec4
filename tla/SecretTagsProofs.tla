-------------------------- MODULE SecretTagsProofs --------------------------
(***************************************************************************)
(* The tag catalogue for any tags, any number of overlapping calls and any *)
(* number of failures.                                                     *)
(***************************************************************************)
EXTENDS SecretTags, TLAPS

\* Entries with one entry for a tag.
Unique(entries) == \A e, f \in entries : e[1] = f[1] => e = f

\* What a call has read was a catalogue, and it registers what was stored.
CallsRead ==
    \A w \in Writers :
        /\ Unique(seen[w])
        /\ KeysOf(seen[w]) \subseteq Seeded \cup stored
        /\ keys[w] \subseteq stored

\* What a call writes back has the seeded entries, as long as nothing failed.
SeedsRead ==
    faults = 0 => \A w \in Writers : pc[w] = "write" => ByHand(Seeded) \subseteq seen[w]

IInv == TypeOK /\ EntriesUnique /\ CallsRead /\ SeedsSurviveRaces /\ SeedsRead

-----------------------------------------------------------------------------

\* An entry with a given label is the pair of its tag and that label.
LEMMA Paired ==
    ASSUME NEW S, NEW label, NEW a \in S \X {label}
    PROVE  a[1] \in S /\ a = <<a[1], label>>
  BY SMT

\* A tag has an entry of its own in what is written back: RegisterAsync adds
\* entries for the tags that have none.
LEMMA AddedUnique ==
    ASSUME NEW E \in SUBSET (Tags \X BOOLEAN), NEW K \in SUBSET Tags, Unique(E)
    PROVE  /\ E \cup Derived(K \ KeysOf(E)) \in SUBSET (Tags \X BOOLEAN)
           /\ Unique(E \cup Derived(K \ KeysOf(E)))
           /\ KeysOf(E \cup Derived(K \ KeysOf(E))) \subseteq KeysOf(E) \cup K
<1> DEFINE A == Derived(K \ KeysOf(E))
<1>1. \A a \in A : a[1] \in K /\ a[1] \notin KeysOf(E) /\ a = <<a[1], FALSE>>
  BY Paired, Zenon DEF Derived
<1>2. \A e \in E : e[1] \in KeysOf(E)
  BY DEF KeysOf
<1>3. E \cup A \in SUBSET (Tags \X BOOLEAN)
  BY DEF Derived
<1>4. Unique(E \cup A)
  <2> SUFFICES ASSUME NEW e \in E \cup A, NEW f \in E \cup A, e[1] = f[1]
               PROVE  e = f
    BY DEF Unique
  <2>1. CASE e \in E /\ f \in E
    BY <2>1 DEF Unique
  <2>2. CASE e \in A /\ f \in A
    BY <1>1, <2>2
  <2>3. CASE (e \in E /\ f \in A) \/ (e \in A /\ f \in E)
    BY <1>1, <1>2, <2>3
  <2> QED
    BY <2>1, <2>2, <2>3
<1>5. KeysOf(E \cup A) \subseteq KeysOf(E) \cup K
  BY <1>1 DEF KeysOf
<1> QED
  BY <1>3, <1>4, <1>5

-----------------------------------------------------------------------------

\* The catalogue starts with the seeded entries.
LEMMA InitEstablishes == Init => IInv
<1> SUFFICES ASSUME Init PROVE IInv
  OBVIOUS
<1> USE TagsAssumption DEF Init
<1>1. TypeOK
  BY DEF TypeOK, ByHand
<1>2. EntriesUnique
  <2>1. \A e \in catalogue : e[1] \in Seeded /\ e = <<e[1], TRUE>>
    BY Paired, Zenon DEF ByHand
  <2> QED
    BY <2>1 DEF EntriesUnique, KeysOf
<1>3. CallsRead
  BY DEF CallsRead, Unique, KeysOf
<1>4. SeedsSurviveRaces /\ SeedsRead
  BY DEF SeedsSurviveRaces, SeedsRead
<1> QED
  BY <1>1, <1>2, <1>3, <1>4 DEF IInv

\* A call begins after its tags were stored.
LEMMA BeginPreserves ==
    ASSUME IInv, NEW w \in Writers, Begin(w)
    PROVE  IInv'
<1> USE DEF IInv
<1>1. PICK tags \in SUBSET Tags \ {{}} : /\ keys' = [keys EXCEPT ![w] = tags]
                                         /\ stored' = stored \cup tags
  BY DEF Begin
<1>2. /\ pc' = [pc EXCEPT ![w] = "read"]
      /\ UNCHANGED <<catalogue, seen, faults>>
  BY DEF Begin, Goto
<1>3. TypeOK'
  BY <1>1, <1>2 DEF TypeOK
<1>4. EntriesUnique'
  BY <1>1, <1>2 DEF EntriesUnique
<1>5. CallsRead'
  BY <1>1, <1>2 DEF CallsRead, TypeOK
<1>6. SeedsSurviveRaces' /\ SeedsRead'
  BY <1>2 DEF SeedsSurviveRaces, SeedsRead, TypeOK
<1> QED
  BY <1>3, <1>4, <1>5, <1>6

\* A call has read entries that were the catalogue, or none after a failure.
LEMMA ContinuePreserves ==
    ASSUME IInv, NEW w \in Writers, NEW entries, Continue(w, entries),
           entries \in {catalogue, {}},
           faults' \in Nat,
           faults' = 0 => faults = 0 /\ entries = catalogue
    PROVE  IInv'
<1> USE DEF IInv
<1>1. /\ seen' = [seen EXCEPT ![w] = entries]
      /\ UNCHANGED <<catalogue, stored, keys>>
      /\ pc' \in {[pc EXCEPT ![w] = "done"], [pc EXCEPT ![w] = "write"]}
  BY DEF Continue, Goto
<1>2. TypeOK'
  BY <1>1 DEF TypeOK
<1>3. EntriesUnique'
  BY <1>1 DEF EntriesUnique
<1>4. Unique(entries) /\ KeysOf(entries) \subseteq Seeded \cup stored
  BY DEF EntriesUnique, Unique, KeysOf
<1>5. CallsRead'
  BY <1>1, <1>4 DEF CallsRead, TypeOK
<1>6. SeedsSurviveRaces'
  BY <1>1 DEF SeedsSurviveRaces
<1>7. SeedsRead'
  BY <1>1 DEF SeedsRead, SeedsSurviveRaces, TypeOK
<1> QED
  BY <1>2, <1>3, <1>5, <1>6, <1>7

\* The catalogue is written back with the new entries, whatever it is by then.
LEMMA WritePreserves ==
    ASSUME IInv, NEW w \in Writers, Write(w)
    PROVE  IInv'
<1> USE DEF IInv
<1> DEFINE new == seen[w] \cup Derived(keys[w] \ KeysOf(seen[w]))
<1>1. /\ catalogue' = new
      /\ pc' = [pc EXCEPT ![w] = "done"]
      /\ UNCHANGED <<stored, keys, seen, faults>>
      /\ pc[w] = "write"
  BY DEF Write, Goto
<1>2. seen[w] \in SUBSET (Tags \X BOOLEAN) /\ keys[w] \in SUBSET Tags
  BY DEF TypeOK
<1>3. Unique(seen[w]) /\ KeysOf(seen[w]) \cup keys[w] \subseteq Seeded \cup stored
  BY DEF CallsRead
<1>4. /\ new \in SUBSET (Tags \X BOOLEAN)
      /\ Unique(new)
      /\ KeysOf(new) \subseteq KeysOf(seen[w]) \cup keys[w]
  BY <1>2, <1>3, AddedUnique
<1>5. TypeOK'
  BY <1>1, <1>4 DEF TypeOK
<1>6. EntriesUnique'
  <2>1. Unique(catalogue')
    BY <1>1, <1>4
  <2>2. KeysOf(catalogue') \subseteq Seeded \cup stored'
    BY <1>1, <1>3, <1>4
  <2> QED
    BY <2>1, <2>2 DEF EntriesUnique, Unique, KeysOf
<1>7. CallsRead'
  BY <1>1 DEF CallsRead
<1>8. SeedsSurviveRaces'
  BY <1>1 DEF SeedsSurviveRaces, SeedsRead
<1>9. SeedsRead'
  BY <1>1 DEF SeedsRead, TypeOK
<1> QED
  BY <1>5, <1>6, <1>7, <1>8, <1>9

\* A write that fails leaves everything but the call as it was.
LEMMA WriteFailsPreserves ==
    ASSUME IInv, NEW w \in Writers, WriteFails(w)
    PROVE  IInv'
<1> USE DEF IInv
<1>1. /\ pc' = [pc EXCEPT ![w] = "done"]
      /\ faults' = faults + 1
      /\ UNCHANGED <<catalogue, stored, keys, seen>>
  BY DEF WriteFails, Goto, Fault
<1>2. TypeOK'
  BY <1>1 DEF TypeOK
<1>3. EntriesUnique' /\ CallsRead'
  BY <1>1 DEF EntriesUnique, CallsRead
<1>4. faults' # 0
  BY <1>1 DEF TypeOK
<1>5. SeedsSurviveRaces' /\ SeedsRead'
  BY <1>4 DEF SeedsSurviveRaces, SeedsRead
<1> QED
  BY <1>2, <1>3, <1>5

-----------------------------------------------------------------------------

\* The inductive invariant of the catalogue.
THEOREM Invariance == Spec => []IInv
<1>1. IInv /\ [Next]_vars => IInv'
  <2> SUFFICES ASSUME IInv, [Next]_vars PROVE IInv'
    OBVIOUS
  <2>1. ASSUME NEW w \in Writers, Begin(w) PROVE IInv'
    BY <2>1, BeginPreserves
  <2>2. ASSUME NEW w \in Writers, Read(w) PROVE IInv'
    <3>1. Continue(w, catalogue) /\ faults' = faults /\ faults \in Nat
      BY <2>2 DEF Read, IInv, TypeOK
    <3> QED
      BY <3>1, ContinuePreserves
  <2>3. ASSUME NEW w \in Writers, Write(w) PROVE IInv'
    BY <2>3, WritePreserves
  <2>4. ASSUME NEW w \in Writers, ReadFails(w) PROVE IInv'
    <3>1. Continue(w, {}) /\ faults' \in Nat /\ faults' # 0
      BY <2>4 DEF ReadFails, Fault, IInv, TypeOK
    <3> QED
      BY <3>1, ContinuePreserves
  <2>5. ASSUME NEW w \in Writers, WriteFails(w) PROVE IInv'
    BY <2>5, WriteFailsPreserves
  <2>6. CASE UNCHANGED vars
    BY <2>6 DEF vars, IInv, TypeOK, EntriesUnique, CallsRead, SeedsSurviveRaces, SeedsRead
  <2> QED
    BY <2>1, <2>2, <2>3, <2>4, <2>5, <2>6 DEF Next, Terminating
<1> QED
  BY InitEstablishes, <1>1, PTL DEF Spec

\* Every reachable state of the catalogue is well typed.
THEOREM TypeCorrect == Spec => []TypeOK
<1>1. IInv => TypeOK
  BY DEF IInv
<1> QED
  BY Invariance, <1>1, PTL

\* However the calls of RegisterAsync overlap and fail, a tag has one entry.
THEOREM OneEntry == Spec => []EntriesUnique
<1>1. IInv => EntriesUnique
  BY DEF IInv
<1> QED
  BY Invariance, <1>1, PTL

\* Overlapping calls of RegisterAsync never lose an entry that was seeded.
THEOREM SeedsStay == Spec => []SeedsSurviveRaces
<1>1. IInv => SeedsSurviveRaces
  BY DEF IInv
<1> QED
  BY Invariance, <1>1, PTL
=============================================================================

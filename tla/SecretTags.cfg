\* Three overlapping calls, one seeded tag, two faults.
CONSTANTS
    Tags = {t1, t2, t3}
    Seeded = {t1}
    Writers = {w1, w2, w3}
    MaxFaults = 2
SPECIFICATION Spec
SYMMETRY Symmetry
INVARIANTS
    EntriesUnique
    SeedsSurviveRaces

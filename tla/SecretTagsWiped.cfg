\* The catalogue cannot be read once.
CONSTANTS
    Tags = {t1, t2}
    Seeded = {t1}
    Writers = {w1}
    MaxFaults = 1
SPECIFICATION Spec
SYMMETRY Symmetry
INVARIANT SeedsKept

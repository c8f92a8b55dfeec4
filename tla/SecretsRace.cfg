\* Three calls at once, values in the database, two faults and a crash.
CONSTANTS
    Ids = {s1, s2}
    Calls = {o1, o2, o3}
    KeyVault = FALSE
    MaxBatch = 2
    Serial = FALSE
    MaxFaults = 2
    MaxCrashes = 1
SPECIFICATION Spec
SYMMETRY Symmetry
INVARIANTS
    ValueBehindSecret
    AllOrTold
PROPERTY ComesBack

\* The compensation of a batch fails.
CONSTANTS
    Ids = {s1, s2}
    Calls = {o1}
    KeyVault = TRUE
    MaxBatch = 2
    Serial = TRUE
    MaxFaults = 2
    MaxCrashes = 0
SPECIFICATION Spec
SYMMETRY Symmetry
INVARIANT BatchCompensated

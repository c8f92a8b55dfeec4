\* One mutation at a time, with Key Vault, two faults.
CONSTANTS
    Ids = {s1, s2}
    Calls = {o1, o2, o3, o4}
    KeyVault = TRUE
    MaxBatch = 2
    Serial = TRUE
    MaxFaults = 2
    MaxCrashes = 0
SPECIFICATION Spec
SYMMETRY Symmetry
INVARIANTS
    TypeOK
    OrphanRecorded
    BookkeepingTold

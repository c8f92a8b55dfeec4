\* An update that loaded the secret before it was deleted.
CONSTANTS
    Ids = {s1}
    Calls = {o1, o2, o3}
    KeyVault = TRUE
    MaxBatch = 1
    Serial = FALSE
    MaxFaults = 0
    MaxCrashes = 0
SPECIFICATION Spec
SYMMETRY Symmetry
PROPERTY StatusKept

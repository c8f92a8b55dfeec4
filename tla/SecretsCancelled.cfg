\* A create whose insert is cancelled after the server took it, and an audit
\* record that cannot be written; tlc -continue shows both.
CONSTANTS
    Ids = {s1}
    Calls = {o1, o2}
    KeyVault = TRUE
    MaxBatch = 1
    Serial = TRUE
    MaxFaults = 1
    MaxCrashes = 0
SPECIFICATION Spec
SYMMETRY Symmetry
INVARIANTS
    NeverHollow
    AlwaysAudited

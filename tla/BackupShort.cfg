\* A cursor throws: before its first batch, or after it; tlc -continue shows both.
CONSTANTS
    r1 = r1
    r2 = r2
    r3 = r3
    s1 = s1
    s2 = s2
    w1 = w1
    w2 = w2
    Runs = {r1}
    Windows = {w1}
    WindowOf <- OneRun
    Services = {s1, s2}
    Managed = {}
    NumBatches = 2
    Racing = FALSE
    Slow = FALSE
    MaxFaults = 1
    MaxCrashes = 0
SPECIFICATION Spec
INVARIANTS
    BlobNotShort
    CompletedHonest

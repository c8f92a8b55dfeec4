\* Three triggers of one day, overlapping checks, missed heartbeats and a fault.
\* OneActiveRun fails here: two triggers pass the check before either has created
\* its job.
CONSTANTS
    r1 = r1
    r2 = r2
    r3 = r3
    s1 = s1
    s2 = s2
    w1 = w1
    w2 = w2
    Runs = {r1, r2, r3}
    Windows = {w1}
    WindowOf <- ThreeRuns
    Services = {s1}
    Managed = {}
    NumBatches = 1
    Racing = TRUE
    Slow = TRUE
    MaxFaults = 1
    MaxCrashes = 0
SPECIFICATION Spec
SYMMETRY Triggers
INVARIANT AloneUnlessRaced

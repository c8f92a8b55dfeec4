\* Two blobs hydrated at a time: one is counted after the other finished.
CONSTANTS
    NumFiles = 2
    Batches = 1
    MaxParallel = 2
    MaxFaults = 0
    MaxCrashes = 0
    EarlyChecks = FALSE
    d1 = d1
    d2 = d2
    k1 = k1
    k2 = k2
    c1 = c1
    Deliveries <- OneDelivery
    Checks <- OneCheck
    Callers = {}
SPECIFICATION Spec
INVARIANT CountersExact

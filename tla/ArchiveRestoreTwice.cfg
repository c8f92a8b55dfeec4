\* Two overlapping checks restore the same blob.
CONSTANTS
    NumFiles = 1
    Batches = 1
    MaxParallel = 1
    MaxFaults = 0
    MaxCrashes = 0
    EarlyChecks = FALSE
    d1 = d1
    d2 = d2
    k1 = k1
    k2 = k2
    c1 = c1
    Deliveries <- OneDelivery
    Checks <- TwoChecks
    Callers = {}
SPECIFICATION Spec
INVARIANT RestoredOnce

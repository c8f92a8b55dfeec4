\* A check meets a job whose progress row is not written yet.
CONSTANTS
    NumFiles = 1
    Batches = 1
    MaxParallel = 1
    MaxFaults = 0
    MaxCrashes = 0
    EarlyChecks = TRUE
    d1 = d1
    d2 = d2
    k1 = k1
    k2 = k2
    c1 = c1
    Deliveries <- OneDelivery
    Checks <- OneCheck
    Callers = {}
SPECIFICATION Spec
INVARIANT EmptyMeansNothingArchived

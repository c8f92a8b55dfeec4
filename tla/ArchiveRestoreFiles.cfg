\* Run by hand: two files, one check at a time after the plan, one fault.
CONSTANTS
    NumFiles = 2
    Batches = 1
    MaxParallel = 2
    MaxFaults = 1
    MaxCrashes = 0
    EarlyChecks = FALSE
    d1 = d1
    d2 = d2
    k1 = k1
    k2 = k2
    c1 = c1
    Deliveries <- OneDelivery
    Checks <- OneCheck
    Callers = {}
SPECIFICATION Spec
INVARIANTS
    TypeOK
    CompletedMeansRestored
    ReadyMeansOver
    WaitingHasJob
    NotifiedAtMostOnce
PROPERTY ImplementsLifecycle

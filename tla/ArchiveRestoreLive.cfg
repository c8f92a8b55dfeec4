\* One file, one check at a time after the plan, a cancellation, two faults.
CONSTANTS
    NumFiles = 1
    Batches = 1
    MaxParallel = 2
    MaxFaults = 2
    MaxCrashes = 0
    EarlyChecks = FALSE
    d1 = d1
    d2 = d2
    k1 = k1
    k2 = k2
    c1 = c1
    Deliveries <- OneDelivery
    Checks <- OneCheck
    Callers <- OneCaller
SPECIFICATION FairSpec
INVARIANTS
    MailTellsOutcome
    WaitingHasJob
PROPERTY EventuallyOver

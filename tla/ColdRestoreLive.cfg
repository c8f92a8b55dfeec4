\* One day, a redelivery, a cancellation, one fault, no crash; two files at a time.
CONSTANTS
    NumFiles = 2
    Batches = 1
    MaxParallel = 2
    MaxFaults = 1
    MaxCrashes = 0
    d1 = d1
    d2 = d2
    c1 = c1
    c2 = c2
    Deliveries <- TwoDeliveries
    Callers <- OneCaller
    Checks = {}
SPECIFICATION FairSpec
INVARIANT NoticedCancelDiscardsAll
PROPERTY EventuallyOver

\* A cancellation that lands while the last file is being restored.
CONSTANTS
    NumFiles = 2
    Batches = 1
    MaxParallel = 1
    MaxFaults = 0
    MaxCrashes = 0
    d1 = d1
    d2 = d2
    c1 = c1
    c2 = c2
    Deliveries <- OneDelivery
    Callers <- OneCaller
    Checks = {}
SPECIFICATION Spec
INVARIANT CancelDiscards

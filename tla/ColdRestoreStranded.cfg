\* The worker crashes and the message is delivered again.
CONSTANTS
    NumFiles = 1
    Batches = 1
    MaxParallel = 1
    MaxFaults = 0
    MaxCrashes = 1
    d1 = d1
    d2 = d2
    c1 = c1
    c2 = c2
    Deliveries <- TwoDeliveries
    Callers <- OneCaller
    Checks = {}
SPECIFICATION FairSpec
PROPERTY EventuallyOver

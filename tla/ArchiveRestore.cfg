\* Two overlapping checks that also run while the plan is written, one fault, a crash.
CONSTANTS
    NumFiles = 1
    Batches = 1
    MaxParallel = 1
    MaxFaults = 1
    MaxCrashes = 1
    EarlyChecks = TRUE
    d1 = d1
    d2 = d2
    k1 = k1
    k2 = k2
    c1 = c1
    Deliveries <- OneDelivery
    Checks <- TwoChecks
    Callers = {}
SPECIFICATION Spec
SYMMETRY Symmetry
INVARIANT TypeOK
PROPERTY ImplementsLifecycle

\* A trace and a log blob of two batches each, one at a time, with a redelivery,
\* a cancellation, two faults and a crash.
CONSTANTS
    NumFiles = 2
    Batches = 2
    MaxParallel = 1
    MaxFaults = 2
    MaxCrashes = 1
    d1 = d1
    d2 = d2
    c1 = c1
    c2 = c2
    Deliveries <- TwoDeliveries
    Callers <- OneCaller
    Checks = {}
SPECIFICATION Spec
SYMMETRY Symmetry
INVARIANTS
    TypeOK
    SingleExecution
    MailTellsOutcome
    CompletedMeansRestored
    CountersExact
    LeftoversBounded
PROPERTY ImplementsLifecycle

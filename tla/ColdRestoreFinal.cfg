\* A redelivery whose claim fails turns a finished request into Failed.
CONSTANTS
    NumFiles = 1
    Batches = 1
    MaxParallel = 1
    MaxFaults = 1
    MaxCrashes = 0
    d1 = d1
    d2 = d2
    c1 = c1
    c2 = c2
    Deliveries <- TwoDeliveries
    Callers <- OneCaller
    Checks = {}
SPECIFICATION Spec
PROPERTY TerminalIsFinal

\* A second run on the same day, after one service failed in the first.
CONSTANTS
    r1 = r1
    r2 = r2
    r3 = r3
    s1 = s1
    s2 = s2
    w1 = w1
    w2 = w2
    Runs = {r1, r2}
    Windows = {w1}
    WindowOf <- OneDay
    Services = {s1, s2}
    Managed = {}
    NumBatches = 1
    Racing = FALSE
    Slow = FALSE
    MaxFaults = 1
    MaxCrashes = 0
SPECIFICATION Spec
INVARIANT NoLogLost

\* Two days one after the other, two services, two faults and a crash.
CONSTANTS
    r1 = r1
    r2 = r2
    r3 = r3
    s1 = s1
    s2 = s2
    w1 = w1
    w2 = w2
    Runs = {r1, r2}
    Windows = {w1, w2}
    WindowOf <- TwoDays
    Services = {s1, s2}
    Managed = {s2}
    NumBatches = 2
    Racing = FALSE
    Slow = FALSE
    MaxFaults = 2
    MaxCrashes = 1
SPECIFICATION FairSpec
INVARIANTS
    TypeOK
    NoLogLost
    AloneUnlessRaced
PROPERTY DeadRunReleased

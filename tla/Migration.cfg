\* One migration of any request, two codes, two calls or answers that are lost.
CONSTANTS
    r1 = r1
    r2 = r2
    r3 = r3
    r4 = r4
    lang = lang
    iam = iam
    mfa = mfa
    i1 = i1
    i2 = i2
    c1 = c1
    c2 = c2
    Requests = {r1, r2, r3, r4}
    Offered = {r1, r2}
    Services = {lang, iam, mfa}
    ServicesOf <- SmallServices
    Queued = {lang, iam}
    Served = {lang, iam}
    Issues = {i1, i2}
    Calls = {c1}
    None = None
    MaxFaults = 2
SPECIFICATION Spec
INVARIANTS
    TypeOK
    StartedAsReviewed
    EndTold
PROPERTY PageCatchesUp
CHECK_DEADLOCK FALSE

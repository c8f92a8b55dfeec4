\* Run by hand: a card nobody refreshes; violated.
CONSTANTS
    r1 = r1
    r2 = r2
    r3 = r3
    r4 = r4
    lang = lang
    iam = iam
    mfa = mfa
    i1 = i1
    i2 = i2
    c1 = c1
    c2 = c2
    Requests = {r1, r2, r3, r4}
    Offered = {r1, r2}
    Services = {lang, iam, mfa}
    ServicesOf <- SmallServices
    Queued = {lang, iam}
    Served = {lang, iam}
    Issues = {i1, i2}
    Calls = {c1}
    None = None
    MaxFaults = 1
SPECIFICATION Spec
INVARIANT SpinnerFollowed
CHECK_DEADLOCK FALSE

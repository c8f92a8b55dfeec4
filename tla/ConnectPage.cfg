\* One environment and template, two calls, two clicks, one trip away.
CONSTANTS
    u1 = u1
    Users = {u1}
    e1 = e1
    Envs = {e1}
    t1 = t1
    Templates = {t1}
    c1 = c1
    c2 = c2
    Calls = {c1, c2}
    s1 = s1
    s2 = s2
    Slots = {s1, s2}
    None = None
    MaxFaults = 0
    MaxCuts = 0
    MaxClicks = 2
    MaxPolls = 1
    MaxAway = 1
SPECIFICATION Spec
INVARIANTS
    TypeOK
    OnePoll
    SiteToldOnce
PROPERTIES
    OneApprovalPerClick
    WaitEnds
CHECK_DEADLOCK FALSE

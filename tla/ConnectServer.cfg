\* Three calls of two users over two templates, one call that throws, one cut off.
CONSTANTS
    u1 = u1
    u2 = u2
    Users = {u1, u2}
    e1 = e1
    Envs = {e1}
    t1 = t1
    t2 = t2
    Templates = {t1, t2}
    c1 = c1
    c2 = c2
    c3 = c3
    Calls = {c1, c2, c3}
    None = None
    MaxFaults = 1
    MaxCuts = 1
SPECIFICATION ServerSpec
SYMMETRY Symmetry
INVARIANTS
    ReservationReleased
    OneSetupAtATime
    GrantBacked
    NoConnectionForgotten
PROPERTY ImplementsGrant
CHECK_DEADLOCK FALSE

\* Run by hand: a reservation that no call holds; violated.
CONSTANTS
    u1 = u1
    Users = {u1}
    e1 = e1
    Envs = {e1}
    t1 = t1
    Templates = {t1}
    c1 = c1
    c2 = c2
    Calls = {c1, c2}
    None = None
    MaxFaults = 0
    MaxCuts = 1
SPECIFICATION ServerSpec
INVARIANT ReservationHeld
CHECK_DEADLOCK FALSE

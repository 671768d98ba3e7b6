SPECIFICATION Spec
CONSTANTS
    Deliveries = {d1, d2}
    Requests = {r1}
    Notes = {n1, n2}
    Stamp = 1
    MaxAge = 2
    LeaseTTL = 1
    ResultTTL = 3
    MaxClock = 4
    MaxEdits = 2
    MaxFaults = 1
CHECK_DEADLOCK FALSE
INVARIANTS
    AlexaInv
    SpokenIsTrue
    OneVerdict

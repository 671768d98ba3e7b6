SPECIFICATION Spec
CONSTANTS
    None = None
    Calls = {c1, c2}
    Confirmations = {f1}
    Users = {u1, u2}
    Tokens = {t1, t2}
    Mutations = {share}
    Operations = {delete}
    Lifetime = 2
    Lease = 1
    MaxClock = 2
    MaxReservations = 2
    MaxEdits = 1
    MaxFaults = 1
SYMMETRY Symmetry
CHECK_DEADLOCK FALSE
INVARIANTS
    McpInv
    OneEffectEach
    AnswersAgree

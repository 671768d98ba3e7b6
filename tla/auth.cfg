SPECIFICATION FairSpec
CONSTANTS
    Users = {u1}
    Devices = {d1, d2}
    Calls = {1, 2}
    MaxTokens = 3
    MaxFaults = 1
CHECK_DEADLOCK FALSE
INVARIANTS
    AuthInv
    HeldTokenIsCurrent
    LogoutEndsTheSession
PROPERTIES
    DeadSessionsEnd

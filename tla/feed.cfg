SPECIFICATION Spec
CONSTANTS
    None = None
    Notes = {1, 2}
    InitRoles = {"guest", "stranger"}
    Kinds = {"create", "edit", "delete", "share", "revoke"}
    FaultKinds = {"crash", "network", "session"}
    PageSize = 1
    MaxSequence = 3
    MaxWriters = 2
    MaxFaults = 1
INVARIANTS
    FeedInv
    NothingSkipped
    SeenIsReflected
    QuietIsInSync
PROPERTIES
    OnlyRemovalsStop
CHECK_DEADLOCK FALSE

SPECIFICATION Spec
CONSTANTS
    b1 = b1
    b2 = b2
    b3 = b3
    NoAnchor = NoAnchor
    Blocks = {b1}
    Clients = {1, 2}
    OpIds = {1, 2, 3}
    Actions = {"insert"}
    InitDoc <- EmptyBlock
    Verbatim = {}
    MaxFaults = 1
INVARIANTS
    IndInv
    LogIsExactlyOnce
    RequestsFollowTheLog
    VisibleIsSnapshotPlusOutbox
    SnapshotsAreReplays
PROPERTIES
    NothingLost
    ImplementsOpLog
CHECK_DEADLOCK FALSE

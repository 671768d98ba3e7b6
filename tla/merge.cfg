SPECIFICATION Spec
CONSTANTS
    b1 = b1
    b2 = b2
    b3 = b3
    b4 = b4
    b5 = b5
    NoAnchor = NoAnchor
    Blocks = {b1, b2, b3, b4, b5}
INVARIANTS
    RebaseIsSound
    MergeKeepsBothIntentions
CHECK_DEADLOCK FALSE

SPECIFICATION Spec
CONSTANTS
    b1 = b1
    b2 = b2
    b3 = b3
    NoAnchor = NoAnchor
    Blocks = {b1, b2}
    Clients = {1, 2}
    OpIds = {1, 2, 3}
    Actions = {"insert", "delete_block"}
    InitDoc <- TwoBlocks
    Verbatim = {2}
    MaxFaults = 1
INVARIANTS
    BatchesAreAtomic
PROPERTIES
    OnlyRefusalsFail
CONSTRAINT IdentifiersInOrder
CHECK_DEADLOCK FALSE

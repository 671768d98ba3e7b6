SPECIFICATION BlockSpec
CONSTANTS
    None = None
    Devices = {d1, d2}
    Dates = {may1, may2}
    Instants = {noon, evening}
    MaxEdits = 4
SYMMETRY Symmetry
CHECK_DEADLOCK FALSE
INVARIANTS
    BlockInv
    OwnEditsAreAccepted

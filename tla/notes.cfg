SPECIFICATION Spec
CONSTANTS
    Notes = {1, 2}
    PageSize = 1
    MaxClock = 2
CHECK_DEADLOCK FALSE
INVARIANTS
    SteadyNotesAreListed
    NoIconReplacedUnseen

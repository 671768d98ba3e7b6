SPECIFICATION Spec
CONSTANTS
    Users = {u1}
    Devices = {d1}
    OpIds = {1, 2, 3}
    Patches <- MCPatches
    MaxRevision = 4
CHECK_DEADLOCK FALSE
INVARIANTS
    TaskInv
    AnsweredOnce
    CompletionsAreKept
PROPERTIES
    CompletesWhatWasSeen

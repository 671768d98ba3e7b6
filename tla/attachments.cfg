SPECIFICATION FairSpec
CONSTANTS
    Owner = owner
    Other = other
    Keys = {k}
    Workers = {w1, w2}
    Readers = {r}
    MaxIntents = 3
    MaxFaults = 3
CHECK_DEADLOCK FALSE
INVARIANTS
    AttachmentsInv
PROPERTIES
    DownloadsFindTheirObject
    ForgottenObjectsGo

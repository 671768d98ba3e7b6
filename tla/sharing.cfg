SPECIFICATION SharingSpec
CONSTANTS
    Notes = {1, 2}
    MaxTokens = 3
    MaxRequests = 2
CHECK_DEADLOCK FALSE
INVARIANTS
    SharingInv
    WithdrawnLinksStayClosed
    GivenLinksOpen

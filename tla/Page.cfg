CONSTANTS
    Clients = {alice, bob}
    Amounts = {1}
    MaxOps = 3
    Serialised = FALSE
    MayFail = TRUE
    Viewer = alice
    MountLoads = 1
    MaxLoads = 3
CHECK_DEADLOCK FALSE
SPECIFICATION PageSpec
INVARIANTS
    ViewsAreGenuine
    IdlePageIsUsable
    ListedRecordsAreStored
    VotesAreBacked
    StatusIsOwnersChoice
PROPERTY OwnersNeverChange

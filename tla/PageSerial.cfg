CONSTANTS
    Clients = {alice, bob}
    Amounts = {1}
    MaxOps = 3
    Serialised = TRUE
    MayFail = TRUE
    Viewer = alice
    MountLoads = 1
    MaxLoads = 3
CHECK_DEADLOCK FALSE
SPECIFICATION FairPageSpec
INVARIANT LoadsMissNothing
PROPERTIES
    ImplementsRegistry
    RefreshingEnds

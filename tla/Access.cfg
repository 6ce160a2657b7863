CONSTANTS
    NumUrls = 4
    Retries = 3
    FirstDelay = 1
    ProbeLimit = 10
SPECIFICATION FairSpec
INVARIANTS
    ProviderIsFirstInTime
    NullIsExplained
    WaitIsBounded
PROPERTY AccessReturns

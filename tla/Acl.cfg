CONSTANTS
    c1 = c1
    Hashes = {h1}
    Ciphertexts <- SomeHandles
    Euint32Size = 2
    Euint64Size = 4
    NoHandle = NoHandle
    MaxStakes = 0
    MaxDelegations = 3
    MaxVotes = 2
    MaxProposals = 1
    MaxRequests = 1
    MaxDeliveries = 1
    MaxTime = 1
    MaxEther = 0
    MaxTransactions = 3
SPECIFICATION AclSpec
INVARIANTS
    
    WeightRequestsAreImmediate
    TalliedBallotsWereUsable
CHECK_DEADLOCK FALSE

CONSTANTS
    Hashes = {h1, h2}
    Ciphertexts = {c1}
    Euint32Size = 2
    Euint64Size = 4
    NoHandle = NoHandle
    MaxStakes = 1
    MaxDelegations = 4
    MaxVotes = 0
    MaxProposals = 0
    MaxRequests = 1
    MaxDeliveries = 0
    MaxTime = 1
    MaxEther = 0
SPECIFICATION Spec
SYMMETRY Symmetry
INVARIANTS
    TypeOK
    WeightCountsWholeSuffix
    WeightDecryptsToSum
    WeightRequestIsComplete
PROPERTY WeightOnlyGrowsOrIsErased

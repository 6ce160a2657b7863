CONSTANTS
    Hashes = {h1}
    Ciphertexts = {c1, c2}
    Euint32Size = 2
    Euint64Size = 4
    NoHandle = NoHandle
    MaxStakes = 0
    MaxDelegations = 0
    MaxVotes = 3
    MaxProposals = 2
    MaxRequests = 2
    MaxDeliveries = 1
    MaxTime = 1
    MaxEther = 0
SPECIFICATION Spec
INVARIANT TallyRequestsOneSum

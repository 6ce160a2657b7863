CONSTANTS
    Wallets = {metamask, okx}
    MetaMask = metamask
    Accounts = {a, b}
    NoWallet = NoWallet
    NoAccount = NoAccount
    MaxSelections = 2
    MaxOps = 2
    MaxTexts = 2
    MaxExtras = 1
CHECK_DEADLOCK FALSE
SPECIFICATION Spec
SYMMETRY Symmetry
INVARIANTS
    AccountFollowsWallet
    RecordsNameTheirSigner
    CoverIsTemporary
    OneOperationAtATime
PROPERTIES
    TextIsKept

SPECIFICATION Spec
CONSTANTS
    NoId = NoId
    EvmIds = {e1, e2, e3}
    BtcIds = {}
    SolIds = {}
    SameKey = FALSE
    Outpoints = {}
    Callers = {c1, c2}
    Backend = "postgres"
    AmountsParse = TRUE
    Exclusive = TRUE
    Ops = {"Create", "ConstructAndSign", "Broadcast", "Confirm", "OnReorg", "AllocateNonce", "SetState"}
    Faults = {"lock", "store", "build", "sign", "reject"}
    MaxNonce = 4
    Ids <- MCIds
    KeyOf <- MCKeyOf
    WalletOf <- MCWalletOf
    AmountOf <- MCAmountOf
    Wallets <- MCWallets
    ChainOf <- MCChainOf
    OwnerOf <- MCOwnerOf
    ValueOf <- MCValueOf
CHECK_DEADLOCK FALSE
SYMMETRY Symmetry
INVARIANTS NonceUnique CommitCovers PendingInCreate
PROPERTY LifecycleSpec

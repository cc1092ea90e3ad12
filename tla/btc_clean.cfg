SPECIFICATION Spec
CONSTANTS
    NoId = NoId
    EvmIds = {}
    BtcIds = {b1, b2, b3}
    SolIds = {}
    SameKey = FALSE
    Outpoints = {"large", "small", "tiny"}
    Callers = {c1, c2, c3}
    Backend = "postgres"
    AmountsParse = TRUE
    Exclusive = TRUE
    Ops = {"Create", "ConstructAndSign", "Broadcast", "Confirm", "PruneFinalized", "TrackUTXO"}
    Faults = {"store", "build", "sign", "reject"}
    MaxNonce = 1
    Ids <- MCIds
    KeyOf <- MCKeyOf
    WalletOf <- MCWalletOf
    AmountOf <- MCAmountOf
    Wallets <- MCWallets
    ChainOf <- MCChainOf
    OwnerOf <- MCOwnerOf
    ValueOf <- MCValueOf
CHECK_DEADLOCK FALSE
SYMMETRY Symmetry
INVARIANTS OutpointExclusive NoLeakedLock BroadcastSpent

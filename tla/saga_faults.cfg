SPECIFICATION Spec
CONSTANTS
    NoId = NoId
    EvmIds = {}
    BtcIds = {b1, b2}
    SolIds = {}
    SameKey = TRUE
    Outpoints = {"large", "small", "tiny"}
    Callers = {c1, c2}
    Backend = "postgres"
    AmountsParse = TRUE
    Exclusive = TRUE
    Ops = {"Create", "ConstructAndSign", "Broadcast", "Fail", "Confirm", "OnReorg", "AllocateNonce", "TrackUTXO", "PruneFinalized"}
    Faults = {"store", "build", "sign", "reject", "lostack", "lostwrite", "crash"}
    MaxNonce = 1
    Ids <- MCIds
    KeyOf <- MCKeyOf
    WalletOf <- MCWalletOf
    AmountOf <- MCAmountOf
    Wallets <- MCWallets
    ChainOf <- MCChainOf
    OwnerOf <- MCOwnerOf
    ValueOf <- MCValueOf
CHECK_DEADLOCK FALSE
SYMMETRY Symmetry
INVARIANTS TypeOK ApprovedOnly SinglePayout DedupInflight

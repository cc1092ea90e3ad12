SPECIFICATION Spec
CONSTANTS
    NoId = NoId
    EvmIds = {e1, e2, e3}
    BtcIds = {}
    SolIds = {}
    SameKey = FALSE
    Outpoints = {}
    Callers = {c1}
    Backend = "memory"
    AmountsParse = TRUE
    Exclusive = TRUE
    Ops = {"Create", "ConstructAndSign", "Broadcast", "Fail"}
    Faults = {"build"}
    MaxNonce = 3
    Ids <- MCIds
    KeyOf <- MCKeyOf
    WalletOf <- MCWalletOf
    AmountOf <- MCAmountOf
    Wallets <- MCWallets
    ChainOf <- MCChainOf
    OwnerOf <- MCOwnerOf
    ValueOf <- MCValueOf
CHECK_DEADLOCK FALSE
SYMMETRY Symmetry
INVARIANTS NonceUnique

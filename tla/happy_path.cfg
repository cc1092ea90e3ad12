SPECIFICATION FairSpec
CONSTANTS
    NoId = NoId
    EvmIds = {e1}
    BtcIds = {}
    SolIds = {}
    SameKey = FALSE
    Outpoints = {}
    Callers = {c1}
    Backend = "postgres"
    AmountsParse = FALSE
    Exclusive = TRUE
    Ops = {"Create", "ConstructAndSign", "Broadcast", "Confirm"}
    Faults = {}
    MaxNonce = 2
    Ids <- MCIds
    KeyOf <- MCKeyOf
    WalletOf <- MCWalletOf
    AmountOf <- MCAmountOf
    Wallets <- MCWallets
    ChainOf <- MCChainOf
    OwnerOf <- MCOwnerOf
    ValueOf <- MCValueOf
CHECK_DEADLOCK FALSE
PROPERTY HappyPath

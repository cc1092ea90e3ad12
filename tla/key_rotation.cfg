SPECIFICATION FairStoreSpec
CONSTANTS
    Wallets = {w1}
    KeyIds = {k1, k2}
    KeyCoolingPeriod = 1
    MaxTime = 3
    Goroutines = {g1, g2}
    Free = Free
    NoKey = NoKey
    NoWallet = NoWallet
    MaxTx = 1
INVARIANTS OneCurrent CoolingResolves NothingLost SigningKeyResolves
PROPERTIES CallsReturn ImplementsKeyMapping

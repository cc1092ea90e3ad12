SPECIFICATION RotationSpec
CONSTANTS
    Wallets = {wa, wb}
    Chains = {"ethereum", "solana"}
    NoWallet = NoWallet
    Free = Free
    Callers = {c1, c2}
    Requests = {"current", "force", "state"}
    AgesOut = TRUE
    Retries = 2
    MaxRows = 2
    Backend = "postgres"
    Locker = "redis"
    RotationFaults = {"store", "crash"}
CHECK_DEADLOCK FALSE
SYMMETRY Symmetry
INVARIANTS OneActive AddressUnique

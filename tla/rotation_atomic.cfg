SPECIFICATION RotationSpec
CONSTANTS
    Wallets = {wa, wb}
    Chains = {"ethereum"}
    NoWallet = NoWallet
    Free = Free
    Callers = {c1, c2}
    Requests = {"current", "force"}
    AgesOut = FALSE
    Retries = 2
    MaxRows = 3
    Backend = "postgres"
    Locker = "memory"
    RotationFaults = {}
CHECK_DEADLOCK FALSE
INVARIANT KeepsActive

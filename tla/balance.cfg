SPECIFICATION BalanceSpec
CONSTANTS
    eth = eth
    sol = sol
    seen = seen
    deep = deep
    other = other
    spend = spend
    slot = slot
    final = final
    Slots = {eth, sol}
    FinalizedSlots = {sol}
    Threshold <- MCThreshold
    Confirmations = {seen, deep, other, spend, slot, final}
    NoEvent = NoEvent
    Event <- MCEvent
    LockAmounts = {2}
    MaxLocked = 3
    MaxReorgs = 1
    Handlers = {h1, h2}
    Backend = "postgres"
    EmptyIsZero = TRUE
    BalanceFaults = {"store", "crash"}
CHECK_DEADLOCK FALSE
INVARIANTS TransfersCounted LastBlockSeen ConfirmedCovered

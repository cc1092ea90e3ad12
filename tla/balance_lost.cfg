SPECIFICATION BalanceSpec
CONSTANTS
    eth = eth
    sol = sol
    seen = seen
    deep = deep
    other = other
    spend = spend
    slot = slot
    final = final
    Slots = {eth, sol}
    FinalizedSlots = {sol}
    Threshold <- MCThreshold
    Confirmations = {seen, deep, other, spend, slot, final}
    NoEvent = NoEvent
    Event <- MCEvent
    LockAmounts = {}
    MaxLocked = 3
    MaxReorgs = 0
    Handlers = {h1}
    Backend = "postgres"
    EmptyIsZero = FALSE
    BalanceFaults = {}
CHECK_DEADLOCK FALSE
INVARIANT AckedApplied

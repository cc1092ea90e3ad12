SPECIFICATION FairHotSpec
CONSTANTS
    hot = hot
    cold = cold
    fill = fill
    spend = spend
    Slots = {hot, cold}
    HotSlots = {hot}
    Requests = {r1, r2}
    NoSlot = NoSlot
    NoRequest = NoRequest
    Callers = {c1, c2}
    FundingFaults = {"post", "lostack", "store", "crash"}
    FinalizedSlots = {}
    Threshold <- MCThreshold
    Confirmations = {fill, spend}
    NoEvent = NoEvent
    Event <- MCEvent
    LockAmounts = {}
    MaxLocked = 0
    MaxReorgs = 1
    Handlers = {h1}
    Backend = "postgres"
    EmptyIsZero = TRUE
    BalanceFaults = {"store", "crash"}
    MinBalance = 2
CHECK_DEADLOCK FALSE
INVARIANT OneOpen
PROPERTIES RequestedIsSent DecreaseNoticed ImplementsFunding

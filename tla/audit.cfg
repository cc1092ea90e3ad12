SPECIFICATION FairAuditSpec
CONSTANTS
    e1 = e1
    e2 = e2
    e3 = e3
    wa = wa
    wb = wb
    Events = {e1, e2, e3}
    WalletOf <- MCTwoWallets
    InTxEvents = {e3}
    d1 = d1
    d2 = d2
    Replicas = {d1, d2}
    HomeOf <- MCHomes
    BatchLimit = 2
    AuditFaults = {"store", "sink", "crash"}
INVARIANTS DeliveredInLog SeqUnique
PROPERTY EventuallyDelivered

------------------------------ MODULE MemStore ------------------------------
(***************************************************************************)
(* The in-memory store under concurrent goroutines: its reentrant mutex,   *)
(* and transactions that are a snapshot of every table and, on an error,   *)
(* its restore.  The tables are the key mappings of module KeyMapping and, *)
(* for the transactions of the balance service, a balance with its audit   *)
(* rows, each a count of writes.  A goroutine makes one call at a time: a  *)
(* method of the store; InTx with a function that calls methods and may    *)
(* return an error; or ConstructAndSign, which resolves a key and signs    *)
(* with it later.  No function given to InTx calls InTx again.             *)
(***************************************************************************)
EXTENDS KeyMapping

CONSTANTS
    Goroutines,
    Free,       \* no holder of the mutex
    NoKey, NoWallet,
    MaxTx       \* no transaction starts once this many are committed

ASSUME StoreConstants ==
    /\ Free \notin Goroutines /\ NoKey \notin KeyIds /\ NoWallet \notin Wallets
    /\ MaxTx \in Nat

VARIABLES
    mu,         \* the goroutine that holds the mutex, or Free
    depths,     \* goroutine -> how often it is inside lock()
    snaps,      \* goroutine -> the snapshot of its transaction
    ledger,     \* writes to the balance, its audit counter and its audit rows
    calls,      \* goroutine -> the call it makes and where it is
    committed,  \* transactions that returned nil
    latest      \* wallet -> the key last made current

storeVars == <<mu, depths, snaps, ledger, calls, committed, latest>>

allStoreVars == <<keyVars, storeVars>>

NoLedger == [balance |-> 0, seq |-> 0, audit |-> 0]

NoCall == [op |-> "none", at |-> "idle", next |-> "none", wallet |-> NoWallet, key |-> NoKey]

NoSnap == [mappings |-> <<>>, ledger |-> NoLedger]

Tables == [mappings |-> mappings, ledger |-> ledger]

StoreInit ==
    /\ KeyInit
    /\ mu = Free
    /\ depths = [p \in Goroutines |-> 0]
    /\ ledger = NoLedger
    /\ snaps = [p \in Goroutines |-> NoSnap]
    /\ calls = [p \in Goroutines |-> NoCall]
    /\ committed = 0
    /\ latest = [w \in Wallets |-> NoKey]

At(p, where) == calls[p].at = where

Goto(p, where) == calls' = [calls EXCEPT ![p].at = where]

Call(p, op, w, k) ==
    /\ At(p, "idle")
    /\ op = "tx" => committed < MaxTx
    /\ calls' = [calls EXCEPT ![p] = [op |-> op, at |-> "lock", next |-> "none", wallet |-> w, key |-> k]]
    /\ UNCHANGED <<keyVars, mu, depths, snaps, ledger, committed, latest>>

-----------------------------------------------------------------------------

LockAnyDepth(p) ==
    /\ At(p, "lock")
    /\ mu = Free \/ \E q \in Goroutines : depths[q] > 0
    /\ mu' = p
    /\ depths' = [depths EXCEPT ![p] = @ + 1]
    /\ Goto(p, "inside")
    /\ UNCHANGED <<keyVars, snaps, ledger, committed, latest>>

\* lock() waits for the mutex, unless its goroutine is inside already: then it counts.
\* No other goroutine reads the depth, so taking the mutex and noting it are one step.
Lock(p) ==
    /\ At(p, "lock")
    /\ depths[p] > 0 \/ mu = Free
    /\ mu' = p
    /\ depths' = [depths EXCEPT ![p] = @ + 1]
    /\ Goto(p, "inside")
    /\ UNCHANGED <<keyVars, snaps, ledger, committed, latest>>

\* What the caller of InTx or of a method does next.
Returned(call) ==
    IF call.op = "sign" /\ call.key # NoKey THEN [call EXCEPT !.at = "sign"] ELSE NoCall

\* The function lock() returned: a method inside a transaction goes back to it.
Unlock(p) ==
    /\ At(p, "unlock")
    /\ depths' = [depths EXCEPT ![p] = @ - 1]
    /\ IF depths[p] = 1
       THEN mu' = Free /\ calls' = [calls EXCEPT ![p] = Returned(@)]
       ELSE Goto(p, "fn") /\ UNCHANGED mu
    /\ UNCHANGED <<keyVars, snaps, ledger, committed, latest>>

-----------------------------------------------------------------------------

Overdue == \E w \in Wallets, k \in KeyIds :
    mappings[w][k].state = "COOLING" /\ Elapsed(mappings[w][k])

\* BindKeyMapping, RotateKeyMapping and ExpireCooling do all they do inside lock().
KeyMethod(p) ==
    LET w == calls[p].wallet k == calls[p].key IN
    /\ At(p, "inside")
    /\ \/ /\ calls[p].op = "bind"
          /\ \/ Bind(w, k) /\ latest' = [latest EXCEPT ![w] = k]
             \/ /\ Current(w) # {} \/ mappings[w][k].state # "NONE"
                /\ UNCHANGED <<keyVars, latest>>
       \/ calls[p].op = "rotate" /\ Rotate(w, k) /\ latest' = [latest EXCEPT ![w] = k]
       \/ calls[p].op = "expire" /\ ExpireCooling /\ UNCHANGED latest
       \/ calls[p].op = "expire" /\ ~Overdue /\ UNCHANGED <<keyVars, latest>>
    /\ Goto(p, "unlock")
    /\ UNCHANGED <<mu, depths, snaps, ledger, committed>>

\* ResolveActiveKeyID: the mapping that has been active longest, cooling or not.
FirstActive(w) ==
    {k \in ResolveActiveKey(w) :
        \A j \in ResolveActiveKey(w) : mappings[w][k].activeFrom <= mappings[w][j].activeFrom}

\* ConstructAndSign resolves the key; without one it returns an error.
ResolveActiveKeyID(p) ==
    LET w == calls[p].wallet IN
    /\ At(p, "inside") /\ calls[p].op = "sign"
    /\ \/ \E k \in FirstActive(w) : calls' = [calls EXCEPT ![p].at = "unlock", ![p].key = k]
       \/ FirstActive(w) = {} /\ Goto(p, "unlock")
    /\ UNCHANGED <<keyVars, mu, depths, snaps, ledger, committed, latest>>

\* The reservation and the construction are over; Sign is called with the key.
Sign(p) ==
    /\ At(p, "sign")
    /\ calls' = [calls EXCEPT ![p] = NoCall]
    /\ UNCHANGED <<keyVars, mu, depths, snaps, ledger, committed, latest>>

-----------------------------------------------------------------------------

\* InTx, outermost: every table is copied before the function runs.
Snapshot(p) ==
    /\ At(p, "inside") /\ calls[p].op = "tx" /\ calls[p].next = "none"
    /\ snaps' = [snaps EXCEPT ![p] = Tables]
    /\ calls' = [calls EXCEPT ![p].at = "fn", ![p].next = "upsert"]
    /\ UNCHANGED <<keyVars, mu, depths, ledger, committed, latest>>

\* The function calls its next method; each takes lock() again.
CallMethod(p) ==
    /\ At(p, "fn") /\ calls[p].next \in {"upsert", "seq", "append"}
    /\ Goto(p, "lock")
    /\ UNCHANGED <<keyVars, mu, depths, snaps, ledger, committed, latest>>

\* UpsertBalance, then NextAuditSeq and AppendAuditEvent of Emit.
Method(p) ==
    LET m == calls[p].next IN
    /\ At(p, "inside")
    /\ \/ /\ m = "upsert" /\ ledger' = [ledger EXCEPT !.balance = @ + 1]
          /\ calls' = [calls EXCEPT ![p].at = "unlock", ![p].next = "seq"]
       \/ /\ m = "seq" /\ ledger' = [ledger EXCEPT !.seq = @ + 1]
          /\ calls' = [calls EXCEPT ![p].at = "unlock", ![p].next = "append"]
       \/ /\ m = "append" /\ ledger' = [ledger EXCEPT !.audit = @ + 1]
          /\ calls' = [calls EXCEPT ![p].at = "unlock", ![p].next = "return"]
    /\ UNCHANGED <<keyVars, mu, depths, snaps, committed, latest>>

Commit(p) ==
    /\ At(p, "fn") /\ calls[p].next = "return"
    /\ committed' = committed + 1
    /\ snaps' = [snaps EXCEPT ![p] = NoSnap]
    /\ Goto(p, "unlock")
    /\ UNCHANGED <<keyVars, mu, depths, ledger, latest>>

RestoreBalance(p) ==
    /\ ledger' = [ledger EXCEPT !.balance = snaps[p].ledger.balance]
    /\ UNCHANGED mappings

Restore(p) == mappings' = snaps[p].mappings /\ ledger' = snaps[p].ledger

RollbackRetry(p) ==
    /\ At(p, "fn")
    /\ Restore(p)
    /\ calls' = [calls EXCEPT ![p].next = "upsert"]
    /\ UNCHANGED <<now, demoted, mu, depths, snaps, committed, latest>>

\* The function returns an error, whatever it has written.
Rollback(p) ==
    /\ At(p, "fn")
    /\ Restore(p)
    /\ snaps' = [snaps EXCEPT ![p] = NoSnap]
    /\ Goto(p, "unlock")
    /\ UNCHANGED <<now, demoted, mu, depths, committed, latest>>

-----------------------------------------------------------------------------

StoreStep(p) ==
    \/ Unlock(p) \/ KeyMethod(p) \/ ResolveActiveKeyID(p) \/ Sign(p)
    \/ Snapshot(p) \/ CallMethod(p) \/ Method(p) \/ Commit(p) \/ Rollback(p)

StoreNext ==
    \/ \E p \in Goroutines :
          \/ Lock(p) \/ StoreStep(p)
          \/ Call(p, "tx", NoWallet, NoKey) \/ Call(p, "expire", NoWallet, NoKey)
          \/ \E w \in Wallets :
                \/ Call(p, "sign", w, NoKey)
                \/ \E k \in KeyIds : Call(p, "bind", w, k) \/ Call(p, "rotate", w, k)
    \/ Tick /\ UNCHANGED storeVars

StoreSpec == StoreInit /\ [][StoreNext]_allStoreVars

\* Goroutines run, and sync.Mutex hands itself to a goroutine that has waited long.
StoreFairness ==
    \A p \in Goroutines : WF_allStoreVars(StoreStep(p)) /\ SF_allStoreVars(Lock(p))

FairStoreSpec == StoreSpec /\ StoreFairness

-----------------------------------------------------------------------------

\* lock, snapshot and restore: while nobody is inside, a balance has exactly the writes of
\* the transactions that returned nil, each with its audit row, and the last key made
\* current still is, whatever was rolled back meanwhile.
NothingLost ==
    mu = Free =>
        /\ ledger = [balance |-> committed, seq |-> committed, audit |-> committed]
        /\ \A w \in Wallets : latest[w] # NoKey => Current(w) = {latest[w]}

\* ConstructAndSign and ExpireCooling: rotations and expiry between resolving a key
\* and signing with it leave the key active, unless its cooling period is over.
SigningKeyResolves ==
    \A p \in Goroutines :
        LET w == calls[p].wallet k == calls[p].key IN
        At(p, "sign") => \/ k \in ResolveActiveKey(w)
                         \/ demoted[w][k] >= 0 /\ now > demoted[w][k] + KeyCoolingPeriod

\* lock and restore: to its callers the store is the atomic one of module KeyMapping;
\* a rollback never takes a mapping of another goroutine along.
ImplementsKeyMapping == KeySpec

\* lock: every call returns; no goroutine waits for a mutex it holds itself.
CallsReturn == \A p \in Goroutines : ~At(p, "idle") ~> At(p, "idle")
=============================================================================

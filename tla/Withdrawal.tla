----------------------------- MODULE Withdrawal -----------------------------
(***************************************************************************)
(* The withdrawal saga (internal/withdrawal) over the Store, the nonce and *)
(* the UTXO services.  A caller is a goroutine that executes one operation *)
(* of withdrawal.Service.  Every access to the Store is a step of its own, *)
(* so that operations interleave as they do in the program; a computation  *)
(* or an outside call between two accesses is part of the step after it.   *)
(* An operation that returns before its first write changes nothing and is *)
(* an operation that does not start.  Audit events are left out here.      *)
(***************************************************************************)
EXTENDS Integers, FiniteSets, NonceStore, UtxoStore, CoinSelection

CONSTANTS
    Ids,        \* withdrawals that may be requested
    NoId,       \* the id of an idle caller
    KeyOf,      \* id -> the (wallet, to, amount, asset) tuple of its request
    WalletOf,   \* id -> wallet
    AmountOf,   \* id -> amount in minor units, 0 if it does not parse
    Wallets,
    ChainOf,    \* wallet -> "evm", "bitcoin" or "solana"
    Outpoints,
    OwnerOf,    \* outpoint -> wallet
    ValueOf,    \* outpoint -> value in minor units
    Callers,
    Backend,    \* which Store is wired: "memory" or "postgres"
    AmountsParse, \* does an amount read back from the Store parse as an integer?
    Exclusive,  \* does the orchestrator run one operation per withdrawal at a time?
    Ops,        \* the operations that are called
    Faults,     \* the calls that may fail, and how
    MaxNonce    \* bound on the pending nonce

Keys == {KeyOf[id] : id \in Ids}

Chains == {"evm", "bitcoin", "solana"}

\* Operations the orchestrator drives; Confirm and OnReorg are callbacks of
\* the Blockchain Gateway and overlap with anything.
DriverOps == {"Create", "ConstructAndSign", "Broadcast", "Fail"}

AllOps == DriverOps \cup {"Confirm", "OnReorg", "AllocateNonce", "TrackUTXO",
                          "PruneFinalized", "SetState"}

(***************************************************************************)
(* "lock": ReserveNonce gives up; "store": a write whose failure the saga  *)
(* compensates fails; "build", "sign": the transaction cannot be built, or *)
(* signed and assembled; "reject": the gateway refuses the transaction;    *)
(* "lostack": it accepts it and the call still returns an error;           *)
(* "lostwrite": a write whose failure is ignored, or reported without      *)
(* compensation, fails; "crash": the process of a caller dies.             *)
(***************************************************************************)
CleanFaults == {"lock", "store", "build", "sign", "reject"}

AllFaults == CleanFaults \cup {"lostack", "lostwrite", "crash"}

ASSUME ConstantTypes ==
    /\ NoId \notin Ids
    /\ WalletOf \in [Ids -> Wallets]
    /\ AmountOf \in [Ids -> Nat]
    /\ ChainOf \in [Wallets -> Chains]
    /\ OwnerOf \in [Outpoints -> Wallets]
    /\ ValueOf \in [Outpoints -> Nat]
    /\ Backend \in {"memory", "postgres"}
    /\ AmountsParse \in BOOLEAN
    /\ Exclusive \in BOOLEAN
    /\ Ops \subseteq AllOps
    /\ Faults \subseteq AllFaults
    /\ MaxNonce \in Nat
    \* A write to the in-memory Store does not fail, nor does it outlive a crash.
    /\ Backend = "memory" => Faults \cap {"store", "lostwrite", "crash"} = {}

VARIABLES
    wallets,    \* wallet -> state
    wr,         \* id -> row of withdrawal_requests
    inflight,   \* the in-memory store's inflightWithdrawals
    nonces,     \* wallet -> nonce row of its chain
    utxos,      \* outpoint -> lock_state
    calls,      \* caller -> the operation it executes, with its local variables
    approved,   \* ids the Policy Engine approved
    accepted    \* transactions the Blockchain Gateway took

vars == <<wallets, wr, inflight, nonces, utxos, calls, approved, accepted>>

WalletStates == {"ACTIVE", "PAUSED", "RETIRED"}

InflightStates == {"PENDING", "WHITELISTED", "SIGNED", "BROADCAST"}

WithdrawalStates == {"NONE", "CONFIRMED", "FAILED"} \cup InflightStates

\* What the signed bytes commit to: the nonce or the inputs.
Txs == [signed : BOOLEAN, nonce : Nat \cup {-1}, ops : SUBSET Outpoints]

NoTx == [signed |-> FALSE, nonce |-> -1, ops |-> {}]

\* NonceValue (-1 for nil), ReservedOutpoints, SignedTxBytes.
WithdrawalRows == [state : WithdrawalStates, nonce : Nat \cup {-1},
                   ops : SUBSET Outpoints, tx : Txs]

NoRow == [state |-> "NONE", nonce |-> -1, ops |-> {}, tx |-> NoTx]

Labels == {"idle", "insert", "whitelist", "reserve", "saveNonce", "list", "lock",
           "undoSelect", "saveOutpoints", "sign", "markSigned", "rollback",
           "markFailed", "submit", "commit", "markBroadcast", "markConfirmed",
           "restore", "demote", "restoreAgain"}

\* A call: where it is, the withdrawal it works on, its copies of the row, the
\* outpoints a row loop has still to write and where a rollback continues.
Calls == [op : AllOps \cup {"none"}, pc : Labels, id : Ids \cup {NoId},
          state : WithdrawalStates, nonce : Nat \cup {-1}, ops : SUBSET Outpoints,
          tx : Txs, rows : SUBSET Outpoints, then : {"idle", "markFailed"}]

Idle == [op |-> "none", pc |-> "idle", id |-> NoId, state |-> "NONE", nonce |-> -1,
         ops |-> {}, tx |-> NoTx, rows |-> {}, then |-> "idle"]

Chain(id) == ChainOf[WalletOf[id]]

Init ==
    /\ wallets = [w \in Wallets |-> "ACTIVE"]
    /\ wr = [id \in Ids |-> NoRow]
    /\ inflight = {}
    /\ nonces = [w \in Wallets |-> NoNonceRow]
    /\ utxos \in [Outpoints -> {"ABSENT", "FREE"}]
    /\ calls = [c \in Callers |-> Idle]
    /\ approved = {}
    /\ accepted = {}

-----------------------------------------------------------------------------
(* Calls *)

Busy(id) == \E d \in Callers : calls[d].op \in DriverOps /\ calls[d].id = id

\* Caller c begins an operation on a withdrawal.
Begin(c, op, id, call) ==
    /\ op \in Ops
    /\ calls[c].pc = "idle"
    /\ Exclusive /\ op \in DriverOps => ~Busy(id)
    /\ calls' = [calls EXCEPT ![c] = call]

At(c, label) == calls[c].pc = label

Goto(c, label) == calls' = [calls EXCEPT ![c].pc = label]

Return(c) == calls' = [calls EXCEPT ![c] = Idle]

RollbackWithoutRows(c, rows, then) ==
    calls' = [calls EXCEPT ![c].pc = "rollback", ![c].rows = {}, ![c].then = then]

\* Run s.rollback and continue at "then", or return.
StartRollback(c, rows, then) ==
    calls' = [calls EXCEPT ![c].pc = "rollback", ![c].rows = rows, ![c].then = then]

-----------------------------------------------------------------------------
(* The Store's withdrawal rows *)

IndexWithoutBroadcast(id) ==
    \A j \in Ids \ {id} :
        KeyOf[j] = KeyOf[id] => wr[j].state \notin InflightStates \ {"BROADCAST"}

\* The partial unique index withdrawal_inflight_dedup lets row id be in flight.
IndexAdmits(id) ==
    \A j \in Ids \ {id} : KeyOf[j] = KeyOf[id] => wr[j].state \notin InflightStates

\* CreateWithdrawal is not refused as a duplicate.
NoDuplicate(id) ==
    IF Backend = "memory" THEN KeyOf[id] \notin inflight ELSE IndexAdmits(id)

CreateWithdrawal(id) ==
    /\ wr' = [wr EXCEPT ![id].state = "PENDING"]
    /\ inflight' = IF Backend = "memory" THEN inflight \cup {KeyOf[id]} ELSE inflight

\* UpdateWithdrawalState writes whatever state it is given ...
UpdateWithdrawalState(id, s) ==
    /\ wr' = [wr EXCEPT ![id].state = s]
    /\ inflight' = IF Backend = "memory" /\ s \in {"CONFIRMED", "FAILED"}
                   THEN inflight \ {KeyOf[id]} ELSE inflight

\* ... unless Postgres' unique index refuses it.
StateAdmitted(id, s) == Backend = "postgres" /\ s \in InflightStates => IndexAdmits(id)

\* A state write that may fail: with the index, or with the database.
TryUpdateState(id, s) ==
    \/ StateAdmitted(id, s) /\ UpdateWithdrawalState(id, s)
    \/ /\ ~StateAdmitted(id, s) \/ "lostwrite" \in Faults
       /\ UNCHANGED <<wr, inflight>>

-----------------------------------------------------------------------------
(* Create *)

\* GetWallet and the checks on the wallet's state.  The id is a fresh UUID.
StartCreate(c, id) ==
    /\ wr[id].state = "NONE"
    /\ \A d \in Callers : calls[d].id # id
    /\ wallets[WalletOf[id]] = "ACTIVE"
    /\ Begin(c, "Create", id, [Idle EXCEPT !.op = "Create", !.pc = "insert", !.id = id])
    /\ UNCHANGED <<wallets, wr, inflight, nonces, utxos, approved, accepted>>

Insert(c) ==
    LET id == calls[c].id IN
    /\ At(c, "insert")
    /\ \/ NoDuplicate(id) /\ CreateWithdrawal(id) /\ Goto(c, "whitelist")
       \/ ~NoDuplicate(id) /\ Return(c) /\ UNCHANGED <<wr, inflight>>
    /\ UNCHANGED <<wallets, nonces, utxos, approved, accepted>>

FailOpenWhitelist(c) ==
    /\ At(c, "whitelist")
    /\ TryUpdateState(calls[c].id, "WHITELISTED")
    /\ approved' \in {approved, approved \cup {calls[c].id}}
    /\ Return(c)
    /\ UNCHANGED <<wallets, nonces, utxos, accepted>>

RejectWithoutWrite(c) ==
    LET id == calls[c].id IN
    /\ At(c, "whitelist")
    /\ \/ approved' = approved \cup {id} /\ TryUpdateState(id, "WHITELISTED")
       \/ UNCHANGED <<approved, wr, inflight>>
    /\ Return(c)
    /\ UNCHANGED <<wallets, nonces, utxos, accepted>>

\* The synchronous whitelist check and the write of its outcome: approved,
\* or rejected, which an error of the engine is too.
CheckWhitelist(c) ==
    LET id == calls[c].id IN
    /\ At(c, "whitelist")
    /\ \/ approved' = approved \cup {id} /\ TryUpdateState(id, "WHITELISTED")
       \/ approved' = approved /\ TryUpdateState(id, "FAILED")
    /\ Return(c)
    /\ UNCHANGED <<wallets, nonces, utxos, accepted>>

-----------------------------------------------------------------------------
(* ConstructAndSign *)

ConstructUnguarded(c, id) ==
    /\ wr[id].state # "NONE"
    /\ Begin(c, "ConstructAndSign", id,
             [Idle EXCEPT !.op = "ConstructAndSign", !.id = id,
                          !.pc = CASE Chain(id) = "evm"     -> "reserve"
                                   [] Chain(id) = "bitcoin" -> "list"
                                   [] OTHER                 -> "sign"])
    /\ UNCHANGED <<wallets, wr, inflight, nonces, utxos, approved, accepted>>

StartConstruct(c, id) ==
    /\ wr[id].state = "WHITELISTED"
    /\ Begin(c, "ConstructAndSign", id,
             [Idle EXCEPT !.op = "ConstructAndSign", !.id = id,
                          !.pc = CASE Chain(id) = "evm"     -> "reserve"
                                   [] Chain(id) = "bitcoin" -> "list"
                                   [] OTHER                 -> "sign"])
    /\ UNCHANGED <<wallets, wr, inflight, nonces, utxos, approved, accepted>>

\* Nonces.ReserveNonce, whose lock protocol only decides whether it gives up.
ReserveNonce(c) ==
    LET w == WalletOf[calls[c].id] IN
    /\ At(c, "reserve")
    /\ \/ /\ nonces[w].pending < MaxNonce
          /\ nonces' = [nonces EXCEPT ![w] = IncrementPendingNonce(nonces[w])]
          /\ calls' = [calls EXCEPT ![c].pc = "saveNonce", ![c].nonce = nonces[w].pending]
       \/ "lock" \in Faults /\ Return(c) /\ UNCHANGED nonces
    /\ UNCHANGED <<wallets, wr, inflight, utxos, approved, accepted>>

\* UpdateWithdrawalNonce; its error is ignored.
SaveNonce(c) ==
    /\ At(c, "saveNonce")
    /\ \/ wr' = [wr EXCEPT ![calls[c].id].nonce = calls[c].nonce]
       \/ "lostwrite" \in Faults /\ UNCHANGED wr
    /\ Goto(c, "sign")
    /\ UNCHANGED <<wallets, inflight, nonces, utxos, approved, accepted>>

FreeOutpoints(w) == {o \in Outpoints : OwnerOf[o] = w /\ utxos[o] = "FREE"}

\* strconv.ParseInt as ConstructAndSign and parseVal use it: 0 on an error.
ParseInt(n) == IF AmountsParse THEN n ELSE 0

\* ListFreeUTXOs and the greedy choice among what it returned.
ListFree(c) ==
    LET id    == calls[c].id
        value == [o \in Outpoints |-> ParseInt(ValueOf[o])]
        picks == Selections(FreeOutpoints(WalletOf[id]), value, ParseInt(AmountOf[id]))
    IN
    /\ At(c, "list")
    /\ \/ \E S \in picks : calls' = [calls EXCEPT ![c].pc = "lock", ![c].ops = S]
       \/ picks = {} /\ Goto(c, "undoSelect")
    /\ UNCHANGED <<wallets, wr, inflight, nonces, utxos, approved, accepted>>

\* LockUTXOs; a row that is no longer free, or an aborted transaction, fails it.
LockSelected(c) ==
    LET ops == calls[c].ops IN
    /\ At(c, "lock")
    /\ \/ Lockable(utxos, ops) /\ utxos' = LockUTXOs(utxos, ops) /\ Goto(c, "saveOutpoints")
       \/ /\ ~Lockable(utxos, ops) \/ "store" \in Faults
          /\ UNCHANGED utxos /\ Goto(c, "undoSelect")
    /\ UNCHANGED <<wallets, wr, inflight, nonces, approved, accepted>>

\* A failed selection calls RollbackNonce with the unset nonce -1.
UndoSelect(c) ==
    LET w == WalletOf[calls[c].id] IN
    /\ At(c, "undoSelect")
    /\ nonces' = [nonces EXCEPT ![w] = RollbackPendingNonce(nonces[w], -1)]
    /\ Return(c)
    /\ UNCHANGED <<wallets, wr, inflight, utxos, approved, accepted>>

\* UpdateWithdrawalOutpoints.
SaveOutpoints(c) ==
    /\ At(c, "saveOutpoints")
    /\ \/ /\ wr' = [wr EXCEPT ![calls[c].id].ops = calls[c].ops]
          /\ Goto(c, "sign")
       \/ "store" \in Faults /\ UNCHANGED wr /\ StartRollback(c, calls[c].ops, "idle")
    /\ UNCHANGED <<wallets, inflight, nonces, utxos, approved, accepted>>

\* BuildUnsignedTx parses the amount; a Bitcoin transaction needs inputs.
Buildable(c) == AmountsParse /\ (Chain(calls[c].id) = "bitcoin" => calls[c].ops # {})

\* What the bytes of a signed transaction say: the nonce and the inputs.
Assemble(call) == [signed |-> TRUE, nonce |-> call.nonce, ops |-> call.ops]

\* BuildUnsignedTx, Sign, Assemble and UpdateWithdrawalSignedTx.  An error of
\* the first or the last leaves the withdrawal whitelisted, one of the other
\* two fails it; each of them releases what was reserved.
SignTx(c) ==
    /\ At(c, "sign")
    /\ \/ /\ Buildable(c)
          /\ wr' = [wr EXCEPT ![calls[c].id].tx = Assemble(calls[c])]
          /\ Goto(c, "markSigned")
       \/ /\ ~Buildable(c) \/ Faults \cap {"build", "store"} # {}
          /\ StartRollback(c, calls[c].ops, "idle")
          /\ UNCHANGED wr
       \/ /\ Buildable(c) /\ "sign" \in Faults
          /\ StartRollback(c, calls[c].ops, "markFailed")
          /\ UNCHANGED wr
    /\ UNCHANGED <<wallets, inflight, nonces, utxos, approved, accepted>>

\* An error here returns without a rollback.
MarkSigned(c) ==
    /\ At(c, "markSigned")
    /\ TryUpdateState(calls[c].id, "SIGNED")
    /\ Return(c)
    /\ UNCHANGED <<wallets, nonces, utxos, approved, accepted>>

\* What follows s.rollback.
AfterRollback(c) == IF calls[c].then = "markFailed" THEN Goto(c, "markFailed") ELSE Return(c)

\* One step of a loop over the rows still to be written; "Write" is the Store's
\* operation on them and "Continue" what follows the loop.
RowLoop(c, Write(_, _), Continue) ==
    \E batch \in LoopBatches(Backend, utxos, calls[c].rows) :
        /\ utxos' = Write(utxos, batch)
        /\ IF LoopDone(Backend, calls[c].rows, batch)
           THEN Continue
           ELSE calls' = [calls EXCEPT ![c].rows = @ \ batch]

\* s.rollback: RollbackNonce or Unlock, of which a chain uses one; the errors of
\* both are ignored.
Rollback(c) ==
    LET call     == calls[c]
        w        == WalletOf[call.id]
        hasNonce == ChainOf[w] = "evm" /\ call.nonce >= 0
    IN
    /\ At(c, "rollback")
    /\ \/ /\ hasNonce
          /\ nonces' = [nonces EXCEPT ![w] = RollbackPendingNonce(nonces[w], call.nonce)]
          /\ AfterRollback(c)
          /\ UNCHANGED utxos
       \/ /\ call.rows # {}
          /\ RowLoop(c, RestoreUTXOs, AfterRollback(c))
          /\ UNCHANGED nonces
       \/ /\ (~hasNonce /\ call.rows = {}) \/ "lostwrite" \in Faults
          /\ AfterRollback(c)
          /\ UNCHANGED <<nonces, utxos>>
    /\ UNCHANGED <<wallets, wr, inflight, approved, accepted>>

MarkFailed(c) ==
    /\ At(c, "markFailed")
    /\ TryUpdateState(calls[c].id, "FAILED")
    /\ Return(c)
    /\ UNCHANGED <<wallets, nonces, utxos, approved, accepted>>

-----------------------------------------------------------------------------
(* Broadcast *)

StartBroadcast(c, id) ==
    /\ wr[id].state = "SIGNED"
    /\ wr[id].tx.signed
    /\ Begin(c, "Broadcast", id,
             [Idle EXCEPT !.op = "Broadcast", !.pc = "submit", !.id = id,
                          !.nonce = wr[id].nonce, !.ops = wr[id].ops, !.tx = wr[id].tx])
    /\ UNCHANGED <<wallets, wr, inflight, nonces, utxos, approved, accepted>>

\* The gateway takes the bytes this call read.
BroadcastTx(call) ==
    accepted' = accepted \cup {[id |-> call.id, nonce |-> call.tx.nonce, ops |-> call.tx.ops]}

\* An error of the gateway releases the nonce and the outpoints of the row this
\* call read.
Submit(c) ==
    LET call == calls[c] IN
    /\ At(c, "submit")
    /\ \/ BroadcastTx(call) /\ calls' = [calls EXCEPT ![c].pc = "commit", ![c].rows = call.ops]
       \/ /\ "reject" \in Faults /\ UNCHANGED accepted
          /\ StartRollback(c, call.ops, "markFailed")
       \/ /\ "lostack" \in Faults /\ BroadcastTx(call)
          /\ StartRollback(c, call.ops, "markFailed")
    /\ UNCHANGED <<wallets, wr, inflight, nonces, utxos, approved>>

\* MarkSpent or CommitNonce; their errors are ignored.
Commit(c) ==
    LET call == calls[c]
        w    == WalletOf[call.id]
        spends  == ChainOf[w] = "bitcoin" /\ call.rows # {}
        commits == ChainOf[w] = "evm" /\ call.nonce >= 0
    IN
    /\ At(c, "commit")
    /\ \/ /\ spends
          /\ RowLoop(c, MarkUTXOsSpent, Goto(c, "markBroadcast"))
          /\ UNCHANGED nonces
       \/ /\ commits
          /\ nonces' = [nonces EXCEPT ![w] = AdvanceBroadcastNonce(nonces[w], call.nonce)]
          /\ Goto(c, "markBroadcast")
          /\ UNCHANGED utxos
       \/ /\ (~spends /\ ~commits) \/ "lostwrite" \in Faults
          /\ Goto(c, "markBroadcast")
          /\ UNCHANGED <<nonces, utxos>>
    /\ UNCHANGED <<wallets, wr, inflight, approved, accepted>>

MarkBroadcast(c) ==
    /\ At(c, "markBroadcast")
    /\ TryUpdateState(calls[c].id, "BROADCAST")
    /\ Return(c)
    /\ UNCHANGED <<wallets, nonces, utxos, approved, accepted>>

-----------------------------------------------------------------------------
(* Confirm, Fail and OnReorg *)

ConfirmUnguarded(c, id) ==
    /\ wr[id].state # "NONE"
    /\ Begin(c, "Confirm", id,
             [Idle EXCEPT !.op = "Confirm", !.pc = "markConfirmed", !.id = id])
    /\ UNCHANGED <<wallets, wr, inflight, nonces, utxos, approved, accepted>>

StartConfirm(c, id) ==
    /\ wr[id].state = "BROADCAST"
    /\ Begin(c, "Confirm", id,
             [Idle EXCEPT !.op = "Confirm", !.pc = "markConfirmed", !.id = id])
    /\ UNCHANGED <<wallets, wr, inflight, nonces, utxos, approved, accepted>>

MarkConfirmed(c) ==
    /\ At(c, "markConfirmed")
    /\ TryUpdateState(calls[c].id, "CONFIRMED")
    /\ Return(c)
    /\ UNCHANGED <<wallets, nonces, utxos, approved, accepted>>

\* Fail looks at no state, and passes no outpoints to s.rollback.
StartFail(c, id) ==
    /\ wr[id].state # "NONE"
    /\ Begin(c, "Fail", id,
             [Idle EXCEPT !.op = "Fail", !.pc = "rollback", !.id = id,
                          !.nonce = wr[id].nonce, !.then = "markFailed"])
    /\ UNCHANGED <<wallets, wr, inflight, nonces, utxos, approved, accepted>>

\* The gateway reports that the block of a transaction it took is gone, with the
\* outpoints the transaction had spent.  It may report it again.
StartReorg(c, id) ==
    /\ \E a \in accepted :
          /\ a.id = id
          /\ Begin(c, "OnReorg", id,
                   [Idle EXCEPT !.op = "OnReorg", !.pc = "restore", !.id = id,
                                !.state = wr[id].state, !.ops = a.ops, !.rows = a.ops])
    /\ UNCHANGED <<wallets, wr, inflight, nonces, utxos, approved, accepted>>

\* The event may name the wallet too, and ApplyReorgEvent restores once more.
AfterReorg(c) ==
    \/ Return(c)
    \/ calls[c].ops # {} /\ calls' = [calls EXCEPT ![c].pc = "restoreAgain",
                                                 ![c].rows = calls[c].ops]

AfterRestore(c) == IF calls[c].state = "CONFIRMED" THEN Goto(c, "demote") ELSE AfterReorg(c)

\* RestoreOnReorg; an error ends the operation.
Restore(c) ==
    LET rows  == calls[c].rows
        fails == LoopErrs(Backend, utxos, rows)
    IN
    /\ At(c, "restore")
    /\ \/ rows # {} /\ RowLoop(c, RestoreUTXOs, IF fails THEN Return(c) ELSE AfterRestore(c))
       \/ rows = {} /\ AfterRestore(c) /\ UNCHANGED utxos
       \/ rows # {} /\ "lostwrite" \in Faults /\ Return(c) /\ UNCHANGED utxos
    /\ UNCHANGED <<wallets, wr, inflight, nonces, approved, accepted>>

\* Back to BROADCAST, on the state read before the outpoints were restored.
Demote(c) ==
    LET id == calls[c].id IN
    /\ At(c, "demote")
    /\ \/ /\ StateAdmitted(id, "BROADCAST")
          /\ UpdateWithdrawalState(id, "BROADCAST")
          /\ AfterReorg(c)
       \/ /\ ~StateAdmitted(id, "BROADCAST") \/ "lostwrite" \in Faults
          /\ UNCHANGED <<wr, inflight>>
          /\ Return(c)
    /\ UNCHANGED <<wallets, nonces, utxos, approved, accepted>>

RestoreAgain(c) ==
    /\ At(c, "restoreAgain")
    /\ \/ RowLoop(c, RestoreUTXOs, Return(c))
       \/ "lostwrite" \in Faults /\ Return(c) /\ UNCHANGED utxos
    /\ UNCHANGED <<wallets, wr, inflight, nonces, approved, accepted>>

-----------------------------------------------------------------------------
(* The rest of the service, as far as the saga can see it *)

\* POST /wallets/{id}/nonce: a nonce the gateway's own transactions use.
AllocateNonce(w) ==
    /\ "AllocateNonce" \in Ops
    /\ nonces[w].pending < MaxNonce
    /\ nonces' = [nonces EXCEPT ![w] = IncrementPendingNonce(nonces[w])]
    /\ UNCHANGED <<wallets, wr, inflight, utxos, calls, approved, accepted>>

\* TrackUTXO: a new output is on the chain, so nothing has spent it.
TrackUTXO(o) ==
    /\ "TrackUTXO" \in Ops
    /\ utxos[o] = "ABSENT"
    /\ \A a \in accepted : o \notin a.ops
    /\ utxos' = InsertUTXO(utxos, o)
    /\ UNCHANGED <<wallets, wr, inflight, nonces, calls, approved, accepted>>

\* PruneFinalized, of outpoints a confirmed transaction spent.
PruneFinalized(a) ==
    /\ "PruneFinalized" \in Ops
    /\ wr[a.id].state = "CONFIRMED"
    /\ \E pruned \in SUBSET Tracked(utxos, a.ops) :
          pruned # {} /\ utxos' = PruneUTXOs(utxos, pruned)
    /\ UNCHANGED <<wallets, wr, inflight, nonces, calls, approved, accepted>>

\* The write of wallet.SetState, whose own check was made on an earlier read.
UpdateWalletState(w, s) ==
    /\ "SetState" \in Ops
    /\ wallets[w] # s
    /\ wallets' = [wallets EXCEPT ![w] = s]
    /\ UNCHANGED <<wr, inflight, nonces, utxos, calls, approved, accepted>>

\* The process of this caller dies; what the Store holds survives.
Crash(c) ==
    /\ "crash" \in Faults
    /\ calls[c].pc # "idle"
    /\ Return(c)
    /\ UNCHANGED <<wallets, wr, inflight, nonces, utxos, approved, accepted>>

-----------------------------------------------------------------------------

Start(c, id) ==
    \/ StartCreate(c, id)    \/ StartConstruct(c, id) \/ StartBroadcast(c, id)
    \/ StartConfirm(c, id)   \/ StartFail(c, id)      \/ StartReorg(c, id)

Step(c) ==
    \/ Insert(c)        \/ CheckWhitelist(c) \/ ReserveNonce(c)  \/ SaveNonce(c)
    \/ ListFree(c)      \/ LockSelected(c)   \/ UndoSelect(c)    \/ SaveOutpoints(c)
    \/ SignTx(c)        \/ MarkSigned(c)     \/ Rollback(c)      \/ MarkFailed(c)
    \/ Submit(c)        \/ Commit(c)         \/ MarkBroadcast(c) \/ MarkConfirmed(c)
    \/ Restore(c)       \/ Demote(c)         \/ RestoreAgain(c)

Environment ==
    \/ \E w \in Wallets : AllocateNonce(w) \/ \E s \in WalletStates : UpdateWalletState(w, s)
    \/ \E o \in Outpoints : TrackUTXO(o)
    \/ \E a \in accepted : PruneFinalized(a)
    \/ \E c \in Callers : Crash(c)

Next == Environment \/ \E c \in Callers : Step(c) \/ \E id \in Ids : Start(c, id)

Spec == Init /\ [][Next]_vars

\* A goroutine that runs makes progress.  The orchestrator and the gateway are outside
\* the service; the best they can do is to take up every withdrawal that is ready for its
\* next operation, and to report every confirmation, again and again.
Fairness ==
    /\ \A c \in Callers : WF_vars(Step(c))
    /\ \A id \in Ids :
          /\ SF_vars(\E c \in Callers : StartConstruct(c, id))
          /\ SF_vars(\E c \in Callers : StartBroadcast(c, id))
          /\ SF_vars(\E c \in Callers : StartConfirm(c, id))

FairSpec == Spec /\ Fairness

-----------------------------------------------------------------------------
(* Properties *)

Transactions == [id : Ids, nonce : Nat \cup {-1}, ops : SUBSET Outpoints]

\* The pending nonce never falls below 0, although a failed Bitcoin selection
\* calls RollbackNonce with -1 and Bitcoin wallets share the nonces table; the
\* other variables have their types.
TypeOK ==
    /\ wallets \in [Wallets -> WalletStates]
    /\ wr \in [Ids -> WithdrawalRows]
    /\ inflight \subseteq Keys
    /\ nonces \in [Wallets -> NonceRows]
    /\ utxos \in [Outpoints -> UtxoStates]
    /\ calls \in [Callers -> Calls]
    /\ approved \subseteq Ids
    /\ accepted \subseteq Transactions

\* Create, ConstructAndSign and Broadcast together: whatever fails, crashes or
\* overlaps, the gateway is only given transactions of withdrawals the Policy
\* Engine approved.
ApprovedOnly == \A a \in accepted : a.id \in approved

\* ConstructAndSign and Broadcast: however often they are retried after errors,
\* lost answers and crashes, a withdrawal is paid by one transaction only.
SinglePayout == \A a, b \in accepted : a.id = b.id => a = b

OnWallet(w) == {a \in accepted : WalletOf[a.id] = w}

\* ReserveNonce, RollbackNonce and the saga's use of them: two withdrawals of an
\* EVM wallet never go out under the same nonce.
NonceUnique ==
    \A w \in Wallets : ChainOf[w] = "evm" =>
        \A a, b \in OnWallet(w) : a.nonce = b.nonce => a = b

\* CommitNonce in Broadcast: once a withdrawal is BROADCAST the wallet's
\* broadcast nonce is past its nonce, and it is never past the pending nonce.
CommitCovers ==
    \A id \in Ids : Chain(id) = "evm" =>
        LET n == nonces[WalletOf[id]] IN
        /\ n.broadcast <= n.pending
        /\ wr[id].state \in {"BROADCAST", "CONFIRMED"} => wr[id].tx.nonce < n.broadcast

\* SelectForAmount, LockUTXOs and Unlock: two transactions of different
\* withdrawals never spend the same output.
OutpointExclusive == \A a, b \in accepted : a.id # b.id => a.ops \cap b.ops = {}

\* The withdrawals that need the lock on outpoint o: signed, or being worked on.
LockHolders(o) ==
    {id \in Ids :
        \/ wr[id].state = "SIGNED" /\ o \in wr[id].tx.ops
        \/ \E c \in Callers :
              /\ calls[c].id = id
              /\ \/ calls[c].pc \in {"saveOutpoints", "sign", "markSigned"} /\ o \in calls[c].ops
                 \/ calls[c].pc \in {"rollback", "commit"} /\ o \in calls[c].rows}

\* LockUTXOs, s.rollback and MarkSpent: a locked output is needed by a withdrawal
\* that is still on its way, so that no error path leaks a lock.
NoLeakedLock == \A o \in Outpoints : utxos[o] = "LOCKED" => LockHolders(o) # {}

\* Broadcast, MarkSpent and PruneFinalized: the outputs of a withdrawal that is
\* BROADCAST or CONFIRMED are spent or pruned, never free for another one.
BroadcastSpent ==
    \A id \in Ids : wr[id].state \in {"BROADCAST", "CONFIRMED"} =>
        \A o \in wr[id].tx.ops : utxos[o] \in {"SPENT", "ABSENT"}

\* CreateWithdrawal and UpdateWithdrawalState: of the requests for the same
\* wallet, address, amount and asset, one at a time is in flight.
DedupInflight ==
    \A i, j \in Ids :
        i # j /\ KeyOf[i] = KeyOf[j] => ~{wr[i].state, wr[j].state} \subseteq InflightStates

Lifecycle == INSTANCE WithdrawalLifecycle
             WITH st <- [id \in Ids |-> wr[id].state], paid <- {a.id : a \in accepted}

\* The saga implements WithdrawalLifecycle: the withdrawal's state follows one
\* path, and a withdrawal recorded as FAILED has paid nothing and stays FAILED.
LifecycleSpec == Lifecycle!Spec

\* Create: a PENDING request, which blocks its payment's key and which no other operation
\* takes up, has a Create under way that records the decision of the Policy Engine; so
\* neither a refusal, an error of the engine nor a concurrent request leaves it behind.
PendingInCreate ==
    \A id \in Ids : wr[id].state = "PENDING" =>
        \E c \in Callers : calls[c].op = "Create" /\ calls[c].id = id

\* ConstructAndSign, Broadcast and Confirm: when nothing fails, and the orchestrator and
\* the gateway do all they can, an approved withdrawal is CONFIRMED in the end.
HappyPath == \A id \in Ids : wr[id].state = "WHITELISTED" ~> wr[id].state = "CONFIRMED"
=============================================================================

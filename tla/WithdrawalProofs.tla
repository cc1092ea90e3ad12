-------------------------- MODULE WithdrawalProofs --------------------------
(***************************************************************************)
(* Proofs about the withdrawal saga, for all values of its constants:      *)
(* TypeOK; a summary of what one step of a call does to its own record, to *)
(* the row of its withdrawal and to the histories, on which the other      *)
(* proofs rest; ApprovedOnly.                                              *)
(***************************************************************************)
EXTENDS Withdrawal, TLAPS

ConstructLabels == {"reserve", "saveNonce", "list", "lock", "undoSelect",
                    "saveOutpoints", "sign", "markSigned"}

\* Where a call can be, given the operation it executes and the chain of its
\* withdrawal.
CallOK(k) ==
    /\ k.pc = "idle" => k.op = "none"
    /\ k.pc # "idle" => k.id \in Ids
    /\ k.pc \in {"insert", "whitelist"} => k.op = "Create"
    /\ k.pc \in ConstructLabels => k.op = "ConstructAndSign"
    /\ k.pc \in {"submit", "commit", "markBroadcast"} => k.op = "Broadcast"
    /\ k.pc \in {"rollback", "markFailed"} => k.op \in {"ConstructAndSign", "Broadcast", "Fail"}
    /\ k.pc = "markConfirmed" => k.op = "Confirm"
    /\ k.pc \in {"restore", "demote", "restoreAgain"} => k.op = "OnReorg"
    /\ k.pc \in {"list", "lock", "undoSelect"} => ChainOf[WalletOf[k.id]] = "bitcoin"

CallsOK == \A c \in Callers : CallOK(calls[c])

\* A Bitcoin wallet's nonce row, which only AllocateNonce writes, is above 0.
BitcoinNonces ==
    \A w \in Wallets : ChainOf[w] = "bitcoin" /\ nonces[w].row => nonces[w].pending > 0

TypeInv == TypeOK /\ CallsOK /\ BitcoinNonces

-----------------------------------------------------------------------------
(* The operators the actions are built from *)

\* The nonce operations yield nonce rows; a rollback to -1 needs a row at 0.
LEMMA NonceOps ==
    ASSUME NEW n \in NonceRows
    PROVE  /\ IncrementPendingNonce(n) \in NonceRows
           /\ \A v \in Nat : AdvanceBroadcastNonce(n, v) \in NonceRows
           /\ \A v \in Nat : RollbackPendingNonce(n, v) \in NonceRows
           /\ ~(n.row /\ n.pending = 0) => RollbackPendingNonce(n, -1) = n
<1>1. IncrementPendingNonce(n) \in NonceRows
  <2>1. n.pending + 1 \in Nat
    BY DEF NonceRows
  <2>2. QED
    BY <2>1, Zenon DEF NonceRows, IncrementPendingNonce
<1>2. ASSUME NEW v \in Nat PROVE AdvanceBroadcastNonce(n, v) \in NonceRows
  <2>1. (IF v + 1 > n.broadcast THEN v + 1 ELSE n.broadcast) \in Nat
    BY DEF NonceRows
  <2>2. QED
    BY <2>1, Zenon DEF NonceRows, AdvanceBroadcastNonce
<1>3. ASSUME NEW v \in Nat PROVE RollbackPendingNonce(n, v) \in NonceRows
  BY DEF NonceRows, RollbackPendingNonce
<1>4. ~(n.row /\ n.pending = 0) => RollbackPendingNonce(n, -1) = n
  BY DEF NonceRows, RollbackPendingNonce
<1>5. QED
  BY <1>1, <1>2, <1>3, <1>4

\* The operations on the utxos table yield tables.
LEMMA UtxoOps ==
    ASSUME NEW u \in [Outpoints -> UtxoStates], NEW ops
    PROVE  /\ LockUTXOs(u, ops) \in [Outpoints -> UtxoStates]
           /\ MarkUTXOsSpent(u, ops) \in [Outpoints -> UtxoStates]
           /\ RestoreUTXOs(u, ops) \in [Outpoints -> UtxoStates]
           /\ PruneUTXOs(u, ops) \in [Outpoints -> UtxoStates]
           /\ InsertUTXO(u, ops) \in [Outpoints -> UtxoStates]
<1>1. ASSUME NEW S, NEW s \in UtxoStates
      PROVE  WithRows(u, S, s) \in [Outpoints -> UtxoStates]
  BY DEF WithRows
<1>2. QED
  BY <1>1 DEF UtxoStates, LockUTXOs, MarkUTXOsSpent, RestoreUTXOs, PruneUTXOs, InsertUTXO

\* A write of a withdrawal's state keeps the rows' types.
LEMMA StateWrites ==
    ASSUME wr \in [Ids -> WithdrawalRows], inflight \subseteq Keys,
           NEW id \in Ids, NEW s \in WithdrawalStates,
           \/ UpdateWithdrawalState(id, s)
           \/ TryUpdateState(id, s)
    PROVE  wr' \in [Ids -> WithdrawalRows] /\ inflight' \subseteq Keys
BY DEF UpdateWithdrawalState, TryUpdateState, WithdrawalRows

\* The step makes k the call of caller c.
NextCall(c, k) == k \in Calls /\ CallOK(k) /\ calls' = [calls EXCEPT ![c] = k]

\* A caller's record is replaced by one of the right type.
LEMMA CallWrite ==
    ASSUME calls \in [Callers -> Calls], CallsOK, NEW c \in Callers, NEW k, NextCall(c, k)
    PROVE  calls' \in [Callers -> Calls] /\ CallsOK'
BY DEF CallsOK, CallOK, NextCall

\* A caller between operations is well typed.
LEMMA IdleCall == Idle \in Calls /\ CallOK(Idle)
BY ConstantTypes DEF Idle, Calls, CallOK, Labels, WithdrawalStates, Txs, NoTx, ConstructLabels

\* The state the service starts in is well typed.
LEMMA TypeInit == Init => TypeInv
BY IdleCall DEF Init, TypeInv, TypeOK, CallsOK, BitcoinNonces, NoRow, NoTx, Txs, WithdrawalRows,
   WithdrawalStates, WalletStates, NonceRows, NoNonceRow, UtxoStates, Keys

-----------------------------------------------------------------------------
(* Type correctness *)

\* Beginning an operation keeps every type.
LEMMA TypeStarts ==
    ASSUME TypeInv, NEW c \in Callers, NEW id \in Ids, Start(c, id)
    PROVE  TypeInv'
<1>1. wr[id] \in WithdrawalRows
  BY DEF TypeInv, TypeOK
<1>2. \E k : NextCall(c, k)
  <2>1. CASE StartCreate(c, id)
    <3>1. NextCall(c, [Idle EXCEPT !.op = "Create", !.pc = "insert", !.id = id])
      BY Zenon, <2>1 DEF StartCreate, NextCall, Begin, Calls, Idle, CallOK, ConstructLabels,
         Labels, Txs, NoTx,
             WithdrawalStates, InflightStates, AllOps, DriverOps, WithdrawalRows
    <3>2. QED BY <3>1
  <2>2. CASE StartConstruct(c, id)
    <3>1. PICK l \in {"reserve", "list", "sign"} :
             /\ l = "list" => Chain(id) = "bitcoin"
             /\ calls' = [calls EXCEPT ![c] = [Idle EXCEPT !.op = "ConstructAndSign", !.id = id,
                                                          !.pc = l]]
      BY Zenon, <2>2 DEF StartConstruct, Begin
    <3>2. NextCall(c, [Idle EXCEPT !.op = "ConstructAndSign", !.id = id, !.pc = l])
      BY Zenon, <3>1 DEF Chain, NextCall, Begin, Calls, Idle, CallOK, ConstructLabels, Labels,
         Txs, NoTx,
             WithdrawalStates, InflightStates, AllOps, DriverOps, WithdrawalRows
    <3>3. QED BY <3>2
  <2>3. CASE StartBroadcast(c, id)
    <3>1. NextCall(c, [Idle EXCEPT !.op = "Broadcast", !.pc = "submit", !.id = id,
                          !.nonce = wr[id].nonce, !.ops = wr[id].ops, !.tx = wr[id].tx])
      BY <1>1, <2>3 DEF StartBroadcast, NextCall, Begin, Calls, Idle, CallOK, ConstructLabels,
         Labels, Txs, NoTx,
             WithdrawalStates, InflightStates, AllOps, DriverOps, WithdrawalRows
    <3>2. QED BY <3>1
  <2>4. CASE StartConfirm(c, id)
    <3>1. NextCall(c, [Idle EXCEPT !.op = "Confirm", !.pc = "markConfirmed", !.id = id])
      BY Zenon, <2>4 DEF StartConfirm, NextCall, Begin, Calls, Idle, CallOK, ConstructLabels,
         Labels, Txs, NoTx,
             WithdrawalStates, InflightStates, AllOps, DriverOps, WithdrawalRows
    <3>2. QED BY <3>1
  <2>5. CASE StartFail(c, id)
    <3>1. NextCall(c, [Idle EXCEPT !.op = "Fail", !.pc = "rollback", !.id = id,
                          !.nonce = wr[id].nonce, !.then = "markFailed"])
      BY <1>1, <2>5, ZenonT(40) DEF StartFail, NextCall, Begin, Calls, Idle, CallOK,
         ConstructLabels,
         Labels, Txs, NoTx, WithdrawalStates, InflightStates, AllOps, DriverOps, WithdrawalRows
    <3>2. QED BY <3>1
  <2>6. CASE StartReorg(c, id)
    <3>1. PICK a \in accepted :
             calls' = [calls EXCEPT ![c] =
                 [Idle EXCEPT !.op = "OnReorg", !.pc = "restore", !.id = id,
                              !.state = wr[id].state, !.ops = a.ops, !.rows = a.ops]]
      BY Zenon, <2>6 DEF StartReorg, Begin
    <3>2. a.ops \in SUBSET Outpoints
      BY DEF TypeInv, TypeOK, Transactions
    <3>3. NextCall(c, [Idle EXCEPT !.op = "OnReorg", !.pc = "restore", !.id = id,
                              !.state = wr[id].state, !.ops = a.ops, !.rows = a.ops])
      BY <1>1, <3>1, <3>2, ZenonT(40) DEF NextCall, Begin, Calls, Idle, CallOK, ConstructLabels,
         Labels, Txs, NoTx, WithdrawalStates, InflightStates, AllOps, DriverOps, WithdrawalRows
    <3>4. QED BY <3>3
  <2>7. QED
    BY <2>1, <2>2, <2>3, <2>4, <2>5, <2>6 DEF Start
<1>3. UNCHANGED <<wallets, wr, inflight, nonces, utxos, approved, accepted>>
  BY Zenon DEF Start, StartCreate, StartConstruct, StartBroadcast, StartConfirm, StartFail,
     StartReorg
<1>4. QED
  BY <1>2, <1>3, CallWrite DEF TypeInv, TypeOK, BitcoinNonces

CallsTyped == calls \in [Callers -> Calls] /\ CallsOK

\* A step that ends caller c's operation.
LEMMA ReturnTyped ==
    ASSUME CallsTyped, NEW c \in Callers, Return(c)
    PROVE  CallsTyped'
<1>1. NextCall(c, Idle)
  BY IdleCall DEF Return, NextCall
<1>2. QED
  BY <1>1, CallWrite DEF CallsTyped

\* The calls a step of caller c may leave behind, besides an idle one.
LEMMA ProgressTyped ==
    ASSUME CallsTyped, NEW c \in Callers, NEW l \in Labels, CallOK([calls[c] EXCEPT !.pc = l]),
           NEW n \in Nat \cup {-1}, NEW S \in SUBSET Outpoints, NEW R \in SUBSET Outpoints,
           NEW t \in {"idle", "markFailed"},
           calls' = [calls EXCEPT ![c].pc = l, ![c].nonce = n, ![c].ops = S,
                                  ![c].rows = R, ![c].then = t]
    PROVE  CallsTyped'
<1> DEFINE k == [calls[c] EXCEPT !.pc = l, !.nonce = n, !.ops = S, !.rows = R, !.then = t]
<1>1. k \in Calls
  BY ZenonT(40) DEF CallsTyped, Calls
<1>2. CallOK(k)
  BY DEF CallsTyped, Calls, CallOK
<1>3. NextCall(c, k)
  BY ZenonT(40), <1>1, <1>2 DEF NextCall, CallsTyped
<1>4. QED
  BY <1>3, CallWrite DEF CallsTyped

\* A step that only moves caller c to another label.
LEMMA GotoTyped ==
    ASSUME CallsTyped, NEW c \in Callers, NEW l \in Labels, CallOK([calls[c] EXCEPT !.pc = l]),
           Goto(c, l)
    PROVE  CallsTyped'
<1>1. calls[c] \in Calls
  BY DEF CallsTyped
<1>2. calls' = [calls EXCEPT ![c].pc = l, ![c].nonce = calls[c].nonce, ![c].ops = calls[c].ops,
                             ![c].rows = calls[c].rows, ![c].then = calls[c].then]
  BY Zenon, <1>1 DEF Goto, CallsTyped, Calls
<1>3. QED
  BY <1>1, <1>2, ProgressTyped DEF Calls

\* What follows s.rollback keeps the calls typed.
LEMMA AfterRollbackTyped ==
    ASSUME CallsTyped, NEW c \in Callers, At(c, "rollback"), AfterRollback(c)
    PROVE  CallsTyped'
<1>1. CallOK([calls[c] EXCEPT !.pc = "markFailed"])
  BY DEF CallsTyped, CallsOK, CallOK, Calls, At, ConstructLabels
<1>2. QED
  BY Zenon, <1>1, ReturnTyped, GotoTyped DEF AfterRollback, Labels

\* Entering s.rollback keeps the calls typed.
LEMMA StartRollbackTyped ==
    ASSUME CallsTyped, NEW c \in Callers, calls[c].op \in {"ConstructAndSign", "Broadcast"},
           calls[c].id \in Ids, NEW R \in SUBSET Outpoints, NEW t \in {"idle", "markFailed"},
           StartRollback(c, R, t)
    PROVE  CallsTyped'
<1>1. calls[c] \in Calls
  BY DEF CallsTyped
<1>2. calls' = [calls EXCEPT ![c].pc = "rollback", ![c].nonce = calls[c].nonce,
                             ![c].ops = calls[c].ops, ![c].rows = R, ![c].then = t]
  BY <1>1 DEF StartRollback, CallsTyped, Calls
<1>3. CallOK([calls[c] EXCEPT !.pc = "rollback"])
  BY <1>1 DEF CallOK, Calls, ConstructLabels
<1>4. QED
  BY <1>1, <1>2, <1>3, ProgressTyped, ZenonT(40) DEF Calls, Labels

\* The types of the local variables of a call.
LEMMA CallFields ==
    ASSUME NEW k \in Calls
    PROVE  /\ k.pc \in Labels /\ k.nonce \in Nat \cup {-1} /\ k.ops \in SUBSET Outpoints
           /\ k.rows \in SUBSET Outpoints /\ k.then \in {"idle", "markFailed"}
           /\ k.tx \in Txs /\ k.id \in Ids \cup {NoId} /\ k.state \in WithdrawalStates
BY DEF Calls

\* A step of a row loop over the utxos table.
LEMMA RowLoopTyped ==
    ASSUME CallsTyped, NEW c \in Callers, NEW batch,
           calls' = [calls EXCEPT ![c].rows = @ \ batch]
    PROVE  CallsTyped'
<1> DEFINE k == [calls[c] EXCEPT !.rows = @ \ batch]
<1>1. calls[c] \in Calls /\ CallOK(calls[c])
  BY DEF CallsTyped, CallsOK
<1>2. k \in Calls
  BY <1>1 DEF Calls
<1>3. CallOK(k)
  BY <1>1 DEF Calls, CallOK
<1>4. NextCall(c, k)
  BY <1>2, <1>3 DEF NextCall
<1>5. QED
  BY Zenon, <1>4, CallWrite DEF CallsTyped

\* What follows OnReorg keeps the calls typed.
LEMMA AfterReorgTyped ==
    ASSUME CallsTyped, NEW c \in Callers, calls[c].op = "OnReorg", calls[c].id \in Ids, AfterReorg(c)
    PROVE  CallsTyped'
<1>1. calls[c] \in Calls
  BY DEF CallsTyped
<1>2. CASE calls' = [calls EXCEPT ![c].pc = "restoreAgain", ![c].rows = calls[c].ops]
  <2>1. calls' = [calls EXCEPT ![c].pc = "restoreAgain", ![c].nonce = calls[c].nonce,
                    ![c].ops = calls[c].ops, ![c].rows = calls[c].ops, ![c].then = calls[c].then]
    BY <1>1, <1>2 DEF CallsTyped, Calls
  <2>2. CallOK([calls[c] EXCEPT !.pc = "restoreAgain"]) /\ "restoreAgain" \in Labels
    BY <1>1 DEF CallOK, Calls, ConstructLabels, Labels
  <2>3. QED
    BY Zenon, <1>1, <2>1, <2>2, CallFields, ProgressTyped
<1>3. QED
  BY <1>2, ReturnTyped DEF AfterReorg

\* Every step of an operation keeps every type, one case per step of the saga.
LEMMA TypeSteps ==
    ASSUME TypeInv, NEW c \in Callers, Step(c)
    PROVE  TypeInv'
<1>0. CallsTyped /\ calls[c] \in Calls /\ CallOK(calls[c])
  BY DEF TypeInv, TypeOK, CallsTyped, CallsOK
<1>1. CASE Insert(c)
  <2>1. CallsTyped'
    <3>1. calls[c].pc = "insert" => CallOK([calls[c] EXCEPT !.pc = "whitelist"])
      BY <1>0 DEF CallOK, Calls, ConstructLabels
    <3>2. QED
      BY Zenon, <1>0, <1>1, <3>1, ReturnTyped, GotoTyped DEF Insert, At, Labels
  <2>2. wr' \in [Ids -> WithdrawalRows] /\ inflight' \subseteq Keys
    <3>1. calls[c].id \in Ids
      BY <1>0, <1>1 DEF Insert, At, CallOK
    <3>2. QED
      BY <1>1, <3>1 DEF Insert, CreateWithdrawal, TypeInv, TypeOK, WithdrawalRows,
         WithdrawalStates, InflightStates, Keys
  <2>3. QED
    BY <1>1, <2>1, <2>2 DEF Insert, TypeInv, TypeOK, CallsTyped, BitcoinNonces
<1>2. CASE CheckWhitelist(c)
  <2>1. calls[c].id \in Ids
    BY <1>0, <1>2 DEF CheckWhitelist, At, CallOK
  <2>2. wr' \in [Ids -> WithdrawalRows] /\ inflight' \subseteq Keys
    BY <1>2, <2>1, StateWrites DEF CheckWhitelist, TypeInv, TypeOK, WithdrawalStates, InflightStates
  <2>3. CallsTyped'
    BY <1>0, <1>2, ReturnTyped DEF CheckWhitelist
  <2>4. QED
    BY <1>2, <2>1, <2>2, <2>3 DEF CheckWhitelist, TypeInv, TypeOK, CallsTyped, BitcoinNonces
<1>3. CASE ReserveNonce(c)
  <2> DEFINE w == WalletOf[calls[c].id]
  <2>1. w \in Wallets /\ nonces[w] \in NonceRows
    BY <1>0, <1>3, ConstantTypes DEF ReserveNonce, At, CallOK, TypeInv, TypeOK
  <2>2. CASE UNCHANGED nonces /\ Return(c)
    BY <1>0, <1>3, <2>2, ReturnTyped DEF ReserveNonce, TypeInv, TypeOK, CallsTyped, BitcoinNonces
  <2>3. CASE /\ nonces' = [nonces EXCEPT ![w] = IncrementPendingNonce(nonces[w])]
             /\ calls' = [calls EXCEPT ![c].pc = "saveNonce", ![c].nonce = nonces[w].pending]
    <3>1. nonces' \in [Wallets -> NonceRows]
      BY <2>1, <2>3, NonceOps DEF TypeInv, TypeOK
    <3>2. BitcoinNonces'
      BY <2>1, <2>3 DEF TypeInv, TypeOK, BitcoinNonces, IncrementPendingNonce, NonceRows
    <3>3. calls' = [calls EXCEPT ![c].pc = "saveNonce", ![c].nonce = nonces[w].pending,
               ![c].ops = calls[c].ops, ![c].rows = calls[c].rows, ![c].then = calls[c].then]
      BY <1>0, <2>3, ZenonT(40) DEF CallsTyped, Calls
    <3>4. CallOK([calls[c] EXCEPT !.pc = "saveNonce"])
      BY <1>0, <1>3 DEF CallOK, Calls, ConstructLabels, ReserveNonce, At
    <3>5. CallsTyped'
      <4>1. "saveNonce" \in Labels /\ nonces[w].pending \in Nat \cup {-1}
        BY <2>1 DEF Labels, NonceRows
      <4>2. QED
        BY Zenon, <1>0, <3>3, <3>4, <4>1, CallFields, ProgressTyped
    <3>6. QED
      BY <1>3, <3>1, <3>2, <3>5 DEF ReserveNonce, TypeInv, TypeOK, CallsTyped
  <2>4. QED
    BY <1>3, <2>2, <2>3 DEF ReserveNonce
<1>4. CASE SaveNonce(c)
  <2>1. wr' \in [Ids -> WithdrawalRows]
    BY <1>0, <1>4 DEF SaveNonce, TypeInv, TypeOK, WithdrawalRows, Calls
  <2>2. CallOK([calls[c] EXCEPT !.pc = "sign"])
    BY <1>0, <1>4 DEF CallOK, Calls, ConstructLabels, SaveNonce, At
  <2>3. CallsTyped'
    BY Zenon, <1>0, <1>4, <2>2, GotoTyped DEF SaveNonce, Labels
  <2>4. QED
    BY <1>4, <2>1, <2>3 DEF SaveNonce, TypeInv, TypeOK, CallsTyped, BitcoinNonces
<1>5. CASE ListFree(c)
  <2> DEFINE w == WalletOf[calls[c].id]
  <2>1. CallOK([calls[c] EXCEPT !.pc = "lock"]) /\ CallOK([calls[c] EXCEPT !.pc = "undoSelect"])
    BY <1>0, <1>5 DEF CallOK, Calls, ConstructLabels, ListFree, At
  <2>3. ASSUME NEW S \in SUBSET FreeOutpoints(w),
               calls' = [calls EXCEPT ![c].pc = "lock", ![c].ops = S]
        PROVE  CallsTyped'
    <3>1. S \in SUBSET Outpoints /\ "lock" \in Labels
      BY <2>3 DEF FreeOutpoints, Labels
    <3>2. calls' = [calls EXCEPT ![c].pc = "lock", ![c].nonce = calls[c].nonce,
               ![c].ops = S, ![c].rows = calls[c].rows, ![c].then = calls[c].then]
      BY <1>0, <2>3, ZenonT(40) DEF CallsTyped, Calls
    <3>3. QED
      BY Zenon, <1>0, <2>1, <3>1, <3>2, CallFields, ProgressTyped
  <2>4. CallsTyped'
    BY Zenon, <1>5, <1>0, <2>1, <2>3, GotoTyped DEF ListFree, Selections, Labels
  <2>5. QED
    BY <1>5, <2>4 DEF ListFree, TypeInv, TypeOK, CallsTyped, BitcoinNonces
<1>6. CASE LockSelected(c)
  <2>1. CallOK([calls[c] EXCEPT !.pc = "saveOutpoints"]) /\ CallOK([calls[c] EXCEPT !.pc = "undoSelect"])
    BY <1>0, <1>6 DEF CallOK, Calls, ConstructLabels, LockSelected, At
  <2>2. CallsTyped'
    BY Zenon, <1>0, <1>6, <2>1, GotoTyped DEF LockSelected, Labels
  <2>3. utxos' \in [Outpoints -> UtxoStates]
    BY <1>6, UtxoOps DEF LockSelected, TypeInv, TypeOK
  <2>4. QED
    BY <1>6, <2>2, <2>3 DEF LockSelected, TypeInv, TypeOK, CallsTyped, BitcoinNonces
<1>7. CASE UndoSelect(c)
  <2> DEFINE w == WalletOf[calls[c].id]
  <2>1. w \in Wallets /\ nonces[w] \in NonceRows /\ ~(nonces[w].row /\ nonces[w].pending = 0)
    <3>1. w \in Wallets /\ nonces[w] \in NonceRows /\ ChainOf[w] = "bitcoin"
      BY <1>0, <1>7, ConstantTypes DEF UndoSelect, At, CallOK, TypeInv, TypeOK
    <3>2. QED
      BY <3>1 DEF TypeInv, BitcoinNonces, NonceRows
  <2>2. nonces' = nonces
    BY <1>7, <2>1, NonceOps DEF UndoSelect, TypeInv, TypeOK
  <2>3. CallsTyped'
    BY <1>0, <1>7, ReturnTyped DEF UndoSelect
  <2>4. QED
    BY <1>7, <2>2, <2>3, ZenonT(40) DEF UndoSelect, TypeInv, TypeOK, CallsTyped, BitcoinNonces
<1>8. CASE SaveOutpoints(c)
  <2>1. calls[c].id \in Ids /\ calls[c].op = "ConstructAndSign"
    BY <1>0, <1>8 DEF SaveOutpoints, At, CallOK, ConstructLabels
  <2>2. CallOK([calls[c] EXCEPT !.pc = "sign"])
    BY <1>0, <1>8 DEF CallOK, Calls, ConstructLabels, SaveOutpoints, At
  <2>3. CallsTyped'
    BY Zenon, <1>0, <1>8, <2>1, <2>2, GotoTyped, StartRollbackTyped, CallFields
       DEF SaveOutpoints, Labels
  <2>4. wr' \in [Ids -> WithdrawalRows]
    BY <1>0, <1>8, CallFields DEF SaveOutpoints, TypeInv, TypeOK, WithdrawalRows
  <2>5. QED
    BY <1>8, <2>3, <2>4 DEF SaveOutpoints, TypeInv, TypeOK, CallsTyped, BitcoinNonces
<1>9. CASE SignTx(c)
  <2>1. calls[c].id \in Ids /\ calls[c].op = "ConstructAndSign"
    BY <1>0, <1>9 DEF SignTx, At, CallOK, ConstructLabels
  <2>2. CallOK([calls[c] EXCEPT !.pc = "markSigned"])
    BY <1>0, <1>9 DEF CallOK, Calls, ConstructLabels, SignTx, At
  <2>3. CallsTyped'
    BY Zenon, <1>0, <1>9, <2>1, <2>2, GotoTyped, StartRollbackTyped, CallFields DEF SignTx, Labels
  <2>4. wr' \in [Ids -> WithdrawalRows]
    <3>1. Assemble(calls[c]) \in Txs
      BY <1>0, CallFields DEF Assemble, Txs
    <3>2. wr' = wr \/ wr' = [wr EXCEPT ![calls[c].id].tx = Assemble(calls[c])]
      BY <1>9 DEF SignTx
    <3>3. QED
      BY <3>1, <3>2 DEF TypeInv, TypeOK, WithdrawalRows
  <2>5. QED
    BY <1>9, <2>3, <2>4 DEF SignTx, TypeInv, TypeOK, CallsTyped, BitcoinNonces
<1>10. CASE MarkSigned(c)
  <2>1. calls[c].id \in Ids
    BY <1>0, <1>10 DEF MarkSigned, At, CallOK
  <2>2. wr' \in [Ids -> WithdrawalRows] /\ inflight' \subseteq Keys
    BY <1>10, <2>1, StateWrites DEF MarkSigned, TypeInv, TypeOK, WithdrawalStates, InflightStates
  <2>3. CallsTyped'
    BY <1>0, <1>10, ReturnTyped DEF MarkSigned
  <2>4. QED
    BY <1>10, <2>2, <2>3 DEF MarkSigned, TypeInv, TypeOK, CallsTyped, BitcoinNonces
<1>11. CASE MarkFailed(c)
  <2>1. calls[c].id \in Ids
    BY <1>0, <1>11 DEF MarkFailed, At, CallOK
  <2>2. wr' \in [Ids -> WithdrawalRows] /\ inflight' \subseteq Keys
    BY <1>11, <2>1, StateWrites DEF MarkFailed, TypeInv, TypeOK, WithdrawalStates, InflightStates
  <2>3. CallsTyped'
    BY <1>0, <1>11, ReturnTyped DEF MarkFailed
  <2>4. QED
    BY <1>11, <2>2, <2>3 DEF MarkFailed, TypeInv, TypeOK, CallsTyped, BitcoinNonces
<1>12. CASE MarkBroadcast(c)
  <2>1. calls[c].id \in Ids
    BY <1>0, <1>12 DEF MarkBroadcast, At, CallOK
  <2>2. wr' \in [Ids -> WithdrawalRows] /\ inflight' \subseteq Keys
    BY <1>12, <2>1, StateWrites DEF MarkBroadcast, TypeInv, TypeOK, WithdrawalStates, InflightStates
  <2>3. CallsTyped'
    BY <1>0, <1>12, ReturnTyped DEF MarkBroadcast
  <2>4. QED
    BY <1>12, <2>2, <2>3 DEF MarkBroadcast, TypeInv, TypeOK, CallsTyped, BitcoinNonces
<1>13. CASE MarkConfirmed(c)
  <2>1. calls[c].id \in Ids
    BY <1>0, <1>13 DEF MarkConfirmed, At, CallOK
  <2>2. wr' \in [Ids -> WithdrawalRows] /\ inflight' \subseteq Keys
    BY <1>13, <2>1, StateWrites DEF MarkConfirmed, TypeInv, TypeOK, WithdrawalStates, InflightStates
  <2>3. CallsTyped'
    BY <1>0, <1>13, ReturnTyped DEF MarkConfirmed
  <2>4. QED
    BY <1>13, <2>2, <2>3 DEF MarkConfirmed, TypeInv, TypeOK, CallsTyped, BitcoinNonces
<1>14. CASE Rollback(c)
  <2> DEFINE w == WalletOf[calls[c].id]
  <2>1. w \in Wallets /\ nonces[w] \in NonceRows
    BY <1>0, <1>14, ConstantTypes DEF Rollback, At, CallOK, TypeInv, TypeOK
  <2>2. CASE /\ ChainOf[w] = "evm" /\ calls[c].nonce >= 0
             /\ nonces' = [nonces EXCEPT ![w] = RollbackPendingNonce(nonces[w], calls[c].nonce)]
             /\ AfterRollback(c)
             /\ UNCHANGED utxos
    <3>1. calls[c].nonce \in Nat
      BY <1>0, <2>2, CallFields
    <3>2. nonces' \in [Wallets -> NonceRows]
      BY Zenon, <2>1, <2>2, <3>1, NonceOps DEF TypeInv, TypeOK
    <3>3. BitcoinNonces'
      BY <2>1, <2>2 DEF TypeInv, TypeOK, BitcoinNonces
    <3>4. CallsTyped'
      BY <1>0, <1>14, <2>2, AfterRollbackTyped DEF Rollback
    <3>5. QED
      BY Zenon, <1>14, <2>2, <3>2, <3>3, <3>4 DEF Rollback, TypeInv, TypeOK, CallsTyped
  <2>3. CASE RowLoop(c, RestoreUTXOs, AfterRollback(c)) /\ UNCHANGED nonces
    <3>0. PICK batch :
             /\ utxos' = RestoreUTXOs(utxos, batch)
             /\ AfterRollback(c) \/ calls' = [calls EXCEPT ![c].rows = @ \ batch]
      BY <2>3 DEF RowLoop
    <3>1. CallsTyped' /\ utxos' \in [Outpoints -> UtxoStates]
      BY Zenon, <1>0, <1>14, <3>0, AfterRollbackTyped, RowLoopTyped, UtxoOps
         DEF Rollback, TypeInv, TypeOK
    <3>2. QED
      BY <1>14, <2>3, <3>1 DEF Rollback, TypeInv, TypeOK, CallsTyped, BitcoinNonces
  <2>4. CASE AfterRollback(c) /\ UNCHANGED <<nonces, utxos>>
    <3>1. CallsTyped'
      BY <1>0, <1>14, <2>4, AfterRollbackTyped DEF Rollback
    <3>2. QED
      BY <1>14, <2>4, <3>1 DEF Rollback, TypeInv, TypeOK, CallsTyped, BitcoinNonces
  <2>5. QED
    BY <1>14, <2>2, <2>3, <2>4 DEF Rollback
<1>15. CASE Submit(c)
  <2>1. calls[c].id \in Ids /\ calls[c].op = "Broadcast" /\ calls[c].tx \in Txs
    BY <1>0, <1>15, CallFields DEF Submit, At, CallOK
  <2>2. accepted' \subseteq Transactions
    <3> DEFINE a == [id |-> calls[c].id, nonce |-> calls[c].tx.nonce, ops |-> calls[c].tx.ops]
    <3>1. a \in Transactions
      BY <2>1 DEF Txs, Transactions
    <3>2. accepted' \subseteq accepted \cup {a}
      BY <1>15 DEF Submit, BroadcastTx
    <3> HIDE DEF a
    <3>3. QED
      BY <3>1, <3>2 DEF TypeInv, TypeOK
  <2>3. CallsTyped'
    <3>1. CASE calls' = [calls EXCEPT ![c].pc = "commit", ![c].rows = calls[c].ops]
      <4>1. calls' = [calls EXCEPT ![c].pc = "commit", ![c].nonce = calls[c].nonce,
               ![c].ops = calls[c].ops, ![c].rows = calls[c].ops, ![c].then = calls[c].then]
        BY <1>0, <3>1, ZenonT(40) DEF CallsTyped, Calls
      <4>2. CallOK([calls[c] EXCEPT !.pc = "commit"]) /\ "commit" \in Labels
        BY <1>0, <1>15 DEF CallOK, Calls, ConstructLabels, Submit, At, Labels
      <4>3. QED
        BY Zenon, <1>0, <4>1, <4>2, CallFields, ProgressTyped
    <3>2. QED
      BY <1>0, <1>15, <2>1, <3>1, StartRollbackTyped, CallFields DEF Submit
  <2>4. QED
    BY <1>15, <2>2, <2>3 DEF Submit, TypeInv, TypeOK, CallsTyped, BitcoinNonces
<1>16. CASE Commit(c)
  <2> DEFINE w == WalletOf[calls[c].id]
  <2>1. w \in Wallets /\ nonces[w] \in NonceRows
    BY Zenon, <1>0, <1>16, ConstantTypes DEF Commit, At, CallOK, TypeInv, TypeOK
  <2>2. CallOK([calls[c] EXCEPT !.pc = "markBroadcast"]) /\ "markBroadcast" \in Labels
    BY <1>0, <1>16 DEF CallOK, Calls, ConstructLabels, Commit, At, Labels
  <2>3. Goto(c, "markBroadcast") => CallsTyped'
    BY <1>0, <2>2, GotoTyped
  <2>4. CASE RowLoop(c, MarkUTXOsSpent, Goto(c, "markBroadcast")) /\ UNCHANGED nonces
    <3>0. PICK batch :
             /\ utxos' = MarkUTXOsSpent(utxos, batch)
             /\ Goto(c, "markBroadcast") \/ calls' = [calls EXCEPT ![c].rows = @ \ batch]
      BY <2>4 DEF RowLoop
    <3>1. CallsTyped' /\ utxos' \in [Outpoints -> UtxoStates]
      BY Zenon, <1>0, <2>3, <3>0, RowLoopTyped, UtxoOps DEF TypeInv, TypeOK
    <3>2. QED
      BY Zenon, <1>16, <2>4, <3>1 DEF Commit, TypeInv, TypeOK, CallsTyped, BitcoinNonces
  <2>5. CASE /\ ChainOf[w] = "evm" /\ calls[c].nonce >= 0
             /\ nonces' = [nonces EXCEPT ![w] = AdvanceBroadcastNonce(nonces[w], calls[c].nonce)]
             /\ Goto(c, "markBroadcast")
             /\ UNCHANGED utxos
    <3>1. calls[c].nonce \in Nat
      BY <1>0, <2>5, CallFields
    <3>2. nonces' \in [Wallets -> NonceRows]
      BY Zenon, <2>1, <2>5, <3>1, NonceOps DEF TypeInv, TypeOK
    <3>3. BitcoinNonces'
      BY Zenon, <2>1, <2>5 DEF TypeInv, TypeOK, BitcoinNonces
    <3>4. QED
      BY Zenon, <1>16, <2>3, <2>5, <3>2, <3>3 DEF Commit, TypeInv, TypeOK, CallsTyped
  <2>6. CASE Goto(c, "markBroadcast") /\ UNCHANGED <<nonces, utxos>>
    BY Zenon, <1>16, <2>3, <2>6 DEF Commit, TypeInv, TypeOK, CallsTyped, BitcoinNonces
  <2>7. QED
    BY <1>16, <2>4, <2>5, <2>6 DEF Commit
<1>17. CASE Restore(c)
  <2>1. calls[c].op = "OnReorg" /\ calls[c].id \in Ids
    BY <1>0, <1>17 DEF Restore, At, CallOK
  <2>2. CallOK([calls[c] EXCEPT !.pc = "demote"]) /\ "demote" \in Labels
    BY <1>0, <1>17 DEF CallOK, Calls, ConstructLabels, Restore, At, Labels
  <2>3. AfterRestore(c) => CallsTyped'
    BY <1>0, <2>1, <2>2, GotoTyped, AfterReorgTyped DEF AfterRestore
  <2>4. PICK batch :
           /\ utxos' = utxos \/ utxos' = RestoreUTXOs(utxos, batch)
           /\ \/ AfterRestore(c)
              \/ Return(c)
              \/ calls' = [calls EXCEPT ![c].rows = @ \ batch]
    <3>1. CASE UNCHANGED utxos /\ AfterRestore(c)
      BY <3>1
    <3>2. CASE RowLoop(c, RestoreUTXOs, IF LoopErrs(Backend, utxos, calls[c].rows)
                                        THEN Return(c) ELSE AfterRestore(c))
      BY <3>2 DEF RowLoop
    <3>3. QED
      BY Zenon, <1>17, <3>1, <3>2 DEF Restore
  <2>5. CallsTyped' /\ utxos' \in [Outpoints -> UtxoStates]
    <3>1. CallsTyped'
      BY <1>0, <2>3, <2>4, ReturnTyped, RowLoopTyped
    <3>2. utxos' \in [Outpoints -> UtxoStates]
      BY <2>4, UtxoOps DEF TypeInv, TypeOK
    <3>3. QED
      BY <3>1, <3>2
  <2>6. QED
    BY Zenon, <1>17, <2>5 DEF Restore, TypeInv, TypeOK, CallsTyped, BitcoinNonces
<1>18. CASE Demote(c)
  <2>1. calls[c].op = "OnReorg" /\ calls[c].id \in Ids
    BY <1>0, <1>18 DEF Demote, At, CallOK
  <2>2. wr' \in [Ids -> WithdrawalRows] /\ inflight' \subseteq Keys
    BY <1>18, <2>1, StateWrites DEF Demote, TypeInv, TypeOK, WithdrawalStates, InflightStates
  <2>3. CallsTyped'
    BY Zenon, <1>0, <1>18, <2>1, ReturnTyped, AfterReorgTyped DEF Demote
  <2>4. QED
    BY <1>18, <2>2, <2>3 DEF Demote, TypeInv, TypeOK, CallsTyped, BitcoinNonces
<1>19. CASE RestoreAgain(c)
  <2>1. PICK batch :
           /\ utxos' = utxos \/ utxos' = RestoreUTXOs(utxos, batch)
           /\ Return(c) \/ calls' = [calls EXCEPT ![c].rows = @ \ batch]
    <3>1. CASE UNCHANGED utxos /\ Return(c)
      BY <3>1
    <3>2. CASE RowLoop(c, RestoreUTXOs, Return(c))
      BY <3>2 DEF RowLoop
    <3>3. QED
      BY Zenon, <1>19, <3>1, <3>2 DEF RestoreAgain
  <2>2. CallsTyped'
    BY <1>0, <2>1, ReturnTyped, RowLoopTyped
  <2>3. utxos' \in [Outpoints -> UtxoStates]
    BY <2>1, UtxoOps DEF TypeInv, TypeOK
  <2>4. QED
    BY <1>19, <2>2, <2>3 DEF RestoreAgain, TypeInv, TypeOK, CallsTyped, BitcoinNonces
<1>20. QED
  BY <1>1, <1>2, <1>3, <1>4, <1>5, <1>6, <1>7, <1>8, <1>9, <1>10, <1>11, <1>12, <1>13, <1>14,
     <1>15, <1>16, <1>17, <1>18, <1>19 DEF Step

\* So do the rest of the service and a crash.
LEMMA TypeEnvironment ==
    ASSUME TypeInv, Environment
    PROVE  TypeInv'
<1>1. ASSUME NEW w \in Wallets, AllocateNonce(w) PROVE TypeInv'
  <2>1. nonces[w] \in NonceRows
    BY DEF TypeInv, TypeOK
  <2>2. nonces' \in [Wallets -> NonceRows]
    BY <1>1, <2>1, NonceOps DEF AllocateNonce, TypeInv, TypeOK
  <2>3. BitcoinNonces'
    BY <1>1, <2>1 DEF AllocateNonce, TypeInv, TypeOK, BitcoinNonces, IncrementPendingNonce,
       NonceRows
  <2>4. QED
    BY <1>1, <2>2, <2>3 DEF AllocateNonce, TypeInv, TypeOK, CallsOK
<1>2. ASSUME NEW w \in Wallets, NEW s \in WalletStates, UpdateWalletState(w, s) PROVE TypeInv'
  BY <1>2 DEF UpdateWalletState, TypeInv, TypeOK, CallsOK, BitcoinNonces
<1>3. ASSUME NEW o \in Outpoints, TrackUTXO(o) PROVE TypeInv'
  BY <1>3, UtxoOps DEF TrackUTXO, TypeInv, TypeOK, CallsOK, BitcoinNonces
<1>4. ASSUME NEW a \in accepted, PruneFinalized(a) PROVE TypeInv'
  BY <1>4, UtxoOps DEF PruneFinalized, TypeInv, TypeOK, CallsOK, BitcoinNonces
<1>5. ASSUME NEW c \in Callers, Crash(c) PROVE TypeInv'
  BY <1>5, ReturnTyped DEF Crash, TypeInv, TypeOK, CallsTyped, BitcoinNonces
<1>6. QED
  BY <1>1, <1>2, <1>3, <1>4, <1>5 DEF Environment

\* The type invariant is inductive.
LEMMA TypeNext == TypeInv /\ [Next]_vars => TypeInv'
<1> SUFFICES ASSUME TypeInv, [Next]_vars PROVE TypeInv'
  OBVIOUS
<1>1. CASE UNCHANGED vars
  BY <1>1 DEF vars, TypeInv, TypeOK, CallsOK, BitcoinNonces
<1>2. QED
  BY <1>1, TypeStarts, TypeSteps, TypeEnvironment DEF Next

\* TypeOK, and what the operations in progress need for it: a Bitcoin call carries
\* no nonce, and a Bitcoin wallet's nonce row, if there is one, is past 0, so that
\* the RollbackNonce(-1) of a failed SelectForAmount never finds a row at 0.
THEOREM TypeInvariant == Spec => []TypeInv
BY TypeInit, TypeNext, PTL DEF Spec

\* Every reachable state is well typed; in particular no failed Bitcoin selection
\* and no rollback takes a wallet's pending nonce below 0.
THEOREM TypeCorrect == Spec => []TypeOK
<1>1. TypeInv => TypeOK
  BY DEF TypeInv
<1>2. QED
  BY <1>1, TypeInvariant, PTL

-----------------------------------------------------------------------------
(* What a step does *)

\* The states a call writes, with the place where it writes them.
StateWritten ==
    {<<"insert", "PENDING">>, <<"whitelist", "WHITELISTED">>, <<"whitelist", "FAILED">>,
     <<"markSigned", "SIGNED">>, <<"markFailed", "FAILED">>, <<"markBroadcast", "BROADCAST">>,
     <<"markConfirmed", "CONFIRMED">>, <<"demote", "BROADCAST">>}

\* A step of c leaves other calls alone, and ends its own or keeps its identity.
CallEffect(c) ==
    /\ \A d \in Callers : d # c => calls'[d] = calls[d]
    /\ \/ calls'[c] = Idle
       \/ /\ calls'[c].op = calls[c].op
          /\ calls'[c].id = calls[c].id
          /\ calls'[c].tx = calls[c].tx
          /\ calls'[c].state = calls[c].state
          /\ calls'[c].pc # "idle"

\* A step of c writes at most the state or the signed bytes of its withdrawal.
RowEffect(c) ==
    LET id == calls[c].id IN
    /\ \A j \in Ids : j # id => wr'[j] = wr[j]
    /\ \/ wr'[id].state = wr[id].state
       \/ /\ <<calls[c].pc, wr'[id].state>> \in StateWritten
          /\ wr'[id].state = "WHITELISTED" => id \in approved'
    /\ \/ wr'[id].tx = wr[id].tx
       \/ calls[c].pc = "sign" /\ wr'[id].state = wr[id].state

\* The transaction a call that broadcasts hands to the gateway.
TxOf(c) == [id |-> calls[c].id, nonce |-> calls[c].tx.nonce, ops |-> calls[c].tx.ops]

HistoryEffect(c) ==
    /\ approved \subseteq approved'
    /\ \/ accepted' = accepted
       \/ calls[c].pc = "submit" /\ accepted' = accepted \cup {TxOf(c)}

\* A step of the saga ends its call or moves it on as CallEffect says.
LEMMA CallEffects ==
    ASSUME TypeInv, NEW c \in Callers, Step(c)
    PROVE  CallEffect(c)
<1>1. calls \in [Callers -> Calls] /\ calls[c] \in Calls
  BY DEF TypeInv, TypeOK
<1>2. Return(c) => CallEffect(c)
  BY <1>1 DEF Return, CallEffect
<1>3. ASSUME NEW l \in Labels \ {"idle"}, Goto(c, l) PROVE CallEffect(c)
  BY <1>1, <1>3 DEF Goto, CallEffect, Calls
<1>4. ASSUME NEW R, NEW t, StartRollback(c, R, t) PROVE CallEffect(c)
  BY <1>1, <1>4 DEF StartRollback, CallEffect, Calls
<1>5. AfterRollback(c) => CallEffect(c)
  BY <1>2, <1>3 DEF AfterRollback, Labels
<1>6. AfterReorg(c) => CallEffect(c)
  BY <1>1, <1>2 DEF AfterReorg, CallEffect, Calls
<1>7. AfterRestore(c) => CallEffect(c)
  BY <1>3, <1>6 DEF AfterRestore, Labels
<1>8. ASSUME NEW batch, calls[c].pc # "idle", calls' = [calls EXCEPT ![c].rows = @ \ batch]
      PROVE  CallEffect(c)
  BY <1>1, <1>8 DEF CallEffect, Calls
<1>9. CASE Insert(c) \/ CheckWhitelist(c) \/ SaveNonce(c) \/ LockSelected(c) \/ UndoSelect(c)
  BY <1>2, <1>3, <1>9 DEF Insert, CheckWhitelist, SaveNonce, LockSelected, UndoSelect, Labels
<1>10. CASE SaveOutpoints(c) \/ SignTx(c)
  BY <1>3, <1>4, <1>10 DEF SaveOutpoints, SignTx, Labels
<1>11. CASE MarkSigned(c) \/ MarkFailed(c) \/ MarkBroadcast(c) \/ MarkConfirmed(c)
  BY <1>2, <1>11 DEF MarkSigned, MarkFailed, MarkBroadcast, MarkConfirmed
<1>12. CASE ReserveNonce(c)
  BY <1>1, <1>2, <1>12 DEF ReserveNonce, CallEffect, Calls
<1>13. CASE ListFree(c)
  <2>1. Goto(c, "undoSelect") \/ \E S : calls' = [calls EXCEPT ![c].pc = "lock", ![c].ops = S]
    BY Zenon, <1>13 DEF ListFree
  <2>2. QED
    BY <1>1, <1>3, <2>1 DEF CallEffect, Calls, Labels
<1>14. CASE Rollback(c)
  <2>1. \/ AfterRollback(c)
        \/ \E batch : calls' = [calls EXCEPT ![c].rows = @ \ batch]
    <3>1. CASE RowLoop(c, RestoreUTXOs, AfterRollback(c))
      BY <3>1 DEF RowLoop
    <3>2. QED
      BY <1>14, <3>1 DEF Rollback
  <2>2. QED
    BY <1>5, <1>8, <1>14, <2>1 DEF Rollback, At
<1>15. CASE Submit(c)
  BY <1>1, <1>4, <1>15 DEF Submit, CallEffect, Calls
<1>16. CASE Commit(c)
  <2>1. \/ Goto(c, "markBroadcast")
        \/ \E batch : calls' = [calls EXCEPT ![c].rows = @ \ batch]
    <3>1. CASE RowLoop(c, MarkUTXOsSpent, Goto(c, "markBroadcast"))
      BY <3>1 DEF RowLoop
    <3>2. QED
      BY <1>16, <3>1 DEF Commit
  <2>2. QED
    BY <1>3, <1>8, <1>16, <2>1 DEF Commit, At, Labels
<1>17. CASE Restore(c)
  <2>1. \/ AfterRestore(c) \/ Return(c)
        \/ \E batch : calls' = [calls EXCEPT ![c].rows = @ \ batch]
    <3>1. CASE RowLoop(c, RestoreUTXOs, IF LoopErrs(Backend, utxos, calls[c].rows)
                                        THEN Return(c) ELSE AfterRestore(c))
      BY <3>1 DEF RowLoop
    <3>2. QED
      BY <1>17, <3>1 DEF Restore
  <2>2. QED
    BY <1>2, <1>7, <1>8, <1>17, <2>1 DEF Restore, At
<1>18. CASE Demote(c)
  BY <1>2, <1>6, <1>18 DEF Demote
<1>19. CASE RestoreAgain(c)
  <2>1. Return(c) \/ \E batch : calls' = [calls EXCEPT ![c].rows = @ \ batch]
    BY <1>19 DEF RestoreAgain, RowLoop
  <2>2. QED
    BY <1>2, <1>8, <1>19, <2>1 DEF RestoreAgain, At
<1>20. QED
  BY <1>9, <1>10, <1>11, <1>12, <1>13, <1>14, <1>15, <1>16, <1>17, <1>18, <1>19 DEF Step

\* A step of the saga writes its own withdrawal's row only.
LEMMA RowEffects ==
    ASSUME TypeInv, NEW c \in Callers, Step(c)
    PROVE  RowEffect(c)
<1> DEFINE id == calls[c].id
<1>1. wr \in [Ids -> WithdrawalRows] /\ CallOK(calls[c])
  BY DEF TypeInv, TypeOK, CallsOK
<1>2. UNCHANGED wr => RowEffect(c)
  BY DEF RowEffect
<1>3. ASSUME NEW s, id \in Ids, <<calls[c].pc, s>> \in StateWritten,
             s = "WHITELISTED" => id \in approved',
             UpdateWithdrawalState(id, s) \/ TryUpdateState(id, s)
      PROVE  RowEffect(c)
  <2>1. wr' = wr \/ wr' = [wr EXCEPT ![id].state = s]
    BY <1>3 DEF UpdateWithdrawalState, TryUpdateState
  <2>2. QED
    BY <1>1, <1>3, <2>1 DEF RowEffect, WithdrawalRows
<1>4. CASE Insert(c)
  <2>1. id \in Ids /\ calls[c].pc = "insert"
    BY <1>1, <1>4 DEF Insert, At, CallOK
  <2>2. wr' = wr \/ wr' = [wr EXCEPT ![id].state = "PENDING"]
    BY <1>4 DEF Insert, CreateWithdrawal
  <2>3. QED
    BY <1>1, <2>1, <2>2 DEF RowEffect, WithdrawalRows, StateWritten
<1>5. CASE CheckWhitelist(c)
  <2>1. id \in Ids /\ calls[c].pc = "whitelist"
    BY <1>1, <1>5 DEF CheckWhitelist, At, CallOK
  <2>2. CASE approved' = approved \cup {id} /\ TryUpdateState(id, "WHITELISTED")
    BY <1>3, <2>1, <2>2 DEF StateWritten
  <2>3. CASE TryUpdateState(id, "FAILED")
    BY <1>3, <2>1, <2>3 DEF StateWritten
  <2>4. QED
    BY <1>5, <2>2, <2>3 DEF CheckWhitelist
<1>6. CASE SaveNonce(c) \/ SaveOutpoints(c)
  BY <1>1, <1>6 DEF SaveNonce, SaveOutpoints, RowEffect, WithdrawalRows
<1>7. CASE SignTx(c)
  <2>1. calls[c].pc = "sign" /\ (wr' = wr \/ wr' = [wr EXCEPT ![id].tx = Assemble(calls[c])])
    BY <1>7 DEF SignTx, At
  <2>2. QED
    BY <1>1, <2>1 DEF RowEffect, WithdrawalRows
<1>8. CASE MarkSigned(c)
  BY <1>1, <1>3, <1>8 DEF MarkSigned, At, CallOK, StateWritten
<1>9. CASE MarkFailed(c)
  BY <1>1, <1>3, <1>9 DEF MarkFailed, At, CallOK, StateWritten
<1>10. CASE MarkBroadcast(c)
  BY <1>1, <1>3, <1>10 DEF MarkBroadcast, At, CallOK, StateWritten
<1>11. CASE MarkConfirmed(c)
  BY <1>1, <1>3, <1>11 DEF MarkConfirmed, At, CallOK, StateWritten
<1>12. CASE Demote(c)
  BY <1>1, <1>2, <1>3, <1>12 DEF Demote, At, CallOK, StateWritten
<1>13. CASE \/ ReserveNonce(c) \/ ListFree(c) \/ LockSelected(c) \/ UndoSelect(c) \/ Rollback(c)
            \/ Submit(c) \/ Commit(c) \/ Restore(c) \/ RestoreAgain(c)
  BY Zenon, <1>2, <1>13 DEF ReserveNonce, ListFree, LockSelected, UndoSelect, Rollback, Submit,
     Commit,
     Restore, RestoreAgain
<1>14. QED
  BY <1>4, <1>5, <1>6, <1>7, <1>8, <1>9, <1>10, <1>11, <1>12, <1>13 DEF Step

\* Only CheckWhitelist approves and only BroadcastTx pays.
LEMMA HistoryEffects ==
    ASSUME NEW c \in Callers, Step(c)
    PROVE  HistoryEffect(c)
<1>1. CASE CheckWhitelist(c)
  BY <1>1 DEF CheckWhitelist, HistoryEffect
<1>2. CASE Submit(c)
  BY <1>2 DEF Submit, BroadcastTx, HistoryEffect, TxOf, At
<1>3. UNCHANGED <<approved, accepted>> => HistoryEffect(c)
  BY DEF HistoryEffect
<1>4. CASE \/ Insert(c) \/ ReserveNonce(c) \/ SaveNonce(c) \/ ListFree(c) \/ LockSelected(c)
           \/ UndoSelect(c) \/ SaveOutpoints(c) \/ SignTx(c) \/ MarkSigned(c) \/ Rollback(c)
           \/ MarkFailed(c) \/ Commit(c) \/ MarkBroadcast(c) \/ MarkConfirmed(c)
           \/ Restore(c) \/ Demote(c) \/ RestoreAgain(c)
  BY Zenon, <1>3, <1>4 DEF Insert, ReserveNonce, SaveNonce, ListFree, LockSelected, UndoSelect,
     SaveOutpoints, SignTx, MarkSigned, Rollback, MarkFailed, Commit, MarkBroadcast,
     MarkConfirmed, Restore, Demote, RestoreAgain
<1>5. QED
  BY <1>1, <1>2, <1>4 DEF Step

\* What the other steps do: Crash ends a call, the rest leave calls, rows and
\* histories alone.
LEMMA EnvironmentEffects ==
    ASSUME Environment
    PROVE  /\ UNCHANGED <<wr, approved, accepted>>
           /\ UNCHANGED calls \/ \E c \in Callers : calls' = [calls EXCEPT ![c] = Idle]
BY Zenon DEF Environment, AllocateNonce, UpdateWalletState, TrackUTXO, PruneFinalized, Crash, Return

\* The last write of an operation ends it.
LEMMA LastWrites ==
    ASSUME TypeInv, NEW c \in Callers, Step(c),
           calls[c].pc \in {"whitelist", "markSigned", "markFailed", "markBroadcast", "markConfirmed"}
    PROVE  calls'[c] = Idle
<1>1. CheckWhitelist(c) \/ MarkSigned(c) \/ MarkFailed(c) \/ MarkBroadcast(c) \/ MarkConfirmed(c)
  BY Zenon DEF Step, At, Insert, CheckWhitelist, ReserveNonce, SaveNonce, ListFree, LockSelected,
     UndoSelect, SaveOutpoints, SignTx, MarkSigned, Rollback, MarkFailed, Submit, Commit,
     MarkBroadcast, MarkConfirmed, Restore, Demote, RestoreAgain
<1>2. Return(c)
  BY Zenon, <1>1 DEF CheckWhitelist, MarkSigned, MarkFailed, MarkBroadcast, MarkConfirmed
<1>3. QED
  BY <1>2 DEF Return, TypeInv, TypeOK

\* What an operation that starts has checked.
StartEffect(c, id) ==
    LET k == calls'[c] IN
    /\ UNCHANGED <<wr, approved, accepted>>
    /\ calls[c].pc = "idle"
    /\ \A d \in Callers : d # c => calls'[d] = calls[d]
    /\ k.id = id
    /\ Exclusive /\ k.op \in DriverOps => ~Busy(id)
    /\ k.op = "Create" => wr[id].state = "NONE"
    /\ k.op = "ConstructAndSign" => wr[id].state = "WHITELISTED"
    /\ k.op = "Broadcast" => wr[id].state = "SIGNED" /\ k.tx = wr[id].tx /\ k.tx # NoTx
    /\ k.op = "Confirm" => wr[id].state = "BROADCAST"
    /\ k.op = "OnReorg" => \E a \in accepted : a.id = id

\* What an operation may assume of the row when it begins.
LEMMA StartEffects ==
    ASSUME TypeInv, NEW c \in Callers, NEW id \in Ids, Start(c, id)
    PROVE  StartEffect(c, id)
<1>1. calls \in [Callers -> Calls]
  BY DEF TypeInv, TypeOK
<1>2. CASE StartCreate(c, id)
  BY <1>1, <1>2 DEF StartCreate, Begin, StartEffect, Idle
<1>3. CASE StartConstruct(c, id)
  BY <1>1, <1>3 DEF StartConstruct, Begin, StartEffect, Idle
<1>4. CASE StartBroadcast(c, id)
  <2>1. wr[id].tx # NoTx
    BY <1>4 DEF StartBroadcast, NoTx
  <2>2. QED
    BY <1>1, <1>4, <2>1 DEF StartBroadcast, Begin, StartEffect, Idle
<1>5. CASE StartConfirm(c, id)
  BY <1>1, <1>5 DEF StartConfirm, Begin, StartEffect, Idle
<1>6. CASE StartFail(c, id)
  BY <1>1, <1>6 DEF StartFail, Begin, StartEffect, Idle
<1>7. CASE StartReorg(c, id)
  BY <1>1, <1>7 DEF StartReorg, Begin, StartEffect, Idle, DriverOps
<1>8. QED
  BY <1>2, <1>3, <1>4, <1>5, <1>6, <1>7 DEF Start

-----------------------------------------------------------------------------
(* ApprovedOnly *)

\* Whatever can lead to a payment has been approved: the state WHITELISTED,
\* signed bytes, and a call that signs or broadcasts.
ApprovalInv ==
    /\ \A id \in Ids : wr[id].state = "WHITELISTED" \/ wr[id].tx # NoTx => id \in approved
    /\ \A c \in Callers : calls[c].op \in {"ConstructAndSign", "Broadcast"} => calls[c].id \in approved
    /\ ApprovedOnly

\* ApprovalInv is preserved by every step, relative to the type invariant.
LEMMA ApprovalNext == TypeInv /\ TypeInv' /\ ApprovalInv /\ [Next]_vars => ApprovalInv'
<1> SUFFICES ASSUME TypeInv, TypeInv', ApprovalInv, [Next]_vars PROVE ApprovalInv'
  OBVIOUS
<1>1. ASSUME NEW c \in Callers, Step(c) PROVE ApprovalInv'
  <2>1. CallEffect(c) /\ RowEffect(c) /\ HistoryEffect(c)
    BY <1>1, CallEffects, RowEffects, HistoryEffects
  <2>2. CallOK(calls[c])
    BY DEF TypeInv, CallsOK
  <2>3. \A id \in Ids : (wr[id].state = "WHITELISTED" \/ wr[id].tx # NoTx => id \in approved)'
    BY Zenon, <2>1, <2>2 DEF RowEffect, HistoryEffect, ApprovalInv, CallOK, ConstructLabels
  <2>4. \A d \in Callers :
           (calls[d].op \in {"ConstructAndSign", "Broadcast"} => calls[d].id \in approved)'
    BY <2>1 DEF CallEffect, HistoryEffect, ApprovalInv, Idle
  <2>5. ApprovedOnly'
    BY <2>1, <2>2 DEF HistoryEffect, ApprovalInv, ApprovedOnly, CallOK, TxOf
  <2>6. QED
    BY <2>3, <2>4, <2>5 DEF ApprovalInv
<1>2. ASSUME NEW c \in Callers, NEW id \in Ids, Start(c, id) PROVE ApprovalInv'
  <2>1. StartEffect(c, id)
    BY <1>2, StartEffects
  <2>2. QED
    BY <2>1 DEF StartEffect, ApprovalInv, ApprovedOnly
<1>3. CASE Environment
  <2>1. calls \in [Callers -> Calls]
    BY DEF TypeInv, TypeOK
  <2>2. QED
    BY <1>3, <2>1, EnvironmentEffects DEF ApprovalInv, ApprovedOnly, Idle
<1>4. CASE UNCHANGED vars
  BY <1>4 DEF vars, ApprovalInv, ApprovedOnly
<1>5. QED
  BY <1>1, <1>2, <1>3, <1>4 DEF Next

\* However operations overlap, fail, lose their answers or crash, the Blockchain
\* Gateway is only given transactions of withdrawals that CheckWhitelist approved.
THEOREM PayoutsApproved == Spec => []ApprovedOnly
<1>1. Init => ApprovalInv
  BY DEF Init, ApprovalInv, ApprovedOnly, NoRow, Idle
<1>2. ApprovalInv => ApprovedOnly
  BY DEF ApprovalInv
<1>3. QED
  BY <1>1, <1>2, ApprovalNext, TypeInvariant, PTL DEF Spec
=============================================================================

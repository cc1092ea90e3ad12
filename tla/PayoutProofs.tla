---------------------------- MODULE PayoutProofs ----------------------------
(***************************************************************************)
(* Who is paid and how often: proofs of SinglePayout, DedupInflight and    *)
(* PendingInCreate.                                                        *)
(* FitInv, which relates a call to its row, is what LifecycleProofs and    *)
(* OutputProofs build on.                                                  *)
(***************************************************************************)
EXTENDS WithdrawalProofs

-----------------------------------------------------------------------------
(* SinglePayout *)

\* The states from which ConstructAndSign no longer starts.
Late == {"SIGNED", "BROADCAST", "CONFIRMED", "FAILED"}

\* One driver per withdrawal; the state of the row fits the operation that runs;
\* a payment fixes the signed bytes, because the withdrawal is then Late.
PayoutInv ==
    /\ \A c, d \in Callers :
          c # d /\ {calls[c].op, calls[d].op} \subseteq DriverOps => calls[c].id # calls[d].id
    /\ \A c \in Callers :
          LET k == calls[c] IN
          /\ k.op = "Create" => wr[k.id].state \in {"NONE", "PENDING"}
          /\ k.op = "ConstructAndSign" => wr[k.id].state = "WHITELISTED"
          /\ k.op = "Broadcast" => wr[k.id].state \in Late /\ k.tx = wr[k.id].tx
          /\ k.op \in {"Confirm", "OnReorg"} => wr[k.id].state \in Late
    /\ \A a \in accepted :
          wr[a.id].state \in Late /\ a.nonce = wr[a.id].tx.nonce /\ a.ops = wr[a.id].tx.ops

\* PayoutInv is preserved by every step when operations on a withdrawal exclude
\* each other.
LEMMA PayoutNext ==
    Exclusive /\ TypeInv /\ TypeInv' /\ PayoutInv /\ [Next]_vars => PayoutInv'
<1> SUFFICES ASSUME Exclusive, TypeInv, TypeInv', PayoutInv, [Next]_vars PROVE PayoutInv'
  OBVIOUS
<1>1. ASSUME NEW c \in Callers, Step(c) PROVE PayoutInv'
  <2> DEFINE id == calls[c].id
  <2>1. CallEffect(c) /\ RowEffect(c) /\ HistoryEffect(c)
    BY <1>1, CallEffects, RowEffects, HistoryEffects
  <2>2. CallOK(calls[c]) /\ calls[c].pc # "idle" /\ id \in Ids
    BY Zenon, <1>1 DEF TypeInv, CallsOK, CallOK, Step, At, Insert, CheckWhitelist, ReserveNonce,
       SaveNonce, ListFree, LockSelected, UndoSelect, SaveOutpoints, SignTx, MarkSigned,
       Rollback, MarkFailed, Submit, Commit, MarkBroadcast, MarkConfirmed, Restore, Demote,
       RestoreAgain
  <2>3. \A j \in Ids : wr[j].state \in Late => wr'[j].state \in Late /\ wr'[j].tx = wr[j].tx
    BY <2>1, <2>2 DEF RowEffect, StateWritten, PayoutInv, CallOK, ConstructLabels, Late
  <2>4. \A d, e \in Callers :
           d # e /\ {calls'[d].op, calls'[e].op} \subseteq DriverOps => calls'[d].id # calls'[e].id
    <3>1. \A d \in Callers : calls'[d].op \in DriverOps =>
             calls'[d].op = calls[d].op /\ calls'[d].id = calls[d].id
      BY <2>1 DEF CallEffect, Idle, DriverOps
    <3>2. QED
      BY <3>1 DEF PayoutInv
  <2>5. ASSUME NEW d \in Callers
        PROVE  LET k == calls'[d] IN
               /\ k.op = "Create" => wr'[k.id].state \in {"NONE", "PENDING"}
               /\ k.op = "ConstructAndSign" => wr'[k.id].state = "WHITELISTED"
               /\ k.op = "Broadcast" => wr'[k.id].state \in Late /\ k.tx = wr'[k.id].tx
               /\ k.op \in {"Confirm", "OnReorg"} => wr'[k.id].state \in Late
    <3>1. CASE d = c /\ calls'[c] = Idle
      BY <3>1 DEF Idle
    <3>2. CASE d = c /\ calls'[c] # Idle
      <4>1. calls'[c].op = calls[c].op /\ calls'[c].id = id /\ calls'[c].tx = calls[c].tx
        BY <2>1, <3>2 DEF CallEffect
      <4>2. \/ wr'[id].state = wr[id].state
            \/ calls[c].pc = "insert" /\ wr'[id].state = "PENDING"
            \/ calls[c].pc = "demote" /\ wr'[id].state = "BROADCAST"
        BY <1>1, <2>1, <3>2, LastWrites DEF RowEffect, StateWritten
      <4>3. calls[c].op # "ConstructAndSign" => wr'[id].tx = wr[id].tx
        BY <2>1, <2>2 DEF RowEffect, CallOK, ConstructLabels
      <4>4. QED
        BY <2>2, <3>2, <4>1, <4>2, <4>3 DEF PayoutInv, CallOK, Late
    <3>3. CASE d # c
      <4>1. calls'[d] = calls[d] /\ CallOK(calls[d])
        BY <2>1, <3>3 DEF CallEffect, TypeInv, CallsOK
      <4>2. CASE calls[d].op \in {"Create", "ConstructAndSign"}
        <5>1. calls[c].op \in DriverOps \cup {"Confirm", "OnReorg"}
          <6>1. calls[c].pc \in Labels
            BY CallFields DEF TypeInv, TypeOK
          <6>2. QED
            BY <2>2, <6>1 DEF CallOK, DriverOps, ConstructLabels, Labels
        <5>2. calls[d].id # id
          BY <3>3, <4>2, <5>1 DEF PayoutInv, DriverOps, Late
        <5>3. QED
          BY <2>1, <4>1, <4>2, <5>2 DEF RowEffect, PayoutInv, CallOK
      <4>3. CASE calls[d].op \in {"Broadcast", "Confirm", "OnReorg"}
        BY <2>3, <4>1, <4>3 DEF PayoutInv, CallOK
      <4>4. QED
        BY <4>1, <4>2, <4>3
    <3>4. QED
      BY <3>1, <3>2, <3>3
  <2>6. \A a \in accepted' :
           wr'[a.id].state \in Late /\ a.nonce = wr'[a.id].tx.nonce /\ a.ops = wr'[a.id].tx.ops
    <3>1. \A a \in accepted : a.id \in Ids
      BY DEF TypeInv, TypeOK, Transactions
    <3>2. calls[c].pc = "submit" => wr[id].state \in Late /\ calls[c].tx = wr[id].tx
      BY <2>2 DEF PayoutInv, CallOK
    <3>3. QED
      BY <2>1, <2>2, <2>3, <3>1, <3>2 DEF HistoryEffect, PayoutInv, TxOf
  <2>7. QED
    BY <2>4, <2>5, <2>6 DEF PayoutInv
<1>2. ASSUME NEW c \in Callers, NEW id \in Ids, Start(c, id) PROVE PayoutInv'
  <2>1. StartEffect(c, id)
    BY <1>2, StartEffects
  <2>2. QED
    BY <2>1 DEF StartEffect, PayoutInv, Busy, Late
<1>3. CASE Environment
  <2>1. calls \in [Callers -> Calls]
    BY DEF TypeInv, TypeOK
  <2>2. QED
    BY <1>3, <2>1, EnvironmentEffects DEF PayoutInv, Idle, DriverOps
<1>4. CASE UNCHANGED vars
  BY <1>4 DEF vars, PayoutInv
<1>5. QED
  BY <1>1, <1>2, <1>3, <1>4 DEF Next

\* If the orchestrator runs one operation per withdrawal at a time, a withdrawal
\* is paid by one transaction only, whatever fails, is lost, retried or crashes.
THEOREM PaidOnce ==
    ASSUME Exclusive
    PROVE  Spec => []SinglePayout
<1>1. Init => PayoutInv
  BY DEF Init, PayoutInv, Idle, DriverOps
<1>2. TypeInv /\ PayoutInv => SinglePayout
  <2> SUFFICES ASSUME TypeInv, PayoutInv, NEW a \in accepted, NEW b \in accepted, a.id = b.id
               PROVE  a = b
    BY DEF SinglePayout
  <2>1. a \in Transactions /\ b \in Transactions
    BY DEF TypeInv, TypeOK
  <2>2. a.nonce = b.nonce /\ a.ops = b.ops
    BY DEF PayoutInv
  <2>3. QED
    BY <2>1, <2>2 DEF Transactions
<1>3. TypeInv /\ TypeInv' /\ PayoutInv /\ [Next]_vars => PayoutInv'
  BY PayoutNext
<1>4. QED
  BY <1>1, <1>2, <1>3, TypeInvariant, PTL DEF Spec

-----------------------------------------------------------------------------
(* DedupInflight *)

\* On Postgres a row comes in flight only if the index admits it.
LEMMA IndexGuards ==
    ASSUME TypeInv, Backend = "postgres", NEW c \in Callers, Step(c)
    PROVE  LET id == calls[c].id IN
           \/ wr'[id].state = wr[id].state
           \/ wr'[id].state \notin InflightStates
           \/ IndexAdmits(id)
<1> DEFINE id == calls[c].id
           Guarded == \/ wr'[id].state = wr[id].state
                      \/ wr'[id].state \notin InflightStates
                      \/ IndexAdmits(id)
<1>1. wr \in [Ids -> WithdrawalRows] /\ CallOK(calls[c])
  BY DEF TypeInv, TypeOK, CallsOK
<1>2. ASSUME NEW s, id \in Ids, UNCHANGED wr \/ TryUpdateState(id, s)
                               \/ (StateAdmitted(id, s) /\ UpdateWithdrawalState(id, s))
      PROVE  Guarded
  <2>1. wr' = wr \/ (wr' = [wr EXCEPT ![id].state = s] /\ StateAdmitted(id, s))
    BY <1>2 DEF UpdateWithdrawalState, TryUpdateState
  <2>2. CASE wr' = [wr EXCEPT ![id].state = s] /\ StateAdmitted(id, s)
    <3>1. wr'[id].state = s
      BY <1>1, <1>2, <2>2 DEF WithdrawalRows
    <3>2. QED
      BY <2>2, <3>1 DEF StateAdmitted
  <2>3. QED
    BY <2>1, <2>2
<1>3. CASE Insert(c)
  BY <1>3 DEF Insert, NoDuplicate
<1>4. CASE SaveNonce(c) \/ SaveOutpoints(c) \/ SignTx(c)
  <2>1. wr'[id].state = wr[id].state
    <3>1. id \in Ids
      BY <1>1, <1>4 DEF SaveNonce, SaveOutpoints, SignTx, At, CallOK
    <3>2. wr[id] \in WithdrawalRows
      BY <1>1, <3>1
    <3>3. \/ wr' = wr
          \/ wr' = [wr EXCEPT ![id].nonce = calls[c].nonce]
          \/ wr' = [wr EXCEPT ![id].ops = calls[c].ops]
          \/ wr' = [wr EXCEPT ![id].tx = Assemble(calls[c])]
      BY <1>4 DEF SaveNonce, SaveOutpoints, SignTx
    <3>4. QED
      BY <1>1, <3>1, <3>2, <3>3 DEF WithdrawalRows
  <2>2. QED
    BY <2>1
<1>5. CASE \/ CheckWhitelist(c) \/ MarkSigned(c) \/ MarkFailed(c) \/ MarkBroadcast(c)
           \/ MarkConfirmed(c) \/ Demote(c)
  <2>1. id \in Ids
    BY <1>1, <1>5 DEF CheckWhitelist, MarkSigned, MarkFailed, MarkBroadcast, MarkConfirmed,
       Demote, At, CallOK
  <2>2. \E s : UNCHANGED wr \/ TryUpdateState(id, s)
              \/ (StateAdmitted(id, s) /\ UpdateWithdrawalState(id, s))
    BY <1>5 DEF CheckWhitelist, MarkSigned, MarkFailed, MarkBroadcast, MarkConfirmed, Demote
  <2>3. QED
    BY <1>2, <2>1, <2>2
<1>6. CASE \/ ReserveNonce(c) \/ ListFree(c) \/ LockSelected(c) \/ UndoSelect(c) \/ Rollback(c)
           \/ Submit(c) \/ Commit(c) \/ Restore(c) \/ RestoreAgain(c)
  BY Zenon, <1>6 DEF ReserveNonce, ListFree, LockSelected, UndoSelect, Rollback, Submit, Commit,
     Restore, RestoreAgain
<1>7. QED
  BY <1>3, <1>4, <1>5, <1>6 DEF Step

\* withdrawal_inflight_dedup: on Postgres one request per payment is in flight, whichever
\* operations overlap, fail, crash or are demoted by a reorg.
THEOREM OneInFlight ==
    ASSUME Backend = "postgres"
    PROVE  Spec => []DedupInflight
<1>1. Init => DedupInflight
  BY DEF Init, DedupInflight, NoRow, InflightStates
<1>2. TypeInv /\ DedupInflight /\ [Next]_vars => DedupInflight'
  <2> SUFFICES ASSUME TypeInv, DedupInflight, [Next]_vars PROVE DedupInflight'
    OBVIOUS
  <2>1. CASE UNCHANGED wr
    BY <2>1 DEF DedupInflight
  <2>2. ASSUME NEW c \in Callers, Step(c) PROVE DedupInflight'
    <3> DEFINE id == calls[c].id
    <3>1. \A j \in Ids : j # id => wr'[j] = wr[j]
      BY Zenon, <2>2, RowEffects DEF RowEffect
    <3>2. \/ wr'[id].state = wr[id].state \/ wr'[id].state \notin InflightStates \/ IndexAdmits(id)
      BY <2>2, IndexGuards
    <3>3. QED
      BY <3>1, <3>2 DEF DedupInflight, IndexAdmits
  <2>3. QED
    BY <2>1, <2>2, EnvironmentEffects, StartEffects DEF Next, vars, StartEffect
<1>3. QED
  BY <1>1, <1>2, TypeInvariant, PTL DEF Spec

-----------------------------------------------------------------------------
(* Calls and rows fit each other *)

\* One operation per withdrawal at a time, and only failures that the saga sees
\* and compensates.
Compensated == Exclusive /\ Faults \subseteq CleanFaults

Paid(id, txs) == \E a \in txs : a.id = id

\* What a call knows of the row of its withdrawal.  A reorg that read CONFIRMED
\* runs beside confirmations, other reorgs and Fail only.
CallFits(k, row, paid) ==
    /\ k.pc = "demote" => k.state = "CONFIRMED"
    /\ k.op = "OnReorg" /\ k.state = "CONFIRMED" =>
          row.state \in {"BROADCAST", "CONFIRMED", "FAILED"}
    /\ k.op = "Broadcast" => row.state = "SIGNED"
    /\ k.op = "Confirm" => row.state \in {"BROADCAST", "CONFIRMED", "FAILED"}
    /\ k.op \in {"Confirm", "OnReorg"} \/ k.pc \in {"commit", "markBroadcast"} => paid
    /\ k.pc \in {"reserve", "saveNonce"} => Chain(k.id) # "bitcoin"
    /\ k.pc = "saveOutpoints" => Chain(k.id) = "bitcoin"
    /\ k.pc \in {"sign", "markSigned"} => row.ops = k.ops
    /\ k.pc = "markSigned" => row.tx.ops = k.ops
    /\ k.pc = "submit" => k.tx.ops = k.ops
    /\ k.op = "Fail" => k.ops = {} /\ k.rows = {}
    /\ k.op \in {"Broadcast", "Fail"} /\ k.pc = "rollback" => k.then = "markFailed"
    /\ Chain(k.id) # "bitcoin" /\ k.op # "OnReorg" => k.ops = {} /\ k.rows = {}

\* The signed bytes spend the outputs the row has reserved.
RowFits(id, row, paid) ==
    /\ row.state = "SIGNED" => row.tx.ops = row.ops
    /\ row.state \in {"BROADCAST", "CONFIRMED"} => paid
    /\ Chain(id) # "bitcoin" => row.ops = {}

FitInv ==
    /\ \A c \in Callers : LET k == calls[c] IN CallFits(k, wr[k.id], Paid(k.id, accepted))
    /\ \A id \in Ids : RowFits(id, wr[id], Paid(id, accepted))

\* No state write of the saga is refused.
Admits == Backend = "postgres" => DedupInflight

\* The call and the row a step of c leaves behind fit each other.
StepFits(c) ==
    LET id == calls[c].id IN
    /\ CallFits(calls'[c], wr'[id], Paid(id, accepted')) \/ calls'[c] = Idle
    /\ RowFits(id, wr'[id], Paid(id, accepted'))

\* A call that ends fits anything.
LEMMA IdleFits == ASSUME NEW row, NEW paid PROVE CallFits(Idle, row, paid)
BY Zenon DEF CallFits, Idle

\* The record of a call after each way of going on.
LEMMA ReturnCall == ASSUME TypeInv, NEW c \in Callers, Return(c) PROVE calls'[c] = Idle
BY DEF TypeInv, TypeOK, Return

LEMMA GotoCall ==
    ASSUME TypeInv, NEW c \in Callers, NEW l, Goto(c, l)
    PROVE  calls'[c] = [calls[c] EXCEPT !.pc = l]
BY DEF TypeInv, TypeOK, Goto

\* A call that takes a step is at a label of an operation.
LEMMA StepsBusy ==
    ASSUME TypeInv, NEW c \in Callers, Step(c)
    PROVE  calls[c].pc # "idle" /\ calls[c].id \in Ids
<1>1. calls[c].pc # "idle"
  BY Zenon DEF Step, At, Insert, CheckWhitelist, ReserveNonce, SaveNonce, ListFree, LockSelected,
     UndoSelect, SaveOutpoints, SignTx, MarkSigned, Rollback, MarkFailed, Submit, Commit,
     MarkBroadcast, MarkConfirmed, Restore, Demote, RestoreAgain
<1>2. QED
  BY <1>1 DEF TypeInv, CallsOK, CallOK

\* A state write that is admitted, and that the database does not lose, is made.
LEMMA StateWriteMade ==
    ASSUME Compensated, NEW id \in Ids, NEW s, TryUpdateState(id, s), StateAdmitted(id, s)
    PROVE  wr' = [wr EXCEPT ![id].state = s]
<1>1. "lostwrite" \notin Faults
  BY DEF Compensated, CleanFaults
<1>2. wr' = [wr EXCEPT ![id].state = s]
  BY <1>1 DEF TryUpdateState, UpdateWithdrawalState
<1>3. QED
  BY <1>2

\* Rows in flight stay admitted, and terminal states always are.
LEMMA Admitted ==
    ASSUME Admits, NEW id \in Ids, NEW s, s \in InflightStates => wr[id].state \in InflightStates
    PROVE  StateAdmitted(id, s)
BY DEF Admits, DedupInflight, StateAdmitted, IndexAdmits

\* StepFits holds of every step.
LEMMA StepsFit ==
    ASSUME TypeInv, PayoutInv, FitInv, NEW c \in Callers, Step(c)
    PROVE  StepFits(c)
<1> DEFINE id == calls[c].id
           k == calls[c]
           paid == Paid(id, accepted)
<1>1. calls \in [Callers -> Calls] /\ k \in Calls /\ wr \in [Ids -> WithdrawalRows] /\ CallOK(k)
  BY DEF TypeInv, TypeOK, CallsOK
<1>2. CallFits(k, wr[id], paid)
  BY DEF FitInv
<1>3. k.pc # "idle" /\ id \in Ids
  BY StepsBusy
<1>4. RowFits(id, wr[id], paid) /\ wr[id] \in WithdrawalRows
  BY <1>1, <1>3 DEF FitInv
<1>5. Paid(id, accepted) => Paid(id, accepted')
  BY HistoryEffects DEF HistoryEffect, Paid
\* A row that stays as it is, and a call that ends.
<1>6. wr'[id] = wr[id] => RowFits(id, wr'[id], Paid(id, accepted'))
  BY <1>4, <1>5 DEF RowFits
\* A state that says nothing of outputs.
<1>7. ASSUME NEW s \in {"PENDING", "WHITELISTED", "FAILED"}, wr' = [wr EXCEPT ![id].state = s]
      PROVE  RowFits(id, wr'[id], Paid(id, accepted'))
  <2>1. wr'[id] = [wr[id] EXCEPT !.state = s]
    BY <1>1, <1>3, <1>7
  <2>2. wr'[id].state = s /\ wr'[id].ops = wr[id].ops
    BY <1>4, <2>1 DEF WithdrawalRows
  <2>3. QED
    BY <1>4, <2>2 DEF RowFits
<1>8. CASE Insert(c)
  <2>1. CASE CreateWithdrawal(id) /\ Goto(c, "whitelist")
    <3>1. RowFits(id, wr'[id], Paid(id, accepted'))
      BY <1>7, <2>1 DEF CreateWithdrawal
    <3>2. calls'[c] = [k EXCEPT !.pc = "whitelist"]
      BY <2>1, GotoCall
    <3>3. CallFits(calls'[c], wr'[id], Paid(id, accepted'))
      BY <1>1, <1>2, <1>8, <3>2 DEF CallFits, Calls, Insert, At, CallOK
    <3>4. QED
      BY <3>1, <3>3 DEF StepFits
  <2>2. CASE Return(c) /\ UNCHANGED wr
    BY <1>6, <2>2, ReturnCall DEF StepFits
  <2>3. QED
    BY <1>8, <2>1, <2>2 DEF Insert
<1>9. CASE CheckWhitelist(c)
  <2>1. calls'[c] = Idle
    BY <1>9, ReturnCall DEF CheckWhitelist
  <2>2. \/ wr' = wr
        \/ \E s \in {"PENDING", "WHITELISTED", "FAILED"} : wr' = [wr EXCEPT ![id].state = s]
    BY <1>9 DEF CheckWhitelist, TryUpdateState, UpdateWithdrawalState
  <2>3. QED
    BY <1>6, <1>7, <2>1, <2>2 DEF StepFits
<1>10. CASE ReserveNonce(c)
  <2>1. wr' = wr /\ k.op = "ConstructAndSign" /\ k.pc = "reserve"
    BY <1>1, <1>10 DEF ReserveNonce, At, CallOK, ConstructLabels
  <2>2. \/ calls'[c] = Idle
        \/ \E n : calls' = [calls EXCEPT ![c].pc = "saveNonce", ![c].nonce = n]
    BY <1>10, ReturnCall DEF ReserveNonce
  <2>3. ASSUME NEW n, calls' = [calls EXCEPT ![c].pc = "saveNonce", ![c].nonce = n]
        PROVE  CallFits(calls'[c], wr'[id], Paid(id, accepted'))
    <3>1. calls'[c] = [k EXCEPT !.pc = "saveNonce", !.nonce = n]
      BY <1>1, <2>3 DEF Calls
    <3>2. QED
      BY <1>1, <1>2, <2>1, <3>1 DEF CallFits, Calls
  <2>4. QED
    BY <1>6, <2>1, <2>2, <2>3 DEF StepFits
<1>11. CASE SaveNonce(c)
  <2>1. calls'[c] = [k EXCEPT !.pc = "sign"] /\ k.op = "ConstructAndSign" /\ k.pc = "saveNonce"
    BY <1>1, <1>11, GotoCall DEF SaveNonce, At, CallOK, ConstructLabels
  <2>2. wr'[id] = wr[id] \/ wr'[id] = [wr[id] EXCEPT !.nonce = k.nonce]
    BY <1>1, <1>3, <1>11 DEF SaveNonce
  <2>3. wr'[id].state = wr[id].state /\ wr'[id].ops = wr[id].ops /\ wr'[id].tx = wr[id].tx
    BY <1>4, <2>2 DEF WithdrawalRows
  <2>4. RowFits(id, wr'[id], Paid(id, accepted'))
    BY <1>4, <1>5, <2>3 DEF RowFits
  <2>5. CallFits(calls'[c], wr'[id], Paid(id, accepted'))
    <3>1. Chain(id) # "bitcoin" /\ k.ops = {} /\ k.rows = {} /\ wr[id].ops = {}
      BY <1>2, <1>4, <2>1 DEF CallFits, RowFits
    <3>2. LET n == calls'[c] IN n.op = k.op /\ n.pc = "sign" /\ n.ops = {} /\ n.rows = {}
      BY <1>1, <2>1, <3>1 DEF Calls
    <3>3. QED
      BY <2>1, <2>3, <3>1, <3>2, ZenonT(40) DEF CallFits
  <2>6. QED
    BY <2>4, <2>5 DEF StepFits
<1>12. CASE ListFree(c)
  <2>1. wr' = wr /\ k.op = "ConstructAndSign" /\ Chain(k.id) = "bitcoin"
    BY <1>1, <1>12 DEF ListFree, At, CallOK, ConstructLabels, Chain
  <2>2. \/ calls'[c] = [k EXCEPT !.pc = "undoSelect"]
        \/ \E S : calls' = [calls EXCEPT ![c].pc = "lock", ![c].ops = S]
    BY Zenon, <1>12, GotoCall DEF ListFree
  <2>3. \/ calls'[c] = [k EXCEPT !.pc = "undoSelect"]
        \/ \E S : calls'[c] = [k EXCEPT !.pc = "lock", !.ops = S]
    BY <1>1, <2>2, ZenonT(40) DEF Calls
  <2>4. CallFits(calls'[c], wr'[id], Paid(id, accepted'))
    BY Zenon, <1>1, <2>1, <2>3 DEF CallFits, Calls
  <2>5. QED
    BY <1>6, <2>1, <2>4 DEF StepFits
<1>13. CASE LockSelected(c)
  <2>1. wr' = wr /\ k.op = "ConstructAndSign" /\ Chain(k.id) = "bitcoin"
    BY <1>1, <1>13 DEF LockSelected, At, CallOK, ConstructLabels, Chain
  <2>2. \E l \in {"saveOutpoints", "undoSelect"} : calls'[c] = [k EXCEPT !.pc = l]
    BY <1>13, GotoCall DEF LockSelected
  <2>3. CallFits(calls'[c], wr'[id], Paid(id, accepted'))
    BY <1>1, <2>1, <2>2 DEF CallFits, Calls
  <2>4. QED
    BY <1>6, <2>1, <2>3 DEF StepFits
<1>14. CASE UndoSelect(c)
  BY Zenon, <1>6, <1>14, ReturnCall DEF StepFits, UndoSelect
\* A rollback of what the call holds.
<1>15. ASSUME NEW then \in {"idle", "markFailed"}, StartRollback(c, k.ops, then),
              k.op \in {"ConstructAndSign", "Broadcast"}, k.op = "Broadcast" => then = "markFailed",
              wr'[id] = wr[id]
       PROVE  StepFits(c)
  <2>1. calls'[c] = [k EXCEPT !.pc = "rollback", !.rows = k.ops, !.then = then]
    BY <1>1, <1>15 DEF StartRollback, Calls
  <2>2. CallFits(calls'[c], wr'[id], Paid(id, accepted'))
    BY <1>1, <1>2, <1>15, <2>1 DEF CallFits, Calls
  <2>3. QED
    BY <1>6, <1>15, <2>2 DEF StepFits
<1>16. CASE SaveOutpoints(c)
  <2>1. k.op = "ConstructAndSign" /\ wr[id].state = "WHITELISTED"
    BY <1>1, <1>16 DEF SaveOutpoints, At, CallOK, ConstructLabels, PayoutInv
  <2>2. CASE wr' = [wr EXCEPT ![id].ops = k.ops] /\ Goto(c, "sign")
    <3>1. calls'[c] = [k EXCEPT !.pc = "sign"]
      BY <2>2, GotoCall
    <3>2. wr'[id] = [wr[id] EXCEPT !.ops = k.ops]
      BY <1>1, <1>3, <2>2
    <3>3. wr'[id].ops = k.ops /\ wr'[id].state = "WHITELISTED"
      BY <1>4, <2>1, <3>2 DEF WithdrawalRows
    <3>4. CallFits(calls'[c], wr'[id], Paid(id, accepted'))
      BY <1>1, <1>2, <2>1, <3>1, <3>3 DEF CallFits, Calls
    <3>5. RowFits(id, wr'[id], Paid(id, accepted'))
      BY <1>2, <2>1, <3>3 DEF CallFits, RowFits
    <3>6. QED
      BY <3>4, <3>5 DEF StepFits
  <2>3. CASE wr' = wr /\ StartRollback(c, k.ops, "idle")
    BY <1>15, <2>1, <2>3
  <2>4. QED
    BY <1>16, <2>2, <2>3 DEF SaveOutpoints
<1>17. CASE SignTx(c)
  <2>1. k.op = "ConstructAndSign" /\ k.pc = "sign" /\ wr[id].state = "WHITELISTED"
    BY <1>1, <1>17 DEF SignTx, At, CallOK, ConstructLabels, PayoutInv
  <2>2. CASE wr' = [wr EXCEPT ![id].tx = Assemble(k)] /\ Goto(c, "markSigned")
    <3>1. calls'[c] = [k EXCEPT !.pc = "markSigned"]
      BY <2>2, GotoCall
    <3>2. wr'[id] = [wr[id] EXCEPT !.tx = Assemble(k)]
      BY <1>1, <1>3, <2>2
    <3>3. wr'[id].tx.ops = k.ops /\ wr'[id].ops = wr[id].ops /\ wr'[id].state = "WHITELISTED"
      BY <1>4, <2>1, <3>2 DEF WithdrawalRows, Assemble
    <3>4. CallFits(calls'[c], wr'[id], Paid(id, accepted'))
      BY <1>1, <1>2, <2>1, <3>1, <3>3 DEF CallFits, Calls
    <3>5. RowFits(id, wr'[id], Paid(id, accepted'))
      BY <1>4, <3>3 DEF RowFits
    <3>6. QED
      BY <3>4, <3>5 DEF StepFits
  <2>3. CASE wr' = wr /\ \E then \in {"idle", "markFailed"} : StartRollback(c, k.ops, then)
    BY <1>15, <2>1, <2>3
  <2>4. QED
    BY <1>17, <2>2, <2>3 DEF SignTx
\* The states that say what was signed, or that it was paid.
<1>18. ASSUME NEW s, wr' = wr \/ wr' = [wr EXCEPT ![id].state = s], calls'[c] = Idle,
              s = "SIGNED" => wr[id].tx.ops = wr[id].ops,
              s \in {"BROADCAST", "CONFIRMED"} => Paid(id, accepted)
       PROVE  StepFits(c)
  <2>1. CASE wr' = [wr EXCEPT ![id].state = s]
    <3>1. wr'[id] = [wr[id] EXCEPT !.state = s]
      BY <1>1, <1>3, <2>1
    <3>2. wr'[id].state = s /\ wr'[id].ops = wr[id].ops /\ wr'[id].tx = wr[id].tx
      BY <1>4, <3>1 DEF WithdrawalRows
    <3>3. RowFits(id, wr'[id], Paid(id, accepted'))
      BY <1>4, <1>5, <1>18, <3>2 DEF RowFits
    <3>4. QED
      BY <1>18, <3>3 DEF StepFits
  <2>2. QED
    BY <1>6, <1>18, <2>1 DEF StepFits
<1>19. CASE MarkSigned(c)
  <2>1. wr[id].tx.ops = wr[id].ops
    BY Zenon, <1>2, <1>19 DEF MarkSigned, At, CallFits
  <2>2. calls'[c] = Idle /\ (wr' = wr \/ wr' = [wr EXCEPT ![id].state = "SIGNED"])
    BY <1>19, ReturnCall DEF MarkSigned, TryUpdateState, UpdateWithdrawalState
  <2>3. QED
    BY <1>18, <2>1, <2>2
<1>20. CASE MarkFailed(c)
  <2>1. calls'[c] = Idle /\ (wr' = wr \/ wr' = [wr EXCEPT ![id].state = "FAILED"])
    BY <1>20, ReturnCall DEF MarkFailed, TryUpdateState, UpdateWithdrawalState
  <2>2. QED
    BY <1>18, <2>1
<1>21. CASE MarkBroadcast(c)
  <2>1. Paid(id, accepted)
    BY <1>2, <1>21 DEF MarkBroadcast, At, CallFits
  <2>2. calls'[c] = Idle /\ (wr' = wr \/ wr' = [wr EXCEPT ![id].state = "BROADCAST"])
    BY <1>21, ReturnCall DEF MarkBroadcast, TryUpdateState, UpdateWithdrawalState
  <2>3. QED
    BY <1>18, <2>1, <2>2
<1>22. CASE MarkConfirmed(c)
  <2>1. Paid(id, accepted)
    BY Zenon, <1>1, <1>2, <1>22 DEF MarkConfirmed, At, CallFits, CallOK
  <2>2. calls'[c] = Idle /\ (wr' = wr \/ wr' = [wr EXCEPT ![id].state = "CONFIRMED"])
    BY <1>22, ReturnCall DEF MarkConfirmed, TryUpdateState, UpdateWithdrawalState
  <2>3. QED
    BY <1>18, <2>1, <2>2
\* A step of a rollback or of the spending of outputs.
<1>23. ASSUME NEW batch, calls' = [calls EXCEPT ![c].rows = @ \ batch], wr' = wr
       PROVE  StepFits(c)
  <2>1. calls'[c] = [k EXCEPT !.rows = k.rows \ batch]
    BY <1>1, <1>23
  <2>2. CallFits(calls'[c], wr'[id], Paid(id, accepted'))
    BY <1>1, <1>2, <1>5, <1>23, <2>1 DEF CallFits, Calls
  <2>3. QED
    BY <1>6, <1>23, <2>2 DEF StepFits
<1>24. CASE Rollback(c)
  <2>1. wr' = wr /\ k.op \in {"ConstructAndSign", "Broadcast", "Fail"}
    BY Zenon, <1>1, <1>24 DEF Rollback, At, CallOK
  <2>2. AfterRollback(c) \/ \E batch : calls' = [calls EXCEPT ![c].rows = @ \ batch]
    <3>1. CASE RowLoop(c, RestoreUTXOs, AfterRollback(c))
      BY <3>1 DEF RowLoop
    <3>2. QED
      BY <1>24, <3>1 DEF Rollback
  <2>3. CASE AfterRollback(c)
    <3>1. calls'[c] = Idle \/ calls'[c] = [k EXCEPT !.pc = "markFailed"]
      BY <2>3, ReturnCall, GotoCall DEF AfterRollback
    <3>2. CASE calls'[c] = [k EXCEPT !.pc = "markFailed"]
      <4>1. CallFits(calls'[c], wr'[id], Paid(id, accepted'))
        BY <1>1, <1>2, <2>1, <3>2 DEF CallFits, Calls
      <4>2. QED
        BY <1>6, <2>1, <4>1 DEF StepFits
    <3>3. QED
      BY <1>6, <2>1, <3>1, <3>2 DEF StepFits
  <2>4. QED
    BY <1>23, <2>1, <2>2, <2>3
<1>25. CASE Submit(c)
  <2>1. wr' = wr /\ k.op = "Broadcast"
    BY <1>1, <1>25 DEF Submit, At, CallOK
  <2>2. CASE BroadcastTx(k) /\ calls' = [calls EXCEPT ![c].pc = "commit", ![c].rows = k.ops]
    <3>1. calls'[c] = [k EXCEPT !.pc = "commit", !.rows = k.ops]
      BY <1>1, <2>2 DEF Calls
    <3>2. Paid(id, accepted')
      <4>1. TxOf(c) \in accepted' /\ TxOf(c).id = id
        BY <2>2 DEF BroadcastTx, TxOf
      <4>2. QED
        BY <4>1 DEF Paid
    <3>3. CallFits(calls'[c], wr'[id], Paid(id, accepted'))
      BY <1>1, <1>2, <2>1, <3>1, <3>2 DEF CallFits, Calls
    <3>4. QED
      BY <1>6, <2>1, <3>3 DEF StepFits
  <2>3. CASE StartRollback(c, k.ops, "markFailed")
    BY <1>15, <2>1, <2>3
  <2>4. QED
    BY <1>25, <2>2, <2>3 DEF Submit
<1>26. CASE Commit(c)
  <2>1. wr' = wr /\ k.op = "Broadcast" /\ Paid(id, accepted')
    BY Zenon, <1>1, <1>2, <1>5, <1>26 DEF Commit, At, CallOK, CallFits
  <2>2. \/ Goto(c, "markBroadcast")
        \/ \E batch : calls' = [calls EXCEPT ![c].rows = @ \ batch]
    <3>1. CASE RowLoop(c, MarkUTXOsSpent, Goto(c, "markBroadcast"))
      BY <3>1 DEF RowLoop
    <3>2. QED
      BY <1>26, <3>1 DEF Commit
  <2>3. CASE Goto(c, "markBroadcast")
    <3>1. calls'[c] = [k EXCEPT !.pc = "markBroadcast"]
      BY <2>3, GotoCall
    <3>2. CallFits(calls'[c], wr'[id], Paid(id, accepted'))
      BY <1>1, <1>2, <2>1, <3>1 DEF CallFits, Calls
    <3>3. QED
      BY Zenon, <1>6, <2>1, <3>2 DEF StepFits
  <2>4. QED
    BY <1>23, <2>1, <2>2, <2>3
\* What follows the writes of a reorg.
<1>27. ASSUME AfterReorg(c), k.op = "OnReorg", Paid(id, accepted'),
              wr'[id].state = wr[id].state \/ wr'[id].state = "BROADCAST"
       PROVE  CallFits(calls'[c], wr'[id], Paid(id, accepted')) \/ calls'[c] = Idle
  <2>1. CASE Return(c)
    BY <2>1, ReturnCall
  <2>2. CASE calls' = [calls EXCEPT ![c].pc = "restoreAgain", ![c].rows = k.ops]
    <3>1. calls'[c] = [k EXCEPT !.pc = "restoreAgain", !.rows = k.ops]
      BY <1>1, <2>2 DEF Calls
    <3>2. QED
      BY <1>1, <1>2, <1>27, <3>1 DEF CallFits, Calls
  <2>3. QED
    BY Zenon, <1>27, <2>1, <2>2 DEF AfterReorg
<1>28. CASE Restore(c) \/ RestoreAgain(c)
  <2>1. wr' = wr /\ k.op = "OnReorg" /\ Paid(id, accepted')
    BY Zenon, <1>1, <1>2, <1>5, <1>28 DEF Restore, RestoreAgain, At, CallOK, CallFits
  <2>2. \/ Return(c) \/ AfterRestore(c)
        \/ \E batch : calls' = [calls EXCEPT ![c].rows = @ \ batch]
    <3>1. CASE RestoreAgain(c)
      BY <3>1 DEF RestoreAgain, RowLoop
    <3>2. CASE Restore(c)
      <4> DEFINE fails == LoopErrs(Backend, utxos, k.rows)
      <4>1. CASE RowLoop(c, RestoreUTXOs, IF fails THEN Return(c) ELSE AfterRestore(c))
        BY <4>1 DEF RowLoop
      <4>2. QED
        BY <3>2, <4>1 DEF Restore
    <3>3. QED
      BY <1>28, <3>1, <3>2
  <2>3. CASE AfterRestore(c)
    <3>1. CASE k.state = "CONFIRMED" /\ Goto(c, "demote")
      <4>1. calls'[c] = [k EXCEPT !.pc = "demote"]
        BY <3>1, GotoCall
      <4>2. CallFits(calls'[c], wr'[id], Paid(id, accepted'))
        BY <1>1, <1>2, <2>1, <3>1, <4>1 DEF CallFits, Calls
      <4>3. QED
        BY Zenon, <1>6, <2>1, <4>2 DEF StepFits
    <3>2. CASE AfterReorg(c)
      BY Zenon, <1>6, <1>27, <2>1, <3>2 DEF StepFits
    <3>3. QED
      BY <2>3, <3>1, <3>2 DEF AfterRestore
  <2>4. QED
    BY Zenon, <1>6, <1>23, <2>1, <2>2, <2>3, ReturnCall DEF StepFits
<1>29. CASE Demote(c)
  <2>1. k.op = "OnReorg" /\ Paid(id, accepted')
    BY Zenon, <1>1, <1>2, <1>5, <1>29 DEF Demote, At, CallOK, CallFits
  <2>2. CASE wr' = wr /\ Return(c)
    BY Zenon, <1>6, <2>2, ReturnCall DEF StepFits
  <2>3. CASE wr' = [wr EXCEPT ![id].state = "BROADCAST"] /\ AfterReorg(c)
    <3>1. wr'[id] = [wr[id] EXCEPT !.state = "BROADCAST"]
      BY <1>1, <1>3, <2>3
    <3>2. wr'[id].state = "BROADCAST" /\ wr'[id].ops = wr[id].ops
      BY <1>4, <3>1 DEF WithdrawalRows
    <3>3. RowFits(id, wr'[id], Paid(id, accepted'))
      BY Zenon, <1>4, <2>1, <3>2 DEF RowFits
    <3>4. QED
      BY Zenon, <1>27, <2>1, <2>3, <3>2, <3>3 DEF StepFits
  <2>4. QED
    BY <1>29, <2>2, <2>3 DEF Demote, UpdateWithdrawalState
<1>30. QED
  BY <1>8, <1>9, <1>10, <1>11, <1>12, <1>13, <1>14, <1>16, <1>17, <1>19, <1>20, <1>21, <1>22,
     <1>24, <1>25, <1>26, <1>28, <1>29 DEF Step

\* Another call on the withdrawal of a step is a callback, or the step is one's.
LEMMA OtherFits ==
    ASSUME TypeInv, PayoutInv, FitInv, NEW c \in Callers, Step(c),
           NEW d \in Callers, d # c
    PROVE  LET k == calls'[d] IN CallFits(k, wr'[k.id], Paid(k.id, accepted'))
<1> DEFINE id == calls[c].id
           k == calls[d]
<1>1. calls'[d] = k /\ \A j \in Ids : j # id => wr'[j] = wr[j]
  BY Zenon, CallEffects, RowEffects DEF CallEffect, RowEffect
<1>2. CallOK(calls[c]) /\ CallOK(k) /\ calls[c] \in Calls /\ k \in Calls
  BY DEF TypeInv, TypeOK, CallsOK
<1>3. CallFits(k, wr[k.id], Paid(k.id, accepted)) /\ CallFits(calls[c], wr[id], Paid(id, accepted))
  BY DEF FitInv
<1>4. Paid(k.id, accepted) => Paid(k.id, accepted')
  BY HistoryEffects DEF HistoryEffect, Paid
<1>5. CASE k.pc = "idle"
  BY <1>1, <1>2, <1>3, <1>5, ZenonT(40) DEF CallFits, CallOK
<1>6. CASE k.id # id /\ k.pc # "idle"
  <2>1. wr'[k.id] = wr[k.id]
    BY <1>1, <1>2, <1>6, ZenonT(40) DEF CallOK
  <2>2. QED
    BY <1>1, <1>3, <1>4, <2>1, ZenonT(40) DEF CallFits
<1>7. ASSUME NEW e \in {c, d}, calls[e].pc # "idle"
      PROVE  calls[e].op \in {"Create", "ConstructAndSign", "Broadcast", "Confirm", "Fail", "OnReorg"}
  BY <1>2, <1>7, ZenonT(40) DEF CallOK, Calls, Labels, ConstructLabels
<1>8. calls[c].pc # "idle" /\ id \in Ids
  BY StepsBusy
\* Where a withdrawal that is broadcast can go.
<1>9. ASSUME wr[id].state \in {"BROADCAST", "CONFIRMED", "FAILED"}
      PROVE  wr'[id].state \in {"BROADCAST", "CONFIRMED", "FAILED"}
  <2>1. calls[c].op \notin {"Create", "ConstructAndSign"}
    BY <1>9 DEF PayoutInv
  <2>2. QED
    BY Zenon, <1>2, <1>9, <2>1, RowEffects DEF RowEffect, StateWritten, CallOK, ConstructLabels
<1>10. CASE k.id = id /\ k.op \in {"Confirm", "OnReorg"}
  <2>1. /\ k.op = "Confirm" => wr'[id].state \in {"BROADCAST", "CONFIRMED", "FAILED"}
        /\ k.op = "OnReorg" /\ k.state = "CONFIRMED" =>
              wr'[id].state \in {"BROADCAST", "CONFIRMED", "FAILED"}
    BY Zenon, <1>3, <1>9, <1>10 DEF CallFits
  <2>2. k.pc \notin {"commit", "markBroadcast", "reserve", "saveNonce", "sign", "markSigned", "submit", "rollback"}
    BY Zenon, <1>2, <1>10 DEF CallOK, ConstructLabels
  <2>3. QED
    BY <1>1, <1>3, <1>4, <1>10, <2>1, <2>2, ZenonT(40) DEF CallFits
<1>11. CASE k.id = id /\ k.op = "Fail"
  BY <1>1, <1>2, <1>3, <1>4, <1>11, ZenonT(40) DEF CallFits, CallOK, ConstructLabels
<1>12. CASE k.id = id /\ k.op \in {"Create", "ConstructAndSign", "Broadcast"}
  <2>1. calls[c].op \in {"Confirm", "OnReorg"}
    BY <1>7, <1>8, <1>12 DEF PayoutInv, DriverOps
  <2>2. wr[id].state \in Late
    BY Zenon, <2>1 DEF PayoutInv
  <2>3. k.op = "Broadcast" /\ wr[id].state = "SIGNED"
    BY Zenon, <1>3, <1>12, <2>2 DEF PayoutInv, Late, CallFits
  <2>4. calls[c].op = "OnReorg" /\ calls[c].pc # "demote"
    BY Zenon, <1>3, <2>1, <2>3 DEF CallFits
  <2>5. wr'[id].state = wr[id].state
    BY Zenon, <1>2, <2>4, RowEffects DEF RowEffect, StateWritten, CallOK, ConstructLabels
  <2>6. k.pc \notin {"demote", "reserve", "saveNonce", "sign", "markSigned"}
    BY Zenon, <1>2, <2>3 DEF CallOK, ConstructLabels
  <2>7. QED
    BY <1>1, <1>3, <1>4, <1>12, <2>3, <2>5, <2>6, ZenonT(40) DEF CallFits
<1>13. QED
  BY Zenon, <1>5, <1>6, <1>7, <1>10, <1>11, <1>12

\* The call an operation starts with.
StartedCall(c, id) ==
    LET k == calls'[c] IN
    /\ k.op \in Ops /\ k.id = id /\ (k.op # "OnReorg" => k.rows = {})
    /\ \/ k.op = "Create" /\ k.pc = "insert" /\ k.ops = {}
       \/ /\ k.op = "ConstructAndSign" /\ k.ops = {}
          /\ \/ k.pc = "reserve" /\ Chain(id) # "bitcoin"
             \/ k.pc = "list"
             \/ k.pc = "sign" /\ Chain(id) \notin {"bitcoin", "evm"}
       \/ k.op = "Broadcast" /\ k.pc = "submit" /\ k.ops = wr[id].ops /\ k.nonce = wr[id].nonce
       \/ k.op = "Confirm" /\ k.pc = "markConfirmed" /\ k.ops = {}
       \/ k.op = "Fail" /\ k.pc = "rollback" /\ k.ops = {} /\ k.then = "markFailed"
       \/ k.op = "OnReorg" /\ k.pc = "restore" /\ k.state = wr[id].state

\* No other operation starts.
LEMMA StartedCalls ==
    ASSUME TypeInv, NEW c \in Callers, NEW id \in Ids, Start(c, id)
    PROVE  StartedCall(c, id)
<1>1. calls \in [Callers -> Calls]
  BY DEF TypeInv, TypeOK
<1>2. CASE StartCreate(c, id)
  BY <1>1, <1>2 DEF StartCreate, Begin, StartedCall, Idle
<1>3. CASE StartConstruct(c, id)
  BY <1>1, <1>3 DEF StartConstruct, Begin, StartedCall, Idle
<1>4. CASE StartBroadcast(c, id)
  BY <1>1, <1>4 DEF StartBroadcast, Begin, StartedCall, Idle
<1>5. CASE StartConfirm(c, id)
  BY <1>1, <1>5 DEF StartConfirm, Begin, StartedCall, Idle
<1>6. CASE StartFail(c, id)
  BY <1>1, <1>6 DEF StartFail, Begin, StartedCall, Idle
<1>7. CASE StartReorg(c, id)
  BY <1>1, <1>7 DEF StartReorg, Begin, StartedCall, Idle
<1>8. QED
  BY <1>2, <1>3, <1>4, <1>5, <1>6, <1>7 DEF Start

\* FitInv is preserved when operations on a withdrawal exclude each other.
LEMMA FitNext == TypeInv /\ PayoutInv /\ FitInv /\ [Next]_vars => FitInv'
<1> SUFFICES ASSUME TypeInv, PayoutInv, FitInv, [Next]_vars PROVE FitInv'
  OBVIOUS
<1> DEFINE Fits(d) == LET k == calls'[d] IN CallFits(k, wr'[k.id], Paid(k.id, accepted'))
<1>1. ASSUME NEW c \in Callers, Step(c) PROVE FitInv'
  <2> DEFINE id == calls[c].id
  <2>1. StepFits(c) /\ CallEffect(c) /\ RowEffect(c)
    BY <1>1, StepsFit, CallEffects, RowEffects
  <2>2. Fits(c)
    <3>1. CASE calls'[c] = Idle
      BY <3>1, IdleFits
    <3>2. CASE calls'[c] # Idle
      BY <2>1, <3>2 DEF StepFits, CallEffect
    <3>3. QED
      BY <3>1, <3>2
  <2>3. \A d \in Callers : Fits(d)
    BY <1>1, <2>2, OtherFits
  <2>4. ASSUME NEW j \in Ids PROVE RowFits(j, wr'[j], Paid(j, accepted'))
    <3>1. CASE j = id
      BY <2>1, <3>1 DEF StepFits
    <3>2. CASE j # id
      <4>1. wr'[j] = wr[j] /\ (Paid(j, accepted) => Paid(j, accepted'))
        BY <1>1, <2>1, <3>2, HistoryEffects DEF RowEffect, HistoryEffect, Paid
      <4>2. QED
        BY <4>1 DEF RowFits, FitInv
    <3>3. QED
      BY <3>1, <3>2
  <2>5. QED
    BY <2>3, <2>4 DEF FitInv
<1>2. ASSUME NEW c \in Callers, NEW id \in Ids, Start(c, id) PROVE FitInv'
  <2>1. StartEffect(c, id) /\ StartedCall(c, id)
    BY <1>2, StartEffects, StartedCalls
  <2>2. RowFits(id, wr[id], Paid(id, accepted))
    BY DEF FitInv
  <2>3. Fits(c)
    BY Zenon, <2>1, <2>2 DEF StartEffect, StartedCall, CallFits, RowFits, Paid
  <2>4. ASSUME NEW d \in Callers, d # c PROVE Fits(d)
    BY Zenon, <2>1, <2>4 DEF StartEffect, FitInv
  <2>5. QED
    BY Zenon, <2>1, <2>3, <2>4 DEF StartEffect, FitInv
<1>3. CASE Environment
  <2>1. calls \in [Callers -> Calls]
    BY DEF TypeInv, TypeOK
  <2>2. UNCHANGED <<wr, accepted>> /\ \A d \in Callers : calls'[d] \in {calls[d], Idle}
    BY <1>3, <2>1, EnvironmentEffects
  <2>3. \A d \in Callers : Fits(d)
    BY <2>2, IdleFits DEF FitInv
  <2>4. QED
    BY <2>2, <2>3 DEF FitInv
<1>4. CASE UNCHANGED vars
  BY Zenon, <1>4 DEF vars, FitInv, Paid
<1>5. QED
  BY <1>1, <1>2, <1>3, <1>4 DEF Next

\* On Postgres because of the unique index, in memory because nothing is refused.
LEMMA StatesAdmitted == Spec => []Admits
<1>1. CASE Backend = "postgres"
  <2>1. DedupInflight => Admits
    BY DEF Admits
  <2>2. Spec => []DedupInflight
    BY <1>1, OneInFlight
  <2>3. QED
    BY <2>1, <2>2, PTL
<1>2. CASE Backend # "postgres"
  <2>1. Admits
    BY <1>2 DEF Admits
  <2>2. QED
    BY <2>1, PTL
<1>3. QED
  BY <1>1, <1>2

\* PendingInCreate as an inductive invariant: the Create has only the decision to write.
PendingInv ==
    \A id \in Ids : wr[id].state = "PENDING" =>
        \E c \in Callers : calls[c].pc = "whitelist" /\ calls[c].id = id

\* A step of Create leaves the row PENDING only before the decision, and the other
\* operations neither make a row PENDING nor end a Create.
LEMMA PendingStep ==
    ASSUME Faults \cap {"lostwrite", "crash"} = {}, TypeInv, Admits, PendingInv,
           NEW c \in Callers, Step(c)
    PROVE  PendingInv'
<1> SUFFICES ASSUME NEW id \in Ids, wr'[id].state = "PENDING"
             PROVE  \E d \in Callers : calls'[d].pc = "whitelist" /\ calls'[d].id = id
  BY Zenon DEF PendingInv
<1>1. CallEffect(c) /\ RowEffect(c)
  BY CallEffects, RowEffects
<1>2. wr \in [Ids -> WithdrawalRows] /\ calls \in [Callers -> Calls] /\ calls[c] \in Calls
  BY DEF TypeInv, TypeOK
<1>3. CASE wr[id].state = "PENDING"
  <2>1. PICK d \in Callers : calls[d].pc = "whitelist" /\ calls[d].id = id
    BY <1>3 DEF PendingInv
  <2>2. CASE d = c
    <3>1. CheckWhitelist(c)
      BY Zenon, <2>1, <2>2 DEF Step, At, Insert, CheckWhitelist, ReserveNonce, SaveNonce, ListFree,
         LockSelected, UndoSelect, SaveOutpoints, SignTx, MarkSigned, Rollback, MarkFailed, Submit,
         Commit, MarkBroadcast, MarkConfirmed, Restore, Demote, RestoreAgain
    <3>2. StateAdmitted(id, "WHITELISTED") /\ StateAdmitted(id, "FAILED")
      BY <1>3, Admitted DEF InflightStates
    <3>3. PICK s \in {"WHITELISTED", "FAILED"} : TryUpdateState(id, s)
      BY Zenon, <2>1, <2>2, <3>1 DEF CheckWhitelist
    <3>4. wr' = [wr EXCEPT ![id].state = s]
      BY <3>2, <3>3 DEF TryUpdateState, UpdateWithdrawalState
    <3>5. wr'[id].state = s
      BY <1>2, <3>4 DEF WithdrawalRows
    <3>6. QED
      BY <3>3, <3>5
  <2>3. CASE d # c
    BY Zenon, <1>1, <2>1, <2>3 DEF CallEffect
  <2>4. QED
    BY <2>2, <2>3
<1>4. CASE wr[id].state # "PENDING"
  <2>1. id = calls[c].id /\ <<calls[c].pc, "PENDING">> \in StateWritten
    BY Zenon, <1>1, <1>4 DEF RowEffect
  <2>2. calls[c].pc = "insert"
    BY <2>1 DEF StateWritten
  <2>3. Insert(c)
    BY Zenon, <2>2 DEF Step, At, Insert, CheckWhitelist, ReserveNonce, SaveNonce, ListFree,
       LockSelected, UndoSelect, SaveOutpoints, SignTx, MarkSigned, Rollback, MarkFailed, Submit,
       Commit, MarkBroadcast, MarkConfirmed, Restore, Demote, RestoreAgain
  <2>4. Goto(c, "whitelist")
    BY Zenon, <1>4, <2>3 DEF Insert
  <2>5. calls'[c].pc = "whitelist" /\ calls'[c].id = id
    BY <1>2, <2>1, <2>4 DEF Goto, Calls
  <2>6. QED
    BY <2>5
<1>5. QED
  BY <1>3, <1>4

\* Create: unless a write is lost or the process dies, no request stays PENDING without a
\* Create that is about to record the Policy Engine's decision, for any number of requests
\* for the same payment and whether or not operations on a withdrawal exclude each other.
THEOREM PendingIsDecided ==
    ASSUME Faults \cap {"lostwrite", "crash"} = {}
    PROVE  Spec => []PendingInCreate
<1>1. Init => PendingInv
  BY DEF Init, PendingInv, NoRow
<1>2. TypeInv /\ PendingInv => PendingInCreate
  BY DEF PendingInv, PendingInCreate, TypeInv, CallsOK, CallOK
<1>3. TypeInv /\ Admits /\ PendingInv /\ [Next]_vars => PendingInv'
  <2> SUFFICES ASSUME TypeInv, Admits, PendingInv, [Next]_vars PROVE PendingInv'
    OBVIOUS
  <2>1. ASSUME NEW c \in Callers, Step(c) PROVE PendingInv'
    BY <2>1, PendingStep
  <2>2. ASSUME NEW c \in Callers, NEW id \in Ids, Start(c, id) PROVE PendingInv'
    <3>1. StartEffect(c, id)
      BY <2>2, StartEffects
    <3>2. \A d \in Callers : calls[d].pc = "whitelist" => calls'[d] = calls[d]
      BY <3>1 DEF StartEffect
    <3>3. UNCHANGED wr
      BY <3>1 DEF StartEffect
    <3>4. QED
      BY <3>2, <3>3 DEF PendingInv
  <2>3. CASE Environment
    <3>1. UNCHANGED <<wr, calls>>
      BY <2>3 DEF Environment, AllocateNonce, UpdateWalletState, TrackUTXO, PruneFinalized, Crash
    <3>2. QED
      BY <3>1 DEF PendingInv
  <2>4. CASE UNCHANGED vars
    BY <2>4 DEF vars, PendingInv
  <2>5. QED
    BY <2>1, <2>2, <2>3, <2>4 DEF Next
<1>4. QED
  BY <1>1, <1>2, <1>3, TypeInvariant, StatesAdmitted, PTL DEF Spec

LEMMA CallsFit ==
    ASSUME Compensated
    PROVE  Spec => [](TypeInv /\ PayoutInv /\ FitInv)
<1>1. Init => PayoutInv
  BY DEF Init, PayoutInv, Idle, DriverOps
<1>2. Init => FitInv
  BY IdleFits DEF Init, FitInv, RowFits, NoRow
<1>3. TypeInv /\ TypeInv' /\ PayoutInv /\ [Next]_vars => PayoutInv'
  BY PayoutNext DEF Compensated
<1>4. TypeInv /\ PayoutInv /\ FitInv /\ [Next]_vars => FitInv'
  BY FitNext DEF Compensated
<1>5. QED
  BY <1>1, <1>2, <1>3, <1>4, TypeInvariant, PTL DEF Spec

\* A call that is spending its outputs goes on, or holds none any more; one that
\* the gateway took is spending its outputs.
LEMMA CommitStep ==
    ASSUME Compensated, TypeInv, NEW c \in Callers, Step(c)
    PROVE  LET k == calls'[c] IN
           /\ calls[c].pc = "commit" => k.pc = "commit" \/ k.pc = "markBroadcast"
           /\ accepted' # accepted => k.pc = "commit" /\ k.id = calls[c].id /\ k.rows = calls[c].ops
<1>1. calls \in [Callers -> Calls] /\ calls[c] \in Calls
  BY DEF TypeInv, TypeOK
<1>2. ASSUME calls[c].pc = "commit" PROVE calls'[c].pc = "commit" \/ calls'[c].pc = "markBroadcast"
  <2>1. Commit(c)
    BY Zenon, <1>2 DEF Step, At, Insert, CheckWhitelist, ReserveNonce, SaveNonce, ListFree,
       LockSelected,
       UndoSelect, SaveOutpoints, SignTx, MarkSigned, Rollback, MarkFailed, Submit, Commit,
       MarkBroadcast, MarkConfirmed, Restore, Demote, RestoreAgain
  <2>2. \/ Goto(c, "markBroadcast")
        \/ \E batch : calls' = [calls EXCEPT ![c].rows = @ \ batch]
    <3>1. CASE RowLoop(c, MarkUTXOsSpent, Goto(c, "markBroadcast"))
      BY <3>1 DEF RowLoop
    <3>2. QED
      BY <2>1, <3>1 DEF Commit
  <2>3. QED
    BY <1>1, <1>2, <2>2 DEF Goto, Calls
<1>3. ASSUME accepted' # accepted
      PROVE  calls'[c].pc = "commit" /\ calls'[c].id = calls[c].id /\ calls'[c].rows = calls[c].ops
  <2>1. Submit(c)
    <3>1. calls[c].pc = "submit"
      BY <1>3, HistoryEffects DEF HistoryEffect
    <3>2. QED
      BY <3>1 DEF Step, At, Insert, CheckWhitelist, ReserveNonce, SaveNonce, ListFree, LockSelected,
         UndoSelect, SaveOutpoints, SignTx, MarkSigned, Rollback, MarkFailed, Commit,
         MarkBroadcast, MarkConfirmed, Restore, Demote, RestoreAgain
  <2>2. calls' = [calls EXCEPT ![c].pc = "commit", ![c].rows = calls[c].ops]
    <3>1. "lostack" \notin Faults
      BY DEF Compensated, CleanFaults
    <3>2. QED
      BY <1>3, <2>1, <3>1 DEF Submit
  <2>3. QED
    BY <1>1, <2>2 DEF Calls
<1>4. QED
  BY <1>2, <1>3
=============================================================================

-------------------------- MODULE LifecycleProofs --------------------------
(***************************************************************************)
(* The life of a withdrawal and of its nonce.  LifeInv gives the           *)
(* refinement of WithdrawalLifecycle.  NonceInv gives NonceUnique and      *)
(* CommitCovers: a nonce is used by the call that reserved it, then by the *)
(* signed bytes of its withdrawal; it has one user at a time, and what was *)
(* sent is never handed out again.                                         *)
(***************************************************************************)
EXTENDS PayoutProofs

-----------------------------------------------------------------------------
(* The life of a withdrawal *)

\* A callback on a withdrawal that was BROADCAST or CONFIRMED when it began.
Recorded(k) == k.op = "Confirm" \/ (k.op = "OnReorg" /\ k.state = "CONFIRMED")

\* Fail is not called; an approval finds its request PENDING, a confirmation or the
\* demotion of one its row BROADCAST or CONFIRMED; a payment that is not recorded
\* yet is about to be.
LifeInv ==
    /\ \A c \in Callers :
          LET k == calls[c] IN
          /\ k.op # "Fail"
          /\ k.pc = "whitelist" => wr[k.id].state = "PENDING"
          /\ Recorded(k) => wr[k.id].state \in {"BROADCAST", "CONFIRMED"}
    /\ \A id \in Ids : wr[id].state = "SIGNED" /\ Paid(id, accepted) =>
          \E c \in Callers : calls[c].id = id /\ calls[c].pc \in {"commit", "markBroadcast"}

\* The state changes a step of c may make, and what the payment has to be then.
StateMove(c) ==
    LET id == calls[c].id
        from == wr[id].state
        to == wr'[id].state
    IN
    \/ to = from
    \/ from = "NONE" /\ to = "PENDING"
    \/ from = "PENDING" /\ to = "WHITELISTED"
    \/ from = "WHITELISTED" /\ to = "SIGNED"
    \/ from = "SIGNED" /\ to = "BROADCAST" /\ Paid(id, accepted)
    \/ from = "BROADCAST" /\ to = "CONFIRMED"
    \/ from = "CONFIRMED" /\ to = "BROADCAST"
    \/ from \in {"PENDING", "WHITELISTED", "SIGNED"} /\ to = "FAILED" /\ ~Paid(id, accepted)

\* No step makes another change.
LEMMA StateMoves ==
    ASSUME TypeInv, PayoutInv, FitInv, LifeInv, NEW c \in Callers, Step(c)
    PROVE  StateMove(c)
<1> DEFINE id == calls[c].id
           k == calls[c]
           from == wr[id].state
           to == wr'[id].state
<1>1. RowEffect(c) /\ id \in Ids /\ CallOK(k)
  BY RowEffects, StepsBusy DEF TypeInv, CallsOK
<1>2. CallFits(k, wr[id], Paid(id, accepted))
  BY DEF FitInv
<1>3. /\ k.op = "Create" => from \in {"NONE", "PENDING"}
      /\ k.op = "ConstructAndSign" => from = "WHITELISTED"
  BY DEF PayoutInv
<1>4. /\ k.op # "Fail"
      /\ k.pc = "whitelist" => from = "PENDING"
      /\ Recorded(k) => from \in {"BROADCAST", "CONFIRMED"}
  BY DEF LifeInv
<1>5. Paid(id, accepted) => from \in Late
  BY DEF Paid, PayoutInv
<1>6. CASE to = from
  BY <1>6 DEF StateMove
<1>7. CASE <<k.pc, to>> \in StateWritten
  <2>1. CASE k.pc = "insert" /\ to = "PENDING"
    BY <1>1, <1>3, <2>1 DEF CallOK, StateMove
  <2>2. CASE k.pc = "whitelist" /\ to \in {"WHITELISTED", "FAILED"}
    BY <1>4, <1>5, <2>2 DEF Late, StateMove
  <2>3. CASE k.pc = "markSigned" /\ to = "SIGNED"
    BY <1>1, <1>3, <2>3 DEF CallOK, ConstructLabels, StateMove
  <2>4. CASE k.pc = "markFailed" /\ to = "FAILED"
    <3>1. CASE k.op = "ConstructAndSign"
      BY <1>3, <1>5, <2>4, <3>1 DEF Late, StateMove
    <3>2. CASE k.op = "Broadcast"
      <4>1. from = "SIGNED"
        BY <1>2, <3>2 DEF CallFits
      <4>2. ASSUME Paid(id, accepted) PROVE FALSE
        <5>1. PICK d \in Callers : calls[d].id = id /\ calls[d].pc \in {"commit", "markBroadcast"}
          BY <1>1, <4>1, <4>2 DEF LifeInv
        <5>2. d # c
          BY <2>4, <5>1
        <5>3. calls[d].op \in DriverOps /\ k.op \in DriverOps
          BY <3>2, <5>1 DEF TypeInv, CallsOK, CallOK, DriverOps
        <5>4. QED
          BY <5>1, <5>2, <5>3 DEF PayoutInv
      <4>3. QED
        BY <2>4, <4>1, <4>2 DEF StateMove
    <3>3. QED
      BY <1>1, <1>4, <2>4, <3>1, <3>2 DEF CallOK
  <2>5. CASE k.pc = "markBroadcast" /\ to = "BROADCAST"
    BY <1>1, <1>2, <2>5 DEF CallOK, CallFits, StateMove
  <2>6. CASE k.pc = "markConfirmed" /\ to = "CONFIRMED"
    BY <1>1, <1>4, <2>6 DEF CallOK, Recorded, StateMove
  <2>7. CASE k.pc = "demote" /\ to = "BROADCAST"
    BY <1>1, <1>2, <1>4, <2>7 DEF CallOK, CallFits, Recorded, StateMove
  <2>8. QED
    BY <1>7, <2>1, <2>2, <2>3, <2>4, <2>5, <2>6, <2>7 DEF StateWritten
<1>8. QED
  BY Zenon, <1>1, <1>6, <1>7 DEF RowEffect

\* Only Insert goes on to the Policy Engine, and it has inserted the row then.
LEMMA ApprovalAsked ==
    ASSUME TypeInv, TypeInv', NEW c \in Callers, Step(c), calls'[c].pc = "whitelist"
    PROVE  wr'[calls[c].id].state = "PENDING"
<1>1. calls[c].op = "Create" /\ calls[c].pc \in Labels /\ calls[c].id \in Ids
  <2>1. calls'[c].op = "Create" /\ calls'[c] # Idle
    BY DEF TypeInv, CallsOK, CallOK, Idle
  <2>2. calls[c].op = "Create"
    BY <2>1, CallEffects DEF CallEffect
  <2>3. QED
    BY <2>2, StepsBusy DEF TypeInv, TypeOK, Calls
<1>2. calls[c].pc \in {"insert", "whitelist"}
  BY <1>1, StepsBusy DEF TypeInv, CallsOK, CallOK, Labels, ConstructLabels
<1>3. Insert(c) \/ CheckWhitelist(c)
  BY Zenon, <1>2 DEF Step, At, Insert, CheckWhitelist, ReserveNonce, SaveNonce, ListFree,
     LockSelected,
     UndoSelect, SaveOutpoints, SignTx, MarkSigned, Rollback, MarkFailed, Submit, Commit,
     MarkBroadcast, MarkConfirmed, Restore, Demote, RestoreAgain
<1>4. ~Return(c)
  BY ReturnCall DEF Idle
<1>5. CreateWithdrawal(calls[c].id)
  BY <1>3, <1>4 DEF Insert, CheckWhitelist
<1>6. QED
  BY <1>1, <1>5 DEF CreateWithdrawal, TypeInv, TypeOK, WithdrawalRows

\* MarkBroadcast makes its write.
LEMMA PaymentRecorded ==
    ASSUME Compensated, TypeInv, Admits, FitInv, NEW c \in Callers, Step(c),
           calls[c].pc = "markBroadcast"
    PROVE  wr'[calls[c].id].state = "BROADCAST"
<1> DEFINE id == calls[c].id
<1>1. id \in Ids /\ wr[id].state = "SIGNED"
  BY Zenon, StepsBusy DEF FitInv, CallFits, TypeInv, CallsOK, CallOK
<1>2. MarkBroadcast(c)
  BY Zenon DEF Step, At, Insert, CheckWhitelist, ReserveNonce, SaveNonce, ListFree, LockSelected,
     UndoSelect, SaveOutpoints, SignTx, MarkSigned, Rollback, MarkFailed, Submit, Commit,
     MarkBroadcast, MarkConfirmed, Restore, Demote, RestoreAgain
<1>3. TryUpdateState(id, "BROADCAST")
  BY <1>2 DEF MarkBroadcast
<1>4. StateAdmitted(id, "BROADCAST")
  BY <1>1, Admitted DEF InflightStates
<1>5. wr' = [wr EXCEPT ![id].state = "BROADCAST"]
  BY <1>1, <1>3, <1>4, StateWriteMade
<1>6. QED
  BY <1>1, <1>5 DEF TypeInv, TypeOK, WithdrawalRows

\* A step of the saga preserves LifeInv.
LEMMA LifeStep ==
    ASSUME Compensated, TypeInv, TypeInv', PayoutInv, Admits, FitInv, LifeInv,
           NEW c \in Callers, Step(c)
    PROVE  LifeInv'
<1> DEFINE id == calls[c].id
           from == wr[id].state
           to == wr'[id].state
<1>1. StateMove(c) /\ CallEffect(c) /\ RowEffect(c) /\ HistoryEffect(c) /\ id \in Ids
  BY StateMoves, CallEffects, RowEffects, HistoryEffects, StepsBusy
<1>2. ASSUME NEW d \in Callers
      PROVE  LET k == calls'[d] IN
             /\ k.op # "Fail"
             /\ k.pc = "whitelist" => wr'[k.id].state = "PENDING"
             /\ Recorded(k) => wr'[k.id].state \in {"BROADCAST", "CONFIRMED"}
  <2>1. CASE calls'[d] = Idle
    BY <2>1 DEF Idle, Recorded
  <2>2. CASE calls'[d] # Idle
    <3>1. calls'[d].op = calls[d].op /\ calls'[d].id = calls[d].id /\ calls'[d].state = calls[d].state
      BY <1>1, <2>2 DEF CallEffect
    <3>2. calls'[d].op # "Fail"
      BY <3>1 DEF LifeInv
    <3>3. ASSUME Recorded(calls'[d]) PROVE wr'[calls[d].id].state \in {"BROADCAST", "CONFIRMED"}
      <4>1. wr[calls[d].id].state \in {"BROADCAST", "CONFIRMED"}
        BY <3>1, <3>3 DEF LifeInv, Recorded
      <4>2. CASE calls[d].id = id
        BY Zenon, <1>1, <4>1, <4>2 DEF StateMove
      <4>3. CASE calls[d].id # id
        <5>1. calls'[d].id \in Ids
          BY <3>3 DEF TypeInv, CallsOK, CallOK, Recorded
        <5>2. QED
          BY Zenon, <1>1, <3>1, <4>1, <4>3, <5>1 DEF RowEffect
      <4>4. QED
        BY <4>2, <4>3
    <3>4. ASSUME calls'[d].pc = "whitelist" PROVE wr'[calls[d].id].state = "PENDING"
      <4>1. CASE d = c
        BY <3>4, <4>1, ApprovalAsked
      <4>2. CASE d # c
        <5>1. calls'[d] = calls[d]
          BY <1>1, <4>2 DEF CallEffect
        <5>2. calls[d].op = "Create" /\ wr[calls[d].id].state = "PENDING" /\ calls[d].id \in Ids
          BY <3>4, <5>1 DEF LifeInv, TypeInv, CallsOK, CallOK
        <5>3. CASE calls[d].id # id
          BY Zenon, <1>1, <5>2, <5>3 DEF RowEffect
        <5>4. CASE calls[d].id = id
          <6>1. calls[c].op \notin DriverOps
            BY <4>2, <5>2, <5>4 DEF PayoutInv, DriverOps
          <6>2. calls[c].op \in {"Confirm", "OnReorg"}
            BY Zenon, <6>1, StepsBusy DEF TypeInv, TypeOK, CallsOK, CallOK, Calls, Labels,
               ConstructLabels, DriverOps
          <6>3. QED
            BY Zenon, <5>2, <5>4, <6>2 DEF PayoutInv, Late
        <5>5. QED
          BY <5>3, <5>4
      <4>3. QED
        BY <4>1, <4>2
    <3>5. QED
      BY <3>1, <3>2, <3>3, <3>4
  <2>3. QED
    BY <2>1, <2>2
<1>3. ASSUME NEW j \in Ids, wr'[j].state = "SIGNED", Paid(j, accepted')
      PROVE  \E d \in Callers : calls'[d].id = j /\ calls'[d].pc \in {"commit", "markBroadcast"}
  <2>1. CASE j = id /\ accepted' # accepted
    BY <2>1, CommitStep
  <2>2. CASE Paid(j, accepted)
    <3>1. wr[j].state \in Late
      BY <2>2 DEF Paid, PayoutInv
    <3>2. wr[j].state = "SIGNED"
      <4>1. CASE j = id
        BY Zenon, <1>1, <1>3, <3>1, <4>1 DEF StateMove, Late
      <4>2. CASE j # id
        BY Zenon, <1>1, <1>3, <4>2 DEF RowEffect
      <4>3. QED
        BY <4>1, <4>2
    <3>3. PICK d \in Callers : calls[d].id = j /\ calls[d].pc \in {"commit", "markBroadcast"}
      BY <2>2, <3>2 DEF LifeInv
    <3>4. CASE d # c
      BY <1>1, <3>3, <3>4 DEF CallEffect
    <3>5. CASE d = c /\ calls[c].pc = "commit"
      <4>1. calls'[c].pc \in {"commit", "markBroadcast"}
        BY <3>5, CommitStep
      <4>2. calls'[c] # Idle
        BY <4>1 DEF Idle
      <4>3. QED
        BY <1>1, <3>3, <3>5, <4>1, <4>2 DEF CallEffect
    <3>6. CASE d = c /\ calls[c].pc = "markBroadcast"
      BY <1>3, <3>3, <3>6, PaymentRecorded
    <3>7. QED
      BY <3>3, <3>4, <3>5, <3>6
  <2>3. ASSUME j # id \/ accepted' = accepted PROVE Paid(j, accepted)
    <3>1. PICK a \in accepted' : a.id = j
      BY <1>3 DEF Paid
    <3>2. TxOf(c).id = id
      BY DEF TxOf
    <3>3. CASE accepted' = accepted
      BY <3>1, <3>3 DEF Paid
    <3>4. CASE j # id /\ accepted' = accepted \cup {TxOf(c)}
      <4>1. a # TxOf(c)
        BY <3>1, <3>2, <3>4
      <4>2. QED
        BY <3>1, <3>4, <4>1 DEF Paid
    <3>5. QED
      BY <1>1, <2>3, <3>3, <3>4 DEF HistoryEffect
  <2>4. QED
    BY Zenon, <2>1, <2>2, <2>3
<1>4. QED
  BY <1>2, <1>3 DEF LifeInv

LEMMA LifeNext ==
    ASSUME "Fail" \notin Ops, Compensated
    PROVE  TypeInv /\ TypeInv' /\ PayoutInv /\ Admits /\ FitInv /\ LifeInv /\ [Next]_vars => LifeInv'
<1> SUFFICES ASSUME TypeInv, TypeInv', PayoutInv, Admits, FitInv, LifeInv, [Next]_vars PROVE LifeInv'
  OBVIOUS
<1>1. ASSUME NEW c \in Callers, NEW id \in Ids, Start(c, id) PROVE LifeInv'
  <2>1. StartEffect(c, id) /\ StartedCall(c, id)
    BY <1>1, StartEffects, StartedCalls
  <2>2. UNCHANGED <<wr, accepted>> /\ \A d \in Callers : d # c => calls'[d] = calls[d]
    BY <2>1 DEF StartEffect
  <2>3. LET k == calls'[c] IN
        /\ k.op # "Fail" /\ k.pc # "whitelist"
        /\ Recorded(k) => wr[k.id].state \in {"BROADCAST", "CONFIRMED"}
    BY Zenon, <2>1 DEF StartEffect, StartedCall, Recorded
  <2>4. \A d \in Callers : calls[d].pc \in {"commit", "markBroadcast"} => calls'[d] = calls[d]
    BY <2>1 DEF StartEffect
  <2>5. \A d \in Callers :
           LET k == calls'[d] IN
           /\ k.op # "Fail"
           /\ k.pc = "whitelist" => wr'[k.id].state = "PENDING"
           /\ Recorded(k) => wr'[k.id].state \in {"BROADCAST", "CONFIRMED"}
    BY <2>2, <2>3 DEF LifeInv
  <2>6. ASSUME NEW j \in Ids, wr'[j].state = "SIGNED", Paid(j, accepted')
        PROVE  \E d \in Callers : calls'[d].id = j /\ calls'[d].pc \in {"commit", "markBroadcast"}
    <3>1. PICK d \in Callers : calls[d].id = j /\ calls[d].pc \in {"commit", "markBroadcast"}
      BY <2>2, <2>6 DEF LifeInv
    <3>2. QED
      BY <2>4, <3>1
  <2>7. QED
    BY <2>5, <2>6 DEF LifeInv
<1>2. CASE Environment \/ UNCHANGED vars
  <2>1. UNCHANGED <<wr, calls, accepted>>
    BY <1>2 DEF Environment, AllocateNonce, UpdateWalletState, TrackUTXO, PruneFinalized, Crash,
       Compensated, CleanFaults, vars
  <2>2. QED
    BY <2>1 DEF LifeInv
<1>3. QED
  BY <1>1, <1>2, LifeStep DEF Next

\* Every step is one of WithdrawalLifecycle, or none.
LEMMA LifecycleStep ==
    TypeInv /\ TypeInv' /\ PayoutInv /\ FitInv /\ LifeInv /\ [Next]_vars
        => [Lifecycle!Next]_(Lifecycle!vars)
<1> SUFFICES ASSUME TypeInv, TypeInv', PayoutInv, FitInv, LifeInv, [Next]_vars
             PROVE  [Lifecycle!Next]_(Lifecycle!vars)
  OBVIOUS
<1> DEFINE st == [id \in Ids |-> wr[id].state]
           paid == {a.id : a \in accepted}
<1>1. CASE UNCHANGED <<wr, accepted>>
  BY <1>1 DEF Lifecycle!vars
<1>2. ASSUME NEW c \in Callers, Step(c) PROVE [Lifecycle!Next]_(Lifecycle!vars)
  <2> DEFINE id == calls[c].id
             from == wr[id].state
             to == wr'[id].state
  <2>1. StateMove(c) /\ RowEffect(c) /\ HistoryEffect(c) /\ id \in Ids
    BY <1>2, StateMoves, RowEffects, HistoryEffects, StepsBusy
  <2>2. st' = [st EXCEPT ![id] = to] /\ st[id] = from
    BY Zenon, <2>1 DEF RowEffect
  <2>3. id \in paid <=> Paid(id, accepted)
    BY DEF Paid
  <2>4. PICK i \in Ids : i = id
    BY <2>1
  <2>5. CASE accepted' = accepted
    <3>1. paid' = paid
      BY <2>5
    <3>2. CASE to = from
      <4>1. st' = st
        BY <2>1, <2>2, <3>2
      <4>2. QED
        BY <3>1, <4>1 DEF Lifecycle!vars
    <3>3. ASSUME to # from
          PROVE  \/ Lifecycle!Request(i) \/ Lifecycle!Approve(i) \/ Lifecycle!Sign(i)
                 \/ Lifecycle!Record(i) \/ Lifecycle!Confirm(i) \/ Lifecycle!Reorg(i) \/ Lifecycle!Fail(i)
      BY Zenon, <2>1, <2>2, <2>3, <2>4, <3>1, <3>3 DEF StateMove, Lifecycle!Move, Lifecycle!Request,
         Lifecycle!Approve, Lifecycle!Sign, Lifecycle!Record, Lifecycle!Confirm, Lifecycle!Reorg,
         Lifecycle!Fail
    <3>4. QED
      BY <3>2, <3>3 DEF Lifecycle!Next
  <2>6. CASE accepted' # accepted
    <3>1. calls[c].pc = "submit" /\ accepted' = accepted \cup {TxOf(c)}
      BY <2>1, <2>6 DEF HistoryEffect
    <3>2. from = "SIGNED"
      BY Zenon, <3>1 DEF FitInv, CallFits, TypeInv, CallsOK, CallOK
    <3>3. to = from
      BY Zenon, <2>1, <3>1 DEF RowEffect, StateWritten
    <3>4. st' = st
      BY <2>1, <2>2, <3>3
    <3>5. paid' = paid \cup {id}
      <4>1. TxOf(c).id = id
        BY DEF TxOf
      <4>2. \A x : x \in paid' <=> x \in paid \/ x = id
        BY <3>1, <4>1
      <4>3. QED
        BY <4>2
    <3>6. Lifecycle!Pay(i)
      BY Zenon, <2>2, <2>4, <3>2, <3>4, <3>5 DEF Lifecycle!Pay
    <3>7. QED
      BY <3>6 DEF Lifecycle!Next
  <2>7. QED
    BY <2>5, <2>6
<1>3. QED
  BY Zenon, <1>1, <1>2, EnvironmentEffects, StartEffects DEF Next, vars, StartEffect

\* The saga implements WithdrawalLifecycle where Fail, which looks at no state, is
\* not called: the state of a withdrawal follows one path, money leaves only while
\* it is SIGNED, a FAILED withdrawal has paid nothing, and reorgs, however many run
\* at once and however late they write, only take CONFIRMED back to BROADCAST.
THEOREM SagaImplementsLifecycle ==
    ASSUME Compensated, "Fail" \notin Ops
    PROVE  Spec => LifecycleSpec
<1>1. Init => LifeInv
  BY DEF Init, LifeInv, NoRow, Idle, Recorded
<1>2. Init => Lifecycle!Init
  BY DEF Init, Lifecycle!Init, NoRow
<1>3. TypeInv /\ TypeInv' /\ PayoutInv /\ Admits /\ FitInv /\ LifeInv /\ [Next]_vars => LifeInv'
  BY LifeNext
<1>4. QED
  BY <1>1, <1>2, <1>3, LifecycleStep, CallsFit, StatesAdmitted, PTL
     DEF Spec, LifecycleSpec, Lifecycle!Spec

-----------------------------------------------------------------------------
(* The nonce of a withdrawal *)

\* The states of a withdrawal that keeps the nonce it was signed with.
Sent == {"SIGNED", "BROADCAST", "CONFIRMED"}

\* Where a call keeps the nonce it reserved.
NonceLabels == {"saveNonce", "sign", "markSigned", "rollback"}

\* Nonce v belongs to a withdrawal: a call has reserved it and not given it back,
\* or the withdrawal is signed with it and is not about to fail.
Uses(v, id, cs, rows) ==
    \/ \E c \in Callers : cs[c].id = id /\ cs[c].pc \in NonceLabels /\ cs[c].nonce = v
    \/ /\ rows[id].state \in Sent /\ rows[id].tx.nonce = v
       /\ \A c \in Callers : cs[c].id = id => cs[c].pc # "markFailed"

Using(v, id) == Uses(v, id, calls, wr)

\* A nonce in use was handed out, and to one withdrawal.
UsesApart ==
    \A i \in Ids, v \in Int : Chain(i) = "evm" /\ Using(v, i) =>
        /\ 0 <= v /\ v < nonces[WalletOf[i]].pending
        /\ \A j \in Ids : WalletOf[j] = WalletOf[i] /\ Using(v, j) => i = j

\* A call, the row of its withdrawal and the signed bytes agree on the nonce.
NonceFits(k, row, n) ==
    k.pc # "idle" /\ Chain(k.id) = "evm" =>
        /\ k.pc \in {"sign", "markSigned"} => row.nonce = k.nonce
        /\ k.pc = "markSigned" => row.tx.nonce = k.nonce
        /\ k.op = "Broadcast" /\ k.pc # "markFailed" => row.tx.nonce = k.nonce
        /\ k.pc = "markBroadcast" => k.nonce < n.broadcast

RowNonce(row, n) ==
    /\ row.state = "SIGNED" => row.nonce = row.tx.nonce
    /\ row.state \in {"BROADCAST", "CONFIRMED"} => row.tx.nonce < n.broadcast

\* The broadcast nonce is 0, or past the nonce of a transaction that was sent.
BroadcastSent(w, n, txs) ==
    /\ n.broadcast <= n.pending
    /\ n.broadcast = 0 \/ \E a \in txs : WalletOf[a.id] = w /\ a.nonce = n.broadcast - 1

NonceInv ==
    /\ UsesApart
    /\ \A c \in Callers : LET k == calls[c] IN NonceFits(k, wr[k.id], nonces[WalletOf[k.id]])
    /\ \A id \in Ids : Chain(id) = "evm" => RowNonce(wr[id], nonces[WalletOf[id]])
    /\ \A id \in Ids : Paid(id, accepted) => wr[id].state # "FAILED"
    /\ \A w \in Wallets : ChainOf[w] = "evm" => BroadcastSent(w, nonces[w], accepted)

\* The fields of a nonce row after each operation on it.
LEMMA NonceFields ==
    ASSUME NEW n \in NonceRows, NEW v \in Nat
    PROVE  LET inc == IncrementPendingNonce(n)
               adv == AdvanceBroadcastNonce(n, v)
               bck == RollbackPendingNonce(n, v)
           IN
           /\ n.pending \in Nat /\ n.broadcast \in Nat
           /\ inc.pending = n.pending + 1 /\ inc.broadcast = n.broadcast
           /\ adv.pending = n.pending
           /\ adv.broadcast \in {n.broadcast, v + 1}
           /\ adv.broadcast >= n.broadcast /\ adv.broadcast > v
           /\ bck.broadcast = n.broadcast
           /\ bck.pending = n.pending \/ (n.pending = v + 1 /\ bck.pending = v)
BY DEF NonceRows, IncrementPendingNonce, AdvanceBroadcastNonce, RollbackPendingNonce

\* A step writes the nonce row of its wallet only, at four places, and the nonce of
\* its withdrawal at one.
NonceEffect(c) ==
    LET k == calls[c] IN
    /\ \A w \in Wallets : w # WalletOf[k.id] => nonces'[w] = nonces[w]
    /\ k.pc \notin {"reserve", "undoSelect", "rollback", "commit"} => nonces' = nonces
    /\ k.pc # "saveNonce" => wr'[k.id].nonce = wr[k.id].nonce

\* NonceEffect holds of every step.
LEMMA NonceEffects ==
    ASSUME TypeInv, NEW c \in Callers, Step(c)
    PROVE  NonceEffect(c)
<1> DEFINE id == calls[c].id
<1>1. id \in Ids /\ wr \in [Ids -> WithdrawalRows] /\ nonces \in [Wallets -> NonceRows]
  BY StepsBusy DEF TypeInv, TypeOK
<1>2. \A w \in Wallets : w # WalletOf[id] => nonces'[w] = nonces[w]
  BY Zenon, <1>1 DEF Step, Insert, CheckWhitelist, ReserveNonce, SaveNonce, ListFree, LockSelected,
     UndoSelect, SaveOutpoints, SignTx, MarkSigned, Rollback, MarkFailed, Submit, Commit,
     MarkBroadcast, MarkConfirmed, Restore, Demote, RestoreAgain
<1>3. calls[c].pc \notin {"reserve", "undoSelect", "rollback", "commit"} => nonces' = nonces
  BY Zenon DEF Step, At, Insert, CheckWhitelist, ReserveNonce, SaveNonce, ListFree, LockSelected,
     UndoSelect, SaveOutpoints, SignTx, MarkSigned, Rollback, MarkFailed, Submit, Commit,
     MarkBroadcast, MarkConfirmed, Restore, Demote, RestoreAgain
<1>4. ASSUME calls[c].pc # "saveNonce" PROVE wr'[id].nonce = wr[id].nonce
  <2>1. \/ wr' = wr
        \/ \E s : wr' = [wr EXCEPT ![id].state = s]
        \/ \E s : wr' = [wr EXCEPT ![id].ops = s]
        \/ \E s : wr' = [wr EXCEPT ![id].tx = s]
    BY Zenon, <1>4 DEF Step, At, Insert, CheckWhitelist, ReserveNonce, SaveNonce, ListFree,
       LockSelected,
       UndoSelect, SaveOutpoints, SignTx, MarkSigned, Rollback, MarkFailed, Submit, Commit,
       MarkBroadcast, MarkConfirmed, Restore, Demote, RestoreAgain, CreateWithdrawal,
       TryUpdateState, UpdateWithdrawalState
  <2>2. wr[id] \in WithdrawalRows
    BY <1>1
  <2>3. QED
    BY Zenon, <1>1, <2>1, <2>2 DEF WithdrawalRows
<1>5. QED
  BY Zenon, <1>2, <1>3, <1>4 DEF NonceEffect

\* Where a step takes the nonce of an EVM withdrawal.
NonceMove(c) ==
    LET k == calls[c]
        n == calls'[c]
        row == wr'[k.id]
        old == nonces[WalletOf[k.id]]
        new == nonces'[WalletOf[k.id]]
    IN
    /\ k.pc = "reserve" =>
          \/ n = Idle /\ new = old
          \/ n.pc = "saveNonce" /\ n.nonce = old.pending /\ new = IncrementPendingNonce(old)
    /\ k.pc = "saveNonce" => n.pc = "sign" /\ n.nonce = k.nonce /\ row.nonce = k.nonce
    /\ k.pc = "sign" => /\ n.nonce = k.nonce
                        /\ n.pc = "rollback" \/ (n.pc = "markSigned" /\ row.tx.nonce = k.nonce)
    /\ k.pc = "rollback" => /\ n.pc = "markFailed" \/ (n = Idle /\ k.op # "Broadcast")
                            /\ new = RollbackPendingNonce(old, k.nonce)
    /\ k.pc = "submit" => n.pc \in {"commit", "rollback"} /\ n.nonce = k.nonce
    /\ k.pc = "commit" => /\ n.pc = "markBroadcast" /\ n.nonce = k.nonce
                          /\ new = AdvanceBroadcastNonce(old, k.nonce)
    /\ k.pc = "markFailed" => row.state = "FAILED"

\* A payment is neither rolled back nor recorded as failed.
LEMMA PaidKeeps ==
    ASSUME TypeInv, PayoutInv, FitInv, LifeInv, NEW d \in Callers, Paid(calls[d].id, accepted)
    PROVE  calls[d].pc \notin {"rollback", "markFailed"}
<1> SUFFICES ASSUME calls[d].pc \in {"rollback", "markFailed"} PROVE FALSE
  OBVIOUS
<1> DEFINE id == calls[d].id
<1>1. id \in Ids /\ calls[d].op \in {"ConstructAndSign", "Broadcast"} /\ wr[id].state \in Late
  BY Zenon DEF TypeInv, CallsOK, CallOK, LifeInv, Paid, PayoutInv
<1>2. calls[d].op = "Broadcast" /\ wr[id].state = "SIGNED"
  BY Zenon, <1>1 DEF PayoutInv, FitInv, CallFits, Late
<1>3. PICK e \in Callers : calls[e].id = id /\ calls[e].pc \in {"commit", "markBroadcast"}
  BY Zenon, <1>1, <1>2 DEF LifeInv
<1>4. e # d /\ calls[e].op = "Broadcast"
  BY Zenon, <1>3 DEF TypeInv, CallsOK, CallOK
<1>5. QED
  BY Zenon, <1>2, <1>3, <1>4 DEF PayoutInv, DriverOps

\* A withdrawal uses the nonce it is paid with.
LEMMA PaidUses ==
    ASSUME TypeInv, PayoutInv, FitInv, LifeInv, NonceInv, NEW a \in accepted
    PROVE  a.id \in Ids /\ a.nonce \in Int /\ Using(a.nonce, a.id)
<1>1. a.id \in Ids /\ a.nonce \in Int /\ Paid(a.id, accepted)
  BY DEF TypeInv, TypeOK, Transactions, Paid
<1>2. wr[a.id].state \in Sent /\ wr[a.id].tx.nonce = a.nonce
  BY Zenon, <1>1 DEF PayoutInv, NonceInv, Late, Sent
<1>3. \A c \in Callers : calls[c].id = a.id => calls[c].pc # "markFailed"
  BY <1>1, PaidKeeps
<1>4. QED
  BY Zenon, <1>1, <1>2, <1>3 DEF Using, Uses

\* A nonce that a call holds, or that it broadcasts with, was handed out.
LEMMA HeldNonce ==
    ASSUME TypeInv, PayoutInv, FitInv, LifeInv, NonceInv, NEW c \in Callers,
           Chain(calls[c].id) = "evm", calls[c].pc \in NonceLabels \cup {"submit", "commit"}
    PROVE  calls[c].nonce \in Nat /\ Using(calls[c].nonce, calls[c].id)
<1> DEFINE k == calls[c]
<1>1. k.id \in Ids /\ k.nonce \in Int /\ CallOK(k)
  BY DEF TypeInv, TypeOK, CallsOK, CallOK, Calls, NonceLabels
<1>2. Using(k.nonce, k.id)
  <2>1. CASE k.pc \in NonceLabels
    BY <2>1 DEF Using, Uses
  <2>2. CASE k.pc \in {"submit", "commit"}
    <3>1. k.op = "Broadcast"
      BY <1>1, <2>2 DEF CallOK
    <3>2. wr[k.id].state = "SIGNED" /\ wr[k.id].tx.nonce = k.nonce
      BY Zenon, <2>2, <3>1 DEF FitInv, CallFits, NonceInv, NonceFits
    <3>3. ASSUME NEW d \in Callers, calls[d].id = k.id, calls[d].pc = "markFailed" PROVE FALSE
      <4>1. calls[d].op \in DriverOps /\ d # c
        BY Zenon, <2>2, <3>3 DEF TypeInv, CallsOK, CallOK, DriverOps
      <4>2. QED
        BY Zenon, <3>1, <3>3, <4>1 DEF PayoutInv, DriverOps
    <3>4. QED
      BY <3>2, <3>3 DEF Using, Uses, Sent
  <2>3. QED
    BY <2>1, <2>2
<1>3. 0 <= k.nonce
  BY Zenon, <1>1, <1>2 DEF NonceInv, UsesApart
<1>4. QED
  BY <1>1, <1>2, <1>3

\* The label of a call decides which step it takes.
LEMMA StepAt ==
    ASSUME NEW c \in Callers, Step(c)
    PROVE  /\ At(c, "reserve") => ReserveNonce(c)
           /\ At(c, "saveNonce") => SaveNonce(c)
           /\ At(c, "sign") => SignTx(c)
           /\ At(c, "rollback") => Rollback(c)
           /\ At(c, "markFailed") => MarkFailed(c)
           /\ At(c, "submit") => Submit(c)
           /\ At(c, "commit") => Commit(c)
<1>1. /\ Insert(c) => At(c, "insert")
      /\ CheckWhitelist(c) => At(c, "whitelist")
      /\ ReserveNonce(c) => At(c, "reserve")
      /\ SaveNonce(c) => At(c, "saveNonce")
      /\ ListFree(c) => At(c, "list")
      /\ LockSelected(c) => At(c, "lock")
      /\ UndoSelect(c) => At(c, "undoSelect")
      /\ SaveOutpoints(c) => At(c, "saveOutpoints")
      /\ SignTx(c) => At(c, "sign")
      /\ MarkSigned(c) => At(c, "markSigned")
  BY Zenon DEF Insert, CheckWhitelist, ReserveNonce, SaveNonce, ListFree, LockSelected,
     UndoSelect, SaveOutpoints, SignTx, MarkSigned
<1>2. Rollback(c) => At(c, "rollback")
  BY Zenon DEF Rollback
<1>3. Commit(c) => At(c, "commit")
  BY Zenon DEF Commit
<1>4. Restore(c) => At(c, "restore")
  BY DEF Restore
<1>5. /\ MarkFailed(c) => At(c, "markFailed")
      /\ Submit(c) => At(c, "submit")
      /\ MarkBroadcast(c) => At(c, "markBroadcast")
      /\ MarkConfirmed(c) => At(c, "markConfirmed")
      /\ Demote(c) => At(c, "demote")
  BY DEF MarkFailed, Submit, MarkBroadcast, MarkConfirmed, Demote
<1>6. RestoreAgain(c) => At(c, "restoreAgain")
  BY Zenon DEF RestoreAgain
<1>7. QED
  BY Zenon, <1>1, <1>2, <1>3, <1>4, <1>5, <1>6 DEF Step, At

\* NonceMove holds of every step on an EVM withdrawal.
LEMMA NonceMoves ==
    ASSUME Compensated, TypeInv, PayoutInv, Admits, FitInv, LifeInv, NonceInv,
           NEW c \in Callers, Step(c), Chain(calls[c].id) = "evm"
    PROVE  NonceMove(c)
<1> DEFINE id == calls[c].id
           k == calls[c]
           n == calls'[c]
           w == WalletOf[id]
<1>1. /\ calls \in [Callers -> Calls] /\ k \in Calls /\ CallOK(k) /\ id \in Ids
      /\ wr \in [Ids -> WithdrawalRows] /\ wr[id] \in WithdrawalRows
      /\ nonces \in [Wallets -> NonceRows] /\ w \in Wallets /\ ChainOf[w] = "evm"
  BY StepsBusy, ConstantTypes DEF TypeInv, TypeOK, CallsOK, Chain
<1>2. "lostwrite" \notin Faults /\ CallFits(k, wr[id], Paid(id, accepted))
  BY Zenon DEF Compensated, CleanFaults, FitInv
<1>3. ASSUME NEW l, Goto(c, l) PROVE n.pc = l /\ n.nonce = k.nonce
  <2>1. k \in Calls /\ n = [k EXCEPT !.pc = l]
    BY <1>1, <1>3, GotoCall
  <2>2. QED
    BY <2>1 DEF Calls
<1>4. ASSUME NEW then \in {"idle", "markFailed"}, StartRollback(c, k.ops, then)
      PROVE  n.pc = "rollback" /\ n.nonce = k.nonce
  <2>1. calls \in [Callers -> Calls] /\ k \in Calls
    BY Zenon, <1>1
  <2>2. n = [k EXCEPT !.pc = "rollback", !.rows = k.ops, !.then = then]
    BY <1>4, <2>1 DEF StartRollback, Calls
  <2>3. QED
    BY <2>1, <2>2 DEF Calls
<1>5. CASE k.pc = "reserve"
  <2>1. ReserveNonce(c)
    BY Zenon, <1>5, StepAt DEF At
  <2>2. CASE Return(c) /\ UNCHANGED nonces
    BY Zenon, <1>5, <2>2, ReturnCall DEF NonceMove
  <2>3. CASE /\ nonces' = [nonces EXCEPT ![w] = IncrementPendingNonce(nonces[w])]
             /\ calls' = [calls EXCEPT ![c].pc = "saveNonce", ![c].nonce = nonces[w].pending]
    <3>1. n.pc = "saveNonce" /\ n.nonce = nonces[w].pending
      BY <1>1, <2>3 DEF Calls
    <3>2. nonces'[w] = IncrementPendingNonce(nonces[w])
      BY <1>1, <2>3
    <3>3. QED
      BY Zenon, <1>5, <3>1, <3>2 DEF NonceMove
  <2>4. QED
    BY Zenon, <2>1, <2>2, <2>3 DEF ReserveNonce
<1>6. CASE k.pc = "saveNonce"
  <2>1. SaveNonce(c)
    BY Zenon, <1>6, StepAt DEF At
  <2>2. wr' = [wr EXCEPT ![id].nonce = k.nonce] /\ Goto(c, "sign")
    BY <1>2, <2>1 DEF SaveNonce
  <2>3. wr'[id].nonce = k.nonce
    BY <1>1, <2>2 DEF WithdrawalRows
  <2>4. QED
    BY <1>3, <1>6, <2>2, <2>3 DEF NonceMove
<1>7. CASE k.pc = "sign"
  <2>1. SignTx(c)
    BY Zenon, <1>7, StepAt DEF At
  <2>2. CASE wr' = [wr EXCEPT ![id].tx = Assemble(k)] /\ Goto(c, "markSigned")
    <3>1. wr'[id].tx.nonce = k.nonce
      BY <1>1, <2>2 DEF WithdrawalRows, Assemble
    <3>2. QED
      BY <1>3, <1>7, <2>2, <3>1 DEF NonceMove
  <2>3. CASE \E then \in {"idle", "markFailed"} : StartRollback(c, k.ops, then)
    BY Zenon, <1>4, <1>7, <2>3 DEF NonceMove
  <2>4. QED
    BY <2>1, <2>2, <2>3 DEF SignTx
<1>8. CASE k.pc = "rollback"
  <2>1. Rollback(c)
    BY Zenon, <1>8, StepAt DEF At
  <2>2. k.nonce \in Nat /\ k.rows = {}
    <3>1. k.nonce \in Nat
      BY Zenon, <1>8, HeldNonce DEF NonceLabels
    <3>2. k.op # "OnReorg"
      BY Zenon, <1>1, <1>8 DEF CallOK
    <3>3. QED
      BY Zenon, <1>2, <3>1, <3>2 DEF CallFits
  <2>3. nonces' = [nonces EXCEPT ![w] = RollbackPendingNonce(nonces[w], k.nonce)] /\ AfterRollback(c)
    <3>1. ChainOf[w] = "evm" /\ "lostwrite" \notin Faults
      BY Zenon, <1>1, <1>2
    <3>2. QED
      BY <2>1, <2>2, <3>1 DEF Rollback
  <2>4. nonces'[w] = RollbackPendingNonce(nonces[w], k.nonce)
    BY Zenon, <1>1, <2>3
  <2>5. n.pc = "markFailed" \/ (n = Idle /\ k.then # "markFailed")
    BY Zenon, <1>3, <2>3, ReturnCall DEF AfterRollback
  <2>6. k.op = "Broadcast" => k.then = "markFailed"
    BY Zenon, <1>2, <1>8 DEF CallFits
  <2>7. QED
    BY Zenon, <1>8, <2>4, <2>5, <2>6 DEF NonceMove
<1>9. CASE k.pc = "submit"
  <2>1. Submit(c)
    BY Zenon, <1>9, StepAt DEF At
  <2>2. CASE calls' = [calls EXCEPT ![c].pc = "commit", ![c].rows = k.ops]
    <3>1. n.pc = "commit" /\ n.nonce = k.nonce
      BY <1>1, <2>2 DEF Calls
    <3>2. QED
      BY Zenon, <1>9, <3>1 DEF NonceMove
  <2>3. CASE StartRollback(c, k.ops, "markFailed")
    BY Zenon, <1>4, <1>9, <2>3 DEF NonceMove
  <2>4. QED
    BY <2>1, <2>2, <2>3 DEF Submit
<1>10. CASE k.pc = "commit"
  <2>1. Commit(c)
    BY Zenon, <1>10, StepAt DEF At
  <2>2. k.nonce \in Nat
    BY Zenon, <1>10, HeldNonce
  <2>3. /\ nonces' = [nonces EXCEPT ![w] = AdvanceBroadcastNonce(nonces[w], k.nonce)]
        /\ Goto(c, "markBroadcast")
    <3>1. ChainOf[w] = "evm" /\ "lostwrite" \notin Faults
      BY Zenon, <1>1, <1>2
    <3>2. QED
      BY <2>1, <2>2, <3>1 DEF Commit
  <2>4. nonces'[w] = AdvanceBroadcastNonce(nonces[w], k.nonce)
    BY Zenon, <1>1, <2>3
  <2>5. QED
    BY Zenon, <1>3, <1>10, <2>3, <2>4 DEF NonceMove
<1>11. CASE k.pc = "markFailed"
  <2>1. MarkFailed(c)
    BY Zenon, <1>11, StepAt DEF At
  <2>2. wr' = [wr EXCEPT ![id].state = "FAILED"]
    BY <1>1, <2>1, Admitted, StateWriteMade DEF MarkFailed, InflightStates
  <2>3. wr'[id].state = "FAILED"
    BY <1>1, <2>2 DEF WithdrawalRows
  <2>4. QED
    BY Zenon, <1>11, <2>3 DEF NonceMove
<1>12. QED
  BY Zenon, <1>5, <1>6, <1>7, <1>8, <1>9, <1>10, <1>11 DEF NonceMove

\* A call that holds a nonce, or has just given one back, is its withdrawal's driver.
LEMMA NonceDriver ==
    ASSUME TypeInv, NEW d \in Callers, calls[d].pc \in NonceLabels \cup {"markFailed"}
    PROVE  calls[d].op \in DriverOps /\ calls[d].id \in Ids
BY Zenon DEF TypeInv, CallsOK, CallOK, ConstructLabels, DriverOps, NonceLabels

\* Where the driver of an EVM withdrawal can be.
LEMMA EvmLabels ==
    ASSUME TypeInv, FitInv, NEW c \in Callers, Step(c), Chain(calls[c].id) = "evm"
    PROVE  /\ calls[c].op = "ConstructAndSign" =>
                 calls[c].pc \in {"reserve", "saveNonce", "sign", "markSigned", "rollback", "markFailed"}
           /\ calls[c].op = "Broadcast" =>
                 calls[c].pc \in {"submit", "commit", "markBroadcast", "rollback", "markFailed"}
<1>1. calls[c].pc \in Labels \ {"idle"} /\ CallOK(calls[c])
  BY StepsBusy DEF TypeInv, TypeOK, CallsOK, Calls
<1>2. calls[c].pc \notin {"list", "lock", "undoSelect", "saveOutpoints"}
  BY Zenon, <1>1 DEF CallOK, Chain, FitInv, CallFits
<1>3. QED
  BY Zenon, <1>1, <1>2 DEF CallOK, Labels, ConstructLabels

\* A step leaves the nonces of other withdrawals alone.
LEMMA UsesElsewhere ==
    ASSUME TypeInv, NEW c \in Callers, Step(c), NEW j \in Ids, j # calls[c].id, NEW v,
           Uses(v, j, calls', wr')
    PROVE  Using(v, j)
<1>1. CallEffect(c) /\ RowEffect(c)
  BY CallEffects, RowEffects
<1>2. \A d \in Callers : calls'[d].id = j => calls'[d] = calls[d]
  <2>1. j # NoId
    BY ConstantTypes
  <2>2. QED
    BY <1>1, <2>1 DEF CallEffect, Idle
<1>3. \A d \in Callers : calls[d].id = j => calls'[d] = calls[d]
  BY Zenon, <1>1 DEF CallEffect
<1>4. wr'[j] = wr[j]
  BY Zenon, <1>1 DEF RowEffect
<1>5. QED
  BY Zenon, <1>2, <1>3, <1>4 DEF Using, Uses

\* A withdrawal comes to use a nonce only when ReserveNonce hands it out, and none
\* after a rollback.
LEMMA UsesHere ==
    ASSUME Compensated, TypeInv, TypeInv', PayoutInv, Admits, FitInv, LifeInv, NonceInv,
           NEW c \in Callers, Step(c), Chain(calls[c].id) = "evm", NEW v,
           Uses(v, calls[c].id, calls', wr')
    PROVE  /\ \/ Using(v, calls[c].id)
              \/ LET n == nonces[WalletOf[calls[c].id]] IN
                 v = n.pending /\ nonces'[WalletOf[calls[c].id]].pending = n.pending + 1
           /\ calls[c].pc # "rollback"
<1> DEFINE id == calls[c].id
           k == calls[c]
           n == calls'[c]
           old == nonces[WalletOf[id]]
           new == nonces'[WalletOf[id]]
           Fresh == v = old.pending /\ new.pending = old.pending + 1
<1>1. CallEffect(c) /\ RowEffect(c) /\ StateMove(c) /\ NonceMove(c) /\ CallOK(k) /\ id \in Ids
  BY Zenon, CallEffects, RowEffects, StateMoves, NonceMoves, StepsBusy DEF TypeInv, CallsOK
<1>2. ASSUME NEW d \in Callers, d # c, calls[d].id = id, k.op \in DriverOps
      PROVE  calls'[d] = calls[d] /\ calls[d].pc \notin NonceLabels \cup {"markFailed"}
  BY Zenon, <1>1, <1>2, NonceDriver DEF CallEffect, PayoutInv
<1>3. CallOK(n) /\ (n = Idle \/ (n.op = k.op /\ n.id = id /\ n.pc # "idle"))
  BY Zenon, <1>1 DEF CallEffect, TypeInv, CallsOK
\* The nonce is with a call.
<1>4. ASSUME NEW d \in Callers, calls'[d].id = id, calls'[d].pc \in NonceLabels, calls'[d].nonce = v
      PROVE  (Using(v, id) \/ Fresh) /\ k.pc # "rollback"
  <2>1. CASE d # c
    <3>1. calls'[d] = calls[d]
      BY Zenon, <1>1, <2>1 DEF CallEffect
    <3>2. Using(v, id)
      BY Zenon, <1>4, <3>1 DEF Using, Uses
    <3>3. k.op \notin DriverOps
      BY Zenon, <1>2, <1>4, <2>1, <3>1
    <3>4. QED
      BY Zenon, <1>1, <3>2, <3>3 DEF CallOK, DriverOps
  <2>2. CASE d = c
    <3>1. n.pc \in NonceLabels /\ n.nonce = v
      BY Zenon, <1>4, <2>2
    <3>2. k.op \in {"ConstructAndSign", "Broadcast"}
      <4>1. n # Idle
        BY <3>1 DEF Idle, NonceLabels
      <4>2. n.op = k.op /\ CallOK(n) /\ k.op # "Fail"
        BY Zenon, <1>3, <4>1 DEF LifeInv
      <4>3. QED
        BY <3>1, <4>2 DEF CallOK, ConstructLabels, NonceLabels
    <3>3. k.pc \in {"reserve", "saveNonce", "sign", "submit"}
      <4>1. k.pc \in {"reserve", "saveNonce", "sign", "submit", "markSigned", "rollback",
                      "markFailed", "commit", "markBroadcast"}
        BY Zenon, <3>2, EvmLabels
      <4>2. k.pc \notin {"markSigned", "markFailed", "markBroadcast"}
        BY <3>1, LastWrites DEF Idle, NonceLabels
      <4>3. n.pc \notin {"markFailed", "markBroadcast"} /\ n # Idle
        BY <3>1 DEF NonceLabels, Idle
      <4>4. k.pc # "rollback"
        BY Zenon, <1>1, <4>3 DEF NonceMove
      <4>5. k.pc # "commit"
        BY Zenon, <1>1, <4>3 DEF NonceMove
      <4>6. QED
        BY Zenon, <4>1, <4>2, <4>4, <4>5
    <3>4. CASE k.pc = "reserve"
      <4>1. v = old.pending /\ new = IncrementPendingNonce(old)
        <5>1. n # Idle
          BY <3>1 DEF Idle, NonceLabels
        <5>2. QED
          BY Zenon, <1>1, <3>1, <3>4, <5>1 DEF NonceMove
      <4>2. old \in NonceRows /\ 0 \in Nat
        BY Zenon, <1>1, ConstantTypes DEF TypeInv, TypeOK
      <4>3. new.pending = old.pending + 1
        BY Zenon, <4>1, <4>2, NonceFields
      <4>4. QED
        BY Zenon, <3>4, <4>1, <4>3
    <3>5. CASE k.pc \in {"saveNonce", "sign", "submit"}
      <4>1. k.nonce = v
        BY Zenon, <1>1, <3>1, <3>5 DEF NonceMove
      <4>2. QED
        BY Zenon, <3>5, <4>1, HeldNonce DEF NonceLabels
    <3>6. QED
      BY Zenon, <3>3, <3>4, <3>5
  <2>3. QED
    BY Zenon, <2>1, <2>2
\* The nonce is in the signed bytes.
<1>5. ASSUME wr'[id].state \in Sent, wr'[id].tx.nonce = v,
             \A d \in Callers : calls'[d].id = id => calls'[d].pc # "markFailed"
      PROVE  Using(v, id) /\ k.pc # "rollback"
  <2>1. k.op = "ConstructAndSign" => wr[id].state = "WHITELISTED"
    BY Zenon DEF PayoutInv
  <2>2. CASE wr[id].state \in Sent
    <3>1. wr'[id].tx = wr[id].tx
      BY Zenon, <1>1, <2>1, <2>2 DEF RowEffect, CallOK, ConstructLabels, Sent
    <3>2. k.pc # "markFailed"
      BY Zenon, <1>1, <1>5 DEF NonceMove, Sent
    <3>3. ASSUME NEW d \in Callers, calls[d].id = id PROVE calls[d].pc # "markFailed"
      <4>1. d # c => calls'[d] = calls[d]
        BY Zenon, <1>1 DEF CallEffect
      <4>2. QED
        BY Zenon, <1>5, <3>2, <3>3, <4>1
    <3>4. ASSUME k.pc = "rollback" PROVE FALSE
      <4>1. k.op = "Broadcast"
        BY Zenon, <1>1, <2>1, <2>2, <3>4 DEF CallOK, LifeInv, Sent
      <4>2. n.pc = "markFailed"
        BY Zenon, <1>1, <3>4, <4>1 DEF NonceMove
      <4>3. QED
        BY <1>3, <1>5, <4>2 DEF Idle
    <3>5. QED
      BY Zenon, <1>5, <2>2, <3>1, <3>3, <3>4 DEF Using, Uses
  <2>3. CASE wr[id].state \notin Sent
    <3>1. k.pc = "markSigned" /\ wr'[id].tx = wr[id].tx
      BY Zenon, <1>1, <1>5, <2>3 DEF StateMove, RowEffect, StateWritten, Sent
    <3>2. k.nonce = v
      BY Zenon, <1>5, <3>1 DEF NonceInv, NonceFits
    <3>3. QED
      BY Zenon, <3>1, <3>2, HeldNonce DEF NonceLabels
  <2>4. QED
    BY Zenon, <2>2, <2>3
<1>6. QED
  BY Zenon, <1>4, <1>5 DEF Uses

\* How a step of call k may change a nonce row, which may be the one it works on.
NonceBound(k, here, old, new) ==
    /\ old.pending \in Nat /\ old.broadcast \in Nat
    /\ new.pending \in Nat /\ new.broadcast \in Nat
    /\ \/ new.broadcast = old.broadcast
       \/ /\ here /\ k.pc = "commit" /\ new.broadcast = k.nonce + 1
          /\ new.broadcast >= old.broadcast
    /\ \/ new.pending >= old.pending
       \/ here /\ k.pc = "rollback" /\ old.pending = k.nonce + 1 /\ new.pending = k.nonce
    /\ here /\ k.pc = "commit" => k.nonce < new.broadcast

\* The nonce row of an EVM wallet over a step.
LEMMA NonceBounds ==
    ASSUME Compensated, TypeInv, TypeInv', PayoutInv, Admits, FitInv, LifeInv, NonceInv,
           NEW c \in Callers, Step(c), NEW w \in Wallets, ChainOf[w] = "evm"
    PROVE  NonceBound(calls[c], w = WalletOf[calls[c].id], nonces[w], nonces'[w])
<1> DEFINE k == calls[c]
           here == w = WalletOf[k.id]
           old == nonces[w]
           new == nonces'[w]
<1> SUFFICES NonceBound(k, here, old, new)
  OBVIOUS
<1>0. here => Chain(k.id) = "evm"
  BY DEF Chain
<1>1. NonceEffect(c) /\ CallOK(k) /\ k.id \in Ids
  BY NonceEffects, StepsBusy DEF TypeInv, CallsOK
<1>2. old \in NonceRows /\ new \in NonceRows
  BY DEF TypeInv, TypeOK
<1>3. /\ old.pending \in Nat /\ old.broadcast \in Nat
      /\ new.pending \in Nat /\ new.broadcast \in Nat
  BY <1>2 DEF NonceRows
<1>4. CASE new = old /\ ~(here /\ k.pc = "commit")
  BY <1>3, <1>4 DEF NonceBound
<1>5. CASE here /\ k.pc = "reserve"
  <2>1. new = old \/ new = IncrementPendingNonce(old)
    BY Zenon, <1>0, <1>5, NonceMoves DEF NonceMove
  <2>2. 0 \in Nat
    OBVIOUS
  <2>3. new = old \/ (new.pending = old.pending + 1 /\ new.broadcast = old.broadcast)
    BY Zenon, <1>2, <2>1, <2>2, NonceFields
  <2>4. QED
    <3> HIDE DEF k, here, old, new
    <3> QED
      BY <1>3, <1>5, <2>3 DEF NonceBound
<1>6. CASE here /\ k.pc = "rollback"
  <2>1. new = RollbackPendingNonce(old, k.nonce) /\ k.nonce \in Nat
    BY Zenon, <1>0, <1>6, NonceMoves, HeldNonce DEF NonceMove, NonceLabels
  <2>2. new.broadcast = old.broadcast /\ (new.pending = old.pending
                                          \/ (old.pending = k.nonce + 1 /\ new.pending = k.nonce))
    BY <1>2, <2>1, NonceFields
  <2>3. QED
    <3> HIDE DEF k, here, old, new
    <3> QED
      BY <1>3, <1>6, <2>2 DEF NonceBound
<1>7. CASE here /\ k.pc = "commit"
  <2>1. new = AdvanceBroadcastNonce(old, k.nonce) /\ k.nonce \in Nat
    BY Zenon, <1>0, <1>7, NonceMoves, HeldNonce DEF NonceMove
  <2>2. /\ new.pending = old.pending /\ new.broadcast \in {old.broadcast, k.nonce + 1}
        /\ new.broadcast >= old.broadcast /\ new.broadcast > k.nonce
    BY <1>2, <2>1, NonceFields
  <2>3. QED
    <3> HIDE DEF k, here, old, new
    <3> QED
      BY <1>3, <1>7, <2>1, <2>2 DEF NonceBound
<1>8. ASSUME ~(here /\ k.pc \in {"reserve", "rollback", "commit"}) PROVE new = old
  <2>1. CASE w # WalletOf[k.id]
    BY Zenon, <1>1, <2>1 DEF NonceEffect
  <2>2. CASE w = WalletOf[k.id]
    <3>1. k.pc # "undoSelect"
      BY Zenon, <1>1, <2>2 DEF CallOK
    <3>2. QED
      BY Zenon, <1>1, <1>8, <2>2, <3>1 DEF NonceEffect
  <2>3. QED
    BY <2>1, <2>2
<1>9. QED
  BY Zenon, <1>4, <1>5, <1>6, <1>7, <1>8

\* Nonces in use stay apart: a nonce that is handed out is in nobody's use, and a
\* rollback takes back the last one only, whose one user gives it up.
LEMMA UsesApartStep ==
    ASSUME Compensated, TypeInv, TypeInv', PayoutInv, Admits, FitInv, LifeInv, NonceInv,
           NEW c \in Callers, Step(c)
    PROVE  UsesApart'
<1> DEFINE k == calls[c]
<1> SUFFICES ASSUME NEW i \in Ids, NEW v \in Int, Chain(i) = "evm", Uses(v, i, calls', wr')
             PROVE  /\ 0 <= v /\ v < nonces'[WalletOf[i]].pending
                    /\ \A j \in Ids : WalletOf[j] = WalletOf[i] /\ Uses(v, j, calls', wr') => i = j
  BY Zenon DEF UsesApart, Using
<1> DEFINE w == WalletOf[i]
           old == nonces[w]
           new == nonces'[w]
           Fresh(j) == j = k.id /\ v = old.pending /\ new.pending = old.pending + 1
<1>1. w \in Wallets /\ ChainOf[w] = "evm"
  BY ConstantTypes DEF Chain
<1>2. NonceBound(k, w = WalletOf[k.id], old, new) /\ old.pending \in Nat /\ new.pending \in Nat
  BY Zenon, <1>1, NonceBounds DEF NonceBound
<1>3. ASSUME NEW j \in Ids, WalletOf[j] = w, Uses(v, j, calls', wr')
      PROVE  (Using(v, j) \/ Fresh(j)) /\ (j = k.id => k.pc # "rollback")
  <2>1. CASE j # k.id
    BY Zenon, <1>3, <2>1, UsesElsewhere
  <2>2. CASE j = k.id
    <3>1. Chain(calls[c].id) = "evm" /\ Uses(v, calls[c].id, calls', wr')
      BY Zenon, <1>1, <1>3, <2>2 DEF Chain
    <3>2. QED
      BY Zenon, <1>3, <2>2, <3>1, UsesHere
  <2>3. QED
    BY Zenon, <2>1, <2>2
<1>4. ASSUME NEW j \in Ids, WalletOf[j] = w, Using(v, j)
      PROVE  /\ 0 <= v /\ v < old.pending
             /\ \A l \in Ids : WalletOf[l] = w /\ Using(v, l) => l = j
  BY Zenon, <1>1, <1>4 DEF NonceInv, UsesApart, Chain
<1>5. CASE Using(v, i)
  <2>1. 0 <= v /\ v < old.pending
    BY Zenon, <1>4, <1>5
  <2>2. v < new.pending
    <3>1. CASE new.pending >= old.pending
      BY <1>2, <2>1, <3>1
    <3>2. CASE w = WalletOf[k.id] /\ k.pc = "rollback" /\ old.pending = k.nonce + 1 /\ new.pending = k.nonce
      <4>1. i # k.id
        BY Zenon, <1>3, <3>2
      <4>2. k.nonce \in Nat /\ Using(k.nonce, k.id) /\ k.id \in Ids
        BY Zenon, <1>1, <3>2, HeldNonce, StepsBusy DEF Chain, NonceLabels
      <4>3. v # k.nonce
        BY Zenon, <1>4, <1>5, <3>2, <4>1, <4>2
      <4>4. QED
        BY <2>1, <3>2, <4>2, <4>3
    <3>3. QED
      BY Zenon, <1>2, <3>1, <3>2 DEF NonceBound
  <2>3. ASSUME NEW j \in Ids, WalletOf[j] = w, Uses(v, j, calls', wr') PROVE i = j
    <3>1. v # old.pending
      BY <1>2, <2>1
    <3>2. Using(v, j)
      BY Zenon, <1>3, <2>3, <3>1
    <3>3. QED
      BY Zenon, <1>4, <1>5, <2>3, <3>2
  <2>4. QED
    BY Zenon, <2>1, <2>2, <2>3
<1>6. CASE Fresh(i)
  <2>1. old.pending \in Nat /\ v = old.pending /\ new.pending = old.pending + 1
    BY Zenon, <1>2, <1>6
  <2>2. 0 <= v /\ v < new.pending /\ ~(v < old.pending)
    BY <2>1
  <2>3. ASSUME NEW j \in Ids, WalletOf[j] = w, Uses(v, j, calls', wr') PROVE i = j
    <3>1. ASSUME Using(v, j) PROVE FALSE
      <4>1. v < old.pending
        BY Zenon, <1>4, <2>3, <3>1
      <4>2. QED
        BY <2>2, <4>1
    <3>2. QED
      BY Zenon, <1>3, <1>6, <2>3, <3>1
  <2>4. QED
    BY <2>2, <2>3
<1>7. QED
  BY Zenon, <1>3, <1>5, <1>6

\* Calls, rows and signed bytes go on agreeing on the nonce.
LEMMA NonceFitsStep ==
    ASSUME Compensated, TypeInv, TypeInv', PayoutInv, Admits, FitInv, LifeInv, NonceInv,
           NEW c \in Callers, Step(c), NEW d \in Callers
    PROVE  LET k == calls'[d] IN NonceFits(k, wr'[k.id], nonces'[WalletOf[k.id]])
<1> DEFINE id == calls[c].id
           k == calls[c]
           n == calls'[d]
           new == nonces'[WalletOf[n.id]]
<1> SUFFICES ASSUME n.pc # "idle", Chain(n.id) = "evm" PROVE NonceFits(n, wr'[n.id], new)
  BY Zenon DEF NonceFits
<1>1. /\ CallEffect(c) /\ RowEffect(c) /\ NonceEffect(c) /\ CallOK(k) /\ k.pc # "idle" /\ id \in Ids
      /\ CallOK(n) /\ n.id \in Ids
  BY Zenon, CallEffects, RowEffects, NonceEffects, StepsBusy DEF TypeInv, CallsOK, CallOK
<1>2. WalletOf[n.id] \in Wallets /\ ChainOf[WalletOf[n.id]] = "evm"
  BY Zenon, <1>1, ConstantTypes DEF Chain
<1>3. NonceBound(k, WalletOf[n.id] = WalletOf[id], nonces[WalletOf[n.id]], new)
  BY Zenon, <1>2, NonceBounds
<1>4. CASE d # c
  <2>1. n = calls[d] /\ NonceFits(n, wr[n.id], nonces[WalletOf[n.id]])
    BY Zenon, <1>1, <1>4 DEF CallEffect, NonceInv
  <2>2. ASSUME n.op \in DriverOps PROVE wr'[n.id].nonce = wr[n.id].nonce /\ wr'[n.id].tx = wr[n.id].tx
    <3>1. CASE n.id # id
      BY Zenon, <1>1, <3>1 DEF RowEffect
    <3>2. CASE n.id = id
      <4>1. k.op \notin DriverOps
        BY Zenon, <1>4, <2>1, <2>2, <3>2 DEF PayoutInv
      <4>2. k.pc \notin {"saveNonce", "sign"}
        BY Zenon, <1>1, <4>1 DEF CallOK, ConstructLabels, DriverOps
      <4>3. QED
        BY Zenon, <1>1, <3>2, <4>2 DEF RowEffect, NonceEffect
    <3>3. QED
      BY Zenon, <3>1, <3>2
  <2>3. n.pc \in {"sign", "markSigned", "markBroadcast"} => n.op \in DriverOps
    BY Zenon, <1>1 DEF CallOK, ConstructLabels, DriverOps
  <2>4. n.nonce \in Int
    <3>1. n \in Calls
      BY Zenon, <2>1 DEF TypeInv, TypeOK
    <3>2. QED
      BY <3>1 DEF Calls
  <2>5. n.pc = "markBroadcast" => n.nonce < new.broadcast
    <3>1. n.pc = "markBroadcast" => n.nonce < nonces[WalletOf[n.id]].broadcast
      BY Zenon, <2>1 DEF NonceFits
    <3>2. LET o == nonces[WalletOf[n.id]].broadcast IN
          o \in Nat /\ new.broadcast \in Nat /\ (new.broadcast = o \/ new.broadcast >= o)
      BY Zenon, <1>3 DEF NonceBound
    <3>3. QED
      BY <2>4, <3>1, <3>2
  <2>6. QED
    BY Zenon, <2>1, <2>2, <2>3, <2>5 DEF NonceFits, DriverOps
<1>5. CASE d = c
  <2>1. n = calls'[c] /\ n.op = k.op /\ n.id = id /\ Chain(id) = "evm"
    BY <1>1, <1>5 DEF CallEffect, Idle
  <2>2. NonceMove(c) /\ NonceFits(k, wr[id], nonces[WalletOf[id]])
    BY Zenon, <2>1, NonceMoves DEF NonceInv
  <2>3. k.pc \notin {"markSigned", "markFailed", "markBroadcast"}
    BY <2>1, LastWrites DEF Idle
  <2>4. CASE n.op = "ConstructAndSign"
    <3>1. k.pc \in {"reserve", "saveNonce", "sign", "rollback"}
      BY Zenon, <2>1, <2>3, <2>4, EvmLabels
    <3>2. CASE k.pc \in {"reserve", "rollback"}
      <4>1. n # Idle
        BY DEF Idle
      <4>2. n.pc \in {"saveNonce", "markFailed"}
        BY Zenon, <2>1, <2>2, <3>2, <4>1 DEF NonceMove
      <4>3. QED
        BY Zenon, <2>4, <4>2 DEF NonceFits
    <3>3. CASE k.pc = "saveNonce"
      BY Zenon, <1>1, <2>1, <2>2, <2>4, <3>3 DEF NonceMove, NonceFits
    <3>4. CASE k.pc = "sign"
      <4>1. wr'[id].nonce = k.nonce /\ n.nonce = k.nonce
        BY Zenon, <1>1, <2>1, <2>2, <3>4 DEF NonceEffect, NonceFits, NonceMove
      <4>2. n.pc = "rollback" \/ (n.pc = "markSigned" /\ wr'[id].tx.nonce = k.nonce)
        BY Zenon, <2>1, <2>2, <3>4 DEF NonceMove
      <4>3. QED
        BY Zenon, <2>1, <2>4, <4>1, <4>2 DEF NonceFits
    <3>5. QED
      BY Zenon, <3>1, <3>2, <3>3, <3>4
  <2>5. CASE n.op = "Broadcast"
    <3>1. k.pc \in {"submit", "commit", "rollback"} /\ wr'[id].tx = wr[id].tx
      <4>1. k.pc \in {"submit", "commit", "rollback"}
        BY Zenon, <2>1, <2>3, <2>5, EvmLabels
      <4>2. QED
        BY Zenon, <1>1, <4>1 DEF RowEffect
    <3>2. wr'[id].tx.nonce = k.nonce
      BY Zenon, <2>1, <2>2, <2>5, <3>1 DEF NonceFits
    <3>3. CASE k.pc = "rollback"
      <4>1. n.pc = "markFailed"
        BY Zenon, <2>1, <2>2, <2>5, <3>3 DEF NonceMove
      <4>2. QED
        BY Zenon, <4>1 DEF NonceFits
    <3>4. CASE k.pc = "submit"
      <4>1. n.pc \in {"commit", "rollback"} /\ n.nonce = k.nonce
        BY Zenon, <2>1, <2>2, <3>4 DEF NonceMove
      <4>2. QED
        BY Zenon, <2>1, <3>2, <4>1 DEF NonceFits
    <3>5. CASE k.pc = "commit"
      <4>1. n.pc = "markBroadcast" /\ n.nonce = k.nonce
        BY Zenon, <2>1, <2>2, <3>5 DEF NonceMove
      <4>2. k.nonce < new.broadcast
        BY Zenon, <1>3, <2>1, <3>5 DEF NonceBound
      <4>3. QED
        BY Zenon, <2>1, <3>2, <4>1, <4>2 DEF NonceFits
    <3>6. QED
      BY Zenon, <3>1, <3>3, <3>4, <3>5
  <2>6. CASE n.op \notin {"ConstructAndSign", "Broadcast"}
    BY Zenon, <1>1, <2>6 DEF NonceFits, CallOK, ConstructLabels
  <2>7. QED
    BY Zenon, <2>4, <2>5, <2>6
<1>6. QED
  BY <1>4, <1>5

\* The row of a signed withdrawal keeps its nonce, and the broadcast nonce has passed
\* it when the row says BROADCAST.
LEMMA RowNonceStep ==
    ASSUME Compensated, TypeInv, TypeInv', PayoutInv, Admits, FitInv, LifeInv, NonceInv,
           NEW c \in Callers, Step(c), NEW j \in Ids, Chain(j) = "evm"
    PROVE  RowNonce(wr'[j], nonces'[WalletOf[j]])
<1> DEFINE id == calls[c].id
           k == calls[c]
           old == nonces[WalletOf[j]]
           new == nonces'[WalletOf[j]]
<1>1. CallOK(k) /\ RowEffect(c) /\ StateMove(c) /\ NonceEffect(c) /\ id \in Ids
  BY Zenon, RowEffects, StateMoves, NonceEffects, StepsBusy DEF TypeInv, CallsOK
<1>2. RowNonce(wr[j], old)
  BY Zenon DEF NonceInv
<1>3. /\ new.broadcast >= old.broadcast /\ new.broadcast \in Nat /\ old.broadcast \in Nat
  <2>1. WalletOf[j] \in Wallets /\ ChainOf[WalletOf[j]] = "evm"
    BY ConstantTypes DEF Chain
  <2>2. NonceBound(k, WalletOf[j] = WalletOf[id], old, new)
    BY Zenon, <2>1, NonceBounds
  <2>3. QED
    BY <2>2 DEF NonceBound
<1>4. wr[j].tx.nonce \in Int
  BY DEF TypeInv, TypeOK, WithdrawalRows, Txs
\* A row that stays as it is.
<1>5. ASSUME wr'[j].tx = wr[j].tx, wr'[j].nonce = wr[j].nonce,
             \/ wr'[j].state = wr[j].state
             \/ {wr'[j].state, wr[j].state} \subseteq {"BROADCAST", "CONFIRMED"}
      PROVE  RowNonce(wr'[j], new)
  <2>1. wr[j].state \in {"BROADCAST", "CONFIRMED"} => wr[j].tx.nonce < new.broadcast
    BY <1>2, <1>3, <1>4 DEF RowNonce
  <2>2. QED
    BY Zenon, <1>2, <1>5, <2>1 DEF RowNonce
<1>6. CASE j # id
  <2>1. wr'[j] = wr[j]
    BY Zenon, <1>1, <1>6 DEF RowEffect
  <2>2. QED
    BY Zenon, <1>5, <2>1
<1>7. CASE j = id
  <2>1. NonceFits(k, wr[j], old) /\ k.pc # "idle"
    BY Zenon, <1>7, StepsBusy DEF NonceInv
  <2>2. k.op = "ConstructAndSign" => wr[j].state = "WHITELISTED"
    BY Zenon, <1>7 DEF PayoutInv
  <2>3. CASE wr'[j].state = wr[j].state
    <3>1. CASE k.pc \in {"saveNonce", "sign"}
      BY Zenon, <1>1, <2>2, <2>3, <3>1 DEF CallOK, ConstructLabels, RowNonce
    <3>2. CASE k.pc \notin {"saveNonce", "sign"}
      BY Zenon, <1>1, <1>5, <1>7, <2>3, <3>2 DEF RowEffect, NonceEffect
    <3>3. QED
      BY <3>1, <3>2
  <2>4. CASE wr'[j].state # wr[j].state
    <3>1. <<k.pc, wr'[j].state>> \in StateWritten
      BY Zenon, <1>1, <1>7, <2>4 DEF RowEffect
    <3>2. wr'[j].tx = wr[j].tx /\ wr'[j].nonce = wr[j].nonce
      BY Zenon, <1>1, <1>7, <3>1 DEF RowEffect, NonceEffect, StateWritten
    <3>3. CASE wr'[j].state = "SIGNED"
      <4>1. k.pc = "markSigned"
        BY <3>1, <3>3 DEF StateWritten
      <4>2. QED
        BY Zenon, <1>7, <2>1, <3>2, <3>3, <4>1 DEF NonceFits, RowNonce
    <3>4. CASE wr'[j].state = "BROADCAST" /\ wr[j].state = "SIGNED"
      <4>1. k.pc = "markBroadcast"
        <5>1. k.pc \in {"markBroadcast", "demote"}
          BY Zenon, <3>1, <3>4 DEF StateWritten
        <5>2. k.pc # "demote"
          BY Zenon, <1>1, <1>7, <3>4 DEF CallOK, FitInv, CallFits, LifeInv, Recorded
        <5>3. QED
          BY <5>1, <5>2
      <4>2. wr[j].tx.nonce = k.nonce /\ k.nonce < old.broadcast
        BY Zenon, <1>1, <1>7, <2>1, <4>1 DEF NonceFits, CallOK
      <4>3. wr'[j].tx.nonce < new.broadcast
        BY <1>3, <1>4, <3>2, <4>2
      <4>4. QED
        BY Zenon, <3>4, <4>3 DEF RowNonce
    <3>5. CASE {wr'[j].state, wr[j].state} \subseteq {"BROADCAST", "CONFIRMED"}
      BY Zenon, <1>5, <3>2, <3>5
    <3>6. CASE wr'[j].state \notin {"SIGNED", "BROADCAST", "CONFIRMED"}
      BY Zenon, <3>6 DEF RowNonce
    <3>7. QED
      BY Zenon, <1>1, <1>7, <2>4, <3>3, <3>4, <3>5, <3>6 DEF StateMove
  <2>5. QED
    BY Zenon, <2>3, <2>4
<1>8. QED
  BY Zenon, <1>6, <1>7

\* No payment is recorded as failed.
LEMMA PaidStep ==
    ASSUME TypeInv, PayoutInv, FitInv, LifeInv, NonceInv,
           NEW c \in Callers, Step(c), NEW j \in Ids, Paid(j, accepted')
    PROVE  wr'[j].state # "FAILED"
<1> DEFINE id == calls[c].id
<1>1. CallOK(calls[c]) /\ RowEffect(c) /\ StateMove(c) /\ HistoryEffect(c)
  BY RowEffects, StateMoves, HistoryEffects DEF TypeInv, CallsOK
<1>2. CASE Paid(j, accepted)
  <2>1. wr[j].state # "FAILED"
    BY Zenon, <1>2 DEF NonceInv
  <2>2. QED
    BY Zenon, <1>1, <1>2, <2>1 DEF RowEffect, StateMove
<1>3. CASE ~Paid(j, accepted)
  <2>1. calls[c].pc = "submit" /\ j = id
    <3>1. PICK a \in accepted' : a.id = j
      BY DEF Paid
    <3>2. a \notin accepted
      BY <1>3, <3>1 DEF Paid
    <3>3. QED
      BY <1>1, <3>1, <3>2 DEF HistoryEffect, TxOf
  <2>2. wr[j].state = "SIGNED"
    BY Zenon, <1>1, <2>1 DEF CallOK, FitInv, CallFits
  <2>3. QED
    BY Zenon, <1>1, <2>1, <2>2 DEF RowEffect, StateWritten
<1>4. QED
  BY Zenon, <1>2, <1>3

\* The broadcast nonce is past a nonce that was sent, which no rollback takes back.
LEMMA BroadcastSentStep ==
    ASSUME Compensated, TypeInv, TypeInv', PayoutInv, Admits, FitInv, LifeInv, NonceInv,
           NEW c \in Callers, Step(c), NEW w \in Wallets, ChainOf[w] = "evm"
    PROVE  BroadcastSent(w, nonces'[w], accepted')
<1> DEFINE id == calls[c].id
           k == calls[c]
           old == nonces[w]
           new == nonces'[w]
<1>1. NonceBound(k, w = WalletOf[id], old, new) /\ BroadcastSent(w, old, accepted) /\ id \in Ids
  BY Zenon, NonceBounds, StepsBusy DEF NonceInv
<1>2. accepted \subseteq accepted'
  BY Zenon, HistoryEffects DEF HistoryEffect
<1>3. CASE new.broadcast = old.broadcast
  <2>1. new.broadcast = 0 \/ \E a \in accepted' : WalletOf[a.id] = w /\ a.nonce = new.broadcast - 1
    BY Zenon, <1>1, <1>2, <1>3 DEF BroadcastSent
  <2>2. new.broadcast <= new.pending
    <3>1. CASE new.pending >= old.pending
      BY <1>1, <1>3, <3>1 DEF BroadcastSent, NonceBound
    <3>2. CASE w = WalletOf[id] /\ k.pc = "rollback" /\ old.pending = k.nonce + 1 /\ new.pending = k.nonce
      <4>1. Chain(id) = "evm" /\ k.nonce \in Nat /\ Using(k.nonce, id)
        BY Zenon, <3>2, HeldNonce DEF Chain, NonceLabels
      <4>2. ASSUME old.broadcast = k.nonce + 1 PROVE FALSE
        <5>1. PICK a \in accepted : WalletOf[a.id] = w /\ a.nonce = k.nonce
          <6>1. old.broadcast # 0 /\ old.broadcast - 1 = k.nonce
            BY <4>1, <4>2
          <6>2. QED
            BY Zenon, <1>1, <6>1 DEF BroadcastSent
        <5>2. a.id \in Ids /\ Using(k.nonce, a.id)
          BY Zenon, <5>1, PaidUses
        <5>3. k.nonce \in Int
          BY <4>1
        <5>4. a.id = id
          BY Zenon, <1>1, <3>2, <4>1, <5>1, <5>2, <5>3 DEF NonceInv, UsesApart
        <5>5. QED
          BY Zenon, <3>2, <5>1, <5>4, PaidKeeps DEF Paid
      <4>3. /\ old.broadcast <= k.nonce + 1 /\ old.broadcast \in Nat /\ k.nonce \in Nat
            /\ new.broadcast = old.broadcast /\ new.pending = k.nonce
        BY Zenon, <1>1, <1>3, <3>2, <4>1 DEF BroadcastSent, NonceBound
      <4>4. QED
        BY <4>2, <4>3
    <3>3. QED
      BY Zenon, <1>1, <3>1, <3>2 DEF NonceBound
  <2>3. QED
    BY Zenon, <2>1, <2>2 DEF BroadcastSent
<1>4. CASE w = WalletOf[id] /\ k.pc = "commit" /\ new.broadcast = k.nonce + 1
  <2>1. Chain(id) = "evm" /\ k.nonce \in Nat /\ Using(k.nonce, id)
    BY Zenon, <1>4, HeldNonce DEF Chain
  <2>2. k.nonce < old.pending
    <3>1. k.nonce \in Int
      BY <2>1
    <3>2. QED
      BY Zenon, <1>1, <1>4, <2>1, <3>1 DEF NonceInv, UsesApart
  <2>3. new.pending >= old.pending /\ new.pending \in Nat /\ old.pending \in Nat
    BY Zenon, <1>1, <1>4 DEF NonceBound
  <2>4. PICK a \in accepted : a.id = id
    BY Zenon, <1>4 DEF FitInv, CallFits, Paid
  <2>5. a.nonce = k.nonce
    <3>1. k.op = "Broadcast"
      <4>1. CallOK(k)
        BY Zenon DEF TypeInv, CallsOK
      <4>2. QED
        BY Zenon, <1>4, <4>1 DEF CallOK, ConstructLabels
    <3>2. wr[id].tx.nonce = k.nonce
      BY Zenon, <1>4, <2>1, <3>1 DEF NonceInv, NonceFits
    <3>3. QED
      BY Zenon, <2>4, <3>2 DEF PayoutInv
  <2>6. new.broadcast - 1 = k.nonce /\ new.broadcast <= new.pending
    <3>1. new.broadcast = k.nonce + 1 /\ k.nonce \in Nat
      BY Zenon, <1>4, <2>1
    <3>2. QED
      BY <2>2, <2>3, <3>1
  <2>7. QED
    BY Zenon, <1>2, <1>4, <2>4, <2>5, <2>6 DEF BroadcastSent
<1>5. QED
  BY Zenon, <1>1, <1>3, <1>4 DEF NonceBound

\* An operation that starts holds no nonce; a broadcast reads the one in the row.
LEMMA NonceStart ==
    ASSUME "Fail" \notin Ops, TypeInv, NonceInv, NEW c \in Callers, NEW id \in Ids, Start(c, id)
    PROVE  NonceInv'
<1> DEFINE n == calls'[c]
<1>1. StartEffect(c, id) /\ StartedCall(c, id)
  BY StartEffects, StartedCalls
<1>2. UNCHANGED <<wr, accepted, nonces>>
  BY Zenon DEF Start, StartCreate, StartConstruct, StartBroadcast, StartConfirm, StartFail,
     StartReorg
<1>3. /\ \A d \in Callers : d # c => calls'[d] = calls[d]
      /\ calls[c].pc = "idle" /\ n.id = id
  BY Zenon, <1>1 DEF StartEffect
<1>4. /\ n.pc \notin {"saveNonce", "markSigned", "rollback", "markFailed", "markBroadcast"}
      /\ Chain(id) = "evm" => n.pc # "sign"
      /\ n.op = "Broadcast" => wr[id].state = "SIGNED" /\ n.nonce = wr[id].nonce
  BY Zenon, <1>1 DEF StartEffect, StartedCall
<1>5. ASSUME NEW i \in Ids, NEW v, Chain(i) = "evm", Uses(v, i, calls', wr')
      PROVE  Using(v, i)
  <2>1. \A d \in Callers : calls'[d].id = i /\ calls'[d].pc \in NonceLabels => calls'[d] = calls[d]
    BY Zenon, <1>3, <1>4, <1>5 DEF NonceLabels
  <2>2. \A d \in Callers : calls[d].pc = "markFailed" => calls'[d] = calls[d]
    BY Zenon, <1>3
  <2>3. QED
    BY Zenon, <1>2, <1>5, <2>1, <2>2 DEF Using, Uses
<1>6. UsesApart'
  <2> SUFFICES ASSUME NEW i \in Ids, NEW v \in Int, Chain(i) = "evm", Uses(v, i, calls', wr')
               PROVE  /\ 0 <= v /\ v < nonces'[WalletOf[i]].pending
                      /\ \A j \in Ids : WalletOf[j] = WalletOf[i] /\ Uses(v, j, calls', wr') => i = j
    BY Zenon DEF UsesApart, Using
  <2>1. Using(v, i)
    BY <1>5
  <2>2. \A j \in Ids : WalletOf[j] = WalletOf[i] /\ Uses(v, j, calls', wr') => Using(v, j)
    BY Zenon, <1>5 DEF Chain
  <2>3. QED
    BY Zenon, <1>2, <2>1, <2>2 DEF NonceInv, UsesApart
<1>7. ASSUME NEW d \in Callers
      PROVE  LET k == calls'[d] IN NonceFits(k, wr'[k.id], nonces'[WalletOf[k.id]])
  <2>1. CASE d # c
    BY Zenon, <1>2, <1>3, <2>1 DEF NonceInv
  <2>2. CASE d = c
    <3>1. Chain(id) = "evm" /\ wr[id].state = "SIGNED" => wr[id].nonce = wr[id].tx.nonce
      BY Zenon DEF NonceInv, RowNonce
    <3>2. QED
      BY Zenon, <1>2, <1>3, <1>4, <2>2, <3>1 DEF NonceFits
  <2>3. QED
    BY Zenon, <2>1, <2>2
<1>8. QED
  BY Zenon, <1>2, <1>6, <1>7 DEF NonceInv

\* The rest of the service hands out more nonces at most.
LEMMA NonceEnvironment ==
    ASSUME Compensated, TypeInv, NonceInv, Environment \/ UNCHANGED vars
    PROVE  NonceInv'
<1>1. UNCHANGED <<wr, calls, accepted>>
  BY Zenon DEF Environment, AllocateNonce, UpdateWalletState, TrackUTXO, PruneFinalized, Crash,
     Compensated, CleanFaults, vars
<1>2. ASSUME NEW w \in Wallets
      PROVE  /\ nonces[w].pending \in Nat /\ nonces[w].broadcast \in Nat
             /\ nonces'[w].pending \in {nonces[w].pending, nonces[w].pending + 1}
             /\ nonces'[w].broadcast = nonces[w].broadcast
  <2>1. nonces \in [Wallets -> NonceRows] /\ nonces[w] \in NonceRows /\ 0 \in Nat
    BY DEF TypeInv, TypeOK
  <2>2. nonces'[w] \in {nonces[w], IncrementPendingNonce(nonces[w])}
    BY Zenon, <2>1 DEF Environment, AllocateNonce, UpdateWalletState, TrackUTXO, PruneFinalized,
       Crash, vars
  <2>3. QED
    BY Zenon, <2>1, <2>2, NonceFields
<1>3. ASSUME NEW i \in Ids PROVE WalletOf[i] \in Wallets /\ ChainOf[WalletOf[i]] = Chain(i)
  BY ConstantTypes DEF Chain
<1>4. UsesApart'
  <2> SUFFICES ASSUME NEW i \in Ids, NEW v \in Int, Chain(i) = "evm", Uses(v, i, calls', wr')
               PROVE  /\ 0 <= v /\ v < nonces'[WalletOf[i]].pending
                      /\ \A j \in Ids : WalletOf[j] = WalletOf[i] /\ Uses(v, j, calls', wr') => i = j
    BY Zenon DEF UsesApart, Using
  <2>1. \A j \in Ids : Uses(v, j, calls', wr') <=> Using(v, j)
    BY <1>1 DEF Using
  <2>2. /\ 0 <= v /\ v < nonces[WalletOf[i]].pending
        /\ \A j \in Ids : WalletOf[j] = WalletOf[i] /\ Using(v, j) => i = j
    BY Zenon, <2>1 DEF NonceInv, UsesApart
  <2>3. v < nonces'[WalletOf[i]].pending
    BY <1>2, <1>3, <2>2
  <2>4. QED
    BY Zenon, <2>1, <2>2, <2>3
<1>5. ASSUME NEW d \in Callers
      PROVE  LET k == calls'[d] IN NonceFits(k, wr'[k.id], nonces'[WalletOf[k.id]])
  <2> DEFINE k == calls[d]
  <2>1. NonceFits(k, wr[k.id], nonces[WalletOf[k.id]])
    BY Zenon DEF NonceInv
  <2>2. k.pc # "idle" => nonces'[WalletOf[k.id]].broadcast = nonces[WalletOf[k.id]].broadcast
    BY Zenon, <1>2, <1>3 DEF TypeInv, CallsOK, CallOK
  <2>3. QED
    BY Zenon, <1>1, <2>1, <2>2 DEF NonceFits
<1>6. ASSUME NEW i \in Ids, Chain(i) = "evm" PROVE RowNonce(wr'[i], nonces'[WalletOf[i]])
  BY Zenon, <1>1, <1>2, <1>3, <1>6 DEF NonceInv, RowNonce
<1>7. ASSUME NEW w \in Wallets, ChainOf[w] = "evm" PROVE BroadcastSent(w, nonces'[w], accepted')
  <2>1. BroadcastSent(w, nonces[w], accepted)
    BY Zenon, <1>7 DEF NonceInv
  <2>2. QED
    BY <1>1, <1>2, <2>1 DEF BroadcastSent
<1>8. QED
  BY Zenon, <1>1, <1>4, <1>5, <1>6, <1>7 DEF NonceInv

LEMMA NonceNext ==
    ASSUME "Fail" \notin Ops, Compensated
    PROVE  TypeInv /\ TypeInv' /\ PayoutInv /\ Admits /\ FitInv /\ LifeInv /\ NonceInv /\ [Next]_vars
               => NonceInv'
<1> SUFFICES ASSUME TypeInv, TypeInv', PayoutInv, Admits, FitInv, LifeInv, NonceInv, [Next]_vars
             PROVE  NonceInv'
  OBVIOUS
<1>1. ASSUME NEW c \in Callers, Step(c) PROVE NonceInv'
  <2>1. UsesApart'
    BY <1>1, UsesApartStep
  <2>2. \A d \in Callers : LET k == calls'[d] IN NonceFits(k, wr'[k.id], nonces'[WalletOf[k.id]])
    BY Zenon, <1>1, NonceFitsStep
  <2>3. \A j \in Ids : Chain(j) = "evm" => RowNonce(wr'[j], nonces'[WalletOf[j]])
    BY <1>1, RowNonceStep
  <2>4. \A j \in Ids : Paid(j, accepted') => wr'[j].state # "FAILED"
    BY <1>1, PaidStep
  <2>5. \A w \in Wallets : ChainOf[w] = "evm" => BroadcastSent(w, nonces'[w], accepted')
    BY <1>1, BroadcastSentStep
  <2>6. QED
    BY Zenon, <2>1, <2>2, <2>3, <2>4, <2>5 DEF NonceInv
<1>2. QED
  BY <1>1, NonceStart, NonceEnvironment DEF Next

\* NonceInv is an invariant of a saga that compensates, where Fail is not called.
LEMMA NoncesApart ==
    ASSUME Compensated, "Fail" \notin Ops
    PROVE  Spec => [](TypeInv /\ PayoutInv /\ FitInv /\ LifeInv /\ NonceInv)
<1>1. Init => LifeInv
  BY DEF Init, LifeInv, NoRow, Idle, Recorded
<1>2. Init => NonceInv
  <2> SUFFICES ASSUME Init PROVE NonceInv
    OBVIOUS
  <2>1. \A i \in Ids, v \in Int : ~Using(v, i)
    BY Zenon DEF Init, Using, Uses, Sent, NonceLabels, Idle, NoRow
  <2>2. \A c \in Callers : calls[c].pc = "idle"
    BY Zenon DEF Init, Idle
  <2>3. \A id \in Ids : wr[id].state \notin {"SIGNED", "BROADCAST", "CONFIRMED", "FAILED"}
    BY DEF Init, NoRow
  <2>4. \A w \in Wallets : BroadcastSent(w, nonces[w], accepted)
    BY DEF Init, BroadcastSent, NoNonceRow
  <2>5. QED
    BY Zenon, <2>1, <2>2, <2>3, <2>4 DEF NonceInv, UsesApart, NonceFits, RowNonce
<1>3. TypeInv /\ TypeInv' /\ PayoutInv /\ Admits /\ FitInv /\ LifeInv /\ [Next]_vars => LifeInv'
  BY LifeNext
<1>4. TypeInv /\ TypeInv' /\ PayoutInv /\ Admits /\ FitInv /\ LifeInv /\ NonceInv /\ [Next]_vars
          => NonceInv'
  BY NonceNext
<1>5. QED
  BY <1>1, <1>2, <1>3, <1>4, CallsFit, StatesAdmitted, PTL DEF Spec

\* ReserveNonce and RollbackNonce: whichever operations of an EVM wallet overlap, fail
\* and are compensated, are retried or reorged, no two withdrawals go out under the
\* same nonce, as long as Fail, which rolls back without looking, is not called.
THEOREM NoncesUnique ==
    ASSUME Compensated, "Fail" \notin Ops
    PROVE  Spec => []NonceUnique
<1>1. TypeInv /\ PayoutInv /\ FitInv /\ LifeInv /\ NonceInv => NonceUnique
  <2> SUFFICES ASSUME TypeInv, PayoutInv, FitInv, LifeInv, NonceInv, NEW w \in Wallets,
                      ChainOf[w] = "evm", NEW a \in OnWallet(w), NEW b \in OnWallet(w),
                      a.nonce = b.nonce
               PROVE  a = b
    BY DEF NonceUnique
  <2>1. a \in accepted /\ b \in accepted /\ WalletOf[a.id] = w /\ WalletOf[b.id] = w
    BY DEF OnWallet
  <2>2. a.id \in Ids /\ b.id \in Ids /\ a.nonce \in Int /\ Using(a.nonce, a.id) /\ Using(a.nonce, b.id)
    BY Zenon, <2>1, PaidUses
  <2>3. a.id = b.id
    BY Zenon, <2>1, <2>2 DEF NonceInv, UsesApart, Chain
  <2>4. a \in Transactions /\ b \in Transactions
    BY Zenon, <2>1 DEF TypeInv, TypeOK
  <2>5. a.ops = b.ops
    BY Zenon, <2>1, <2>3 DEF PayoutInv
  <2>6. QED
    BY <2>3, <2>4, <2>5 DEF Transactions
<1>2. QED
  BY <1>1, NoncesApart, PTL

\* CommitNonce: the broadcast nonce of an EVM wallet is past the nonce of everything
\* recorded as sent, and no rollback puts the pending nonce below it.
THEOREM CommitsCover ==
    ASSUME Compensated, "Fail" \notin Ops
    PROVE  Spec => []CommitCovers
<1>1. NonceInv => CommitCovers
  BY Zenon, ConstantTypes DEF NonceInv, CommitCovers, RowNonce, BroadcastSent, Chain
<1>2. QED
  BY <1>1, NoncesApart, PTL
=============================================================================

---------------------------- MODULE OutputProofs ----------------------------
(***************************************************************************)
(* The locks on Bitcoin outputs: proofs of OutpointExclusive,              *)
(* BroadcastSpent and NoLeakedLock, when operations on a withdrawal        *)
(* exclude each other, every failure is one the saga compensates, and no   *)
(* reorg gives spent outputs back.                                         *)
(***************************************************************************)
EXTENDS PayoutProofs

-----------------------------------------------------------------------------
(* Who holds an output *)

\* The outputs a call has locked and neither released nor spent.
HeldBy(k) ==
    CASE k.pc \in {"saveOutpoints", "sign", "markSigned", "submit"} -> k.ops
      [] k.pc \in {"rollback", "commit"} -> k.rows
      [] OTHER -> {}

\* The operation under way on a withdrawal holds its outputs, or else its row does.
Holds(o, id, cs, rows) ==
    \/ \E c \in Callers : cs[c].id = id /\ o \in HeldBy(cs[c])
    \/ /\ rows[id].state = "SIGNED" /\ o \in rows[id].ops
       /\ \A c \in Callers : cs[c].op \in DriverOps => cs[c].id # id

Holding(o, id) == Holds(o, id, calls, wr)

\* Each lock has one holder and a purpose; an output that went out in a
\* transaction is spent, or about to be.
OutputInv ==
    /\ \A c \in Callers : calls[c].op # "OnReorg"
    /\ \A o \in Outpoints, i, j \in Ids : Holding(o, i) /\ Holding(o, j) => i = j
    /\ \A o \in Outpoints, i \in Ids : Holding(o, i) => utxos[o] = "LOCKED"
    /\ "Fail" \notin Ops =>
          \A o \in Outpoints : utxos[o] = "LOCKED" => \E i \in Ids : Holding(o, i)
    /\ \A a \in accepted, o \in Outpoints : o \in a.ops =>
          \/ utxos[o] \in {"SPENT", "ABSENT"}
          \/ \E c \in Callers : calls[c].pc = "commit" /\ calls[c].id = a.id /\ o \in calls[c].rows
    /\ OutpointExclusive

\* What the withdrawal of c holds after a step of c.
NextHeld(c) ==
    LET row == wr'[calls[c].id] IN
    IF calls'[c] = Idle THEN IF row.state = "SIGNED" THEN row.ops ELSE {}
    ELSE HeldBy(calls'[c])

\* A step locks free outputs, or releases or spends some it holds, or keeps them.
LockEffect(c) ==
    LET held == HeldBy(calls[c]) IN
    \/ NextHeld(c) = held /\ UNCHANGED utxos
    \/ /\ calls[c].pc = "lock"
       /\ \A o \in NextHeld(c) : utxos[o] = "FREE"
       /\ utxos' = WithRows(utxos, NextHeld(c), "LOCKED")
    \/ \E S \in SUBSET held, s \in {"FREE", "SPENT"} :
          /\ calls[c].pc = IF s = "FREE" THEN "rollback" ELSE "commit"
          /\ NextHeld(c) = held \ S
          /\ utxos' = WithRows(utxos, S, s)

\* LockEffect holds of every step of a driver when writes are not lost.
LEMMA LockEffects ==
    ASSUME Compensated, TypeInv, PayoutInv, Admits, FitInv, OutputInv, NEW c \in Callers, Step(c)
    PROVE  LockEffect(c)
<1> DEFINE id == calls[c].id
           k == calls[c]
           held == HeldBy(k)
<1>1. calls \in [Callers -> Calls] /\ k \in Calls /\ wr \in [Ids -> WithdrawalRows] /\ CallOK(k)
  BY DEF TypeInv, TypeOK, CallsOK
<1>2. CallFits(k, wr[id], Paid(id, accepted)) /\ k.op # "OnReorg"
  BY DEF FitInv, OutputInv
<1>3. k.pc # "idle" /\ id \in Ids
  BY StepsBusy
<1>4. wr[id] \in WithdrawalRows
  BY <1>1, <1>3
<1>5. ASSUME calls'[c] = Idle, wr'[id].state # "SIGNED", UNCHANGED utxos, held = {}
      PROVE  LockEffect(c)
  BY <1>5 DEF LockEffect, NextHeld
<1>6. ASSUME calls'[c] # Idle, HeldBy(calls'[c]) = held, UNCHANGED utxos
      PROVE  LockEffect(c)
  BY <1>6 DEF LockEffect, NextHeld
\* Before a lock, after a release and between, nothing is held.
<1>7. CASE Insert(c)
  <2>1. held = {} /\ UNCHANGED utxos /\ wr[id].state # "SIGNED" /\ k.op = "Create"
    BY <1>1, <1>7 DEF Insert, At, HeldBy, CallOK, PayoutInv
  <2>2. CASE Goto(c, "whitelist")
    <3>1. calls'[c] = [k EXCEPT !.pc = "whitelist"]
      BY <2>2, GotoCall
    <3>2. calls'[c].pc = "whitelist"
      BY <1>1, <3>1 DEF Calls
    <3>3. QED
      BY <1>6, <2>1, <3>2 DEF HeldBy, Idle
  <2>3. CASE Return(c) /\ UNCHANGED wr
    BY <1>5, <2>1, <2>3, ReturnCall
  <2>4. QED
    BY <1>7, <2>2, <2>3 DEF Insert
\* A state that is written for sure.
<1>8. ASSUME NEW s, TryUpdateState(id, s), s \in InflightStates => wr[id].state \in InflightStates
      PROVE  wr'[id].state = s /\ wr'[id].ops = wr[id].ops
  <2>1. wr' = [wr EXCEPT ![id].state = s]
    BY <1>3, <1>8, Admitted, StateWriteMade
  <2>2. wr'[id] = [wr[id] EXCEPT !.state = s]
    BY <1>1, <1>3, <2>1
  <2>3. QED
    BY <1>4, <2>2 DEF WithdrawalRows
<1>9. CASE CheckWhitelist(c)
  <2>1. held = {} /\ UNCHANGED utxos /\ wr[id].state \in {"NONE", "PENDING"} /\ calls'[c] = Idle
    BY <1>1, <1>9, ReturnCall DEF CheckWhitelist, At, HeldBy, CallOK, PayoutInv
  <2>2. wr'[id].state # "SIGNED"
    BY <1>9, <2>1, RowEffects DEF RowEffect, StateWritten, CheckWhitelist, At
  <2>3. QED
    BY <1>5, <2>1, <2>2
<1>10. CASE MarkFailed(c)
  <2>1. held = {} /\ UNCHANGED utxos /\ calls'[c] = Idle
    BY <1>10, ReturnCall DEF MarkFailed, At, HeldBy
  <2>2. wr'[id].state = "FAILED"
    BY <1>8, <1>10 DEF MarkFailed, InflightStates
  <2>3. QED
    BY <1>5, <2>1, <2>2
<1>11. CASE MarkBroadcast(c)
  <2>1. held = {} /\ UNCHANGED utxos /\ calls'[c] = Idle /\ wr[id].state = "SIGNED"
    BY <1>1, <1>2, <1>11, ReturnCall DEF MarkBroadcast, At, HeldBy, CallOK, CallFits
  <2>2. wr'[id].state = "BROADCAST"
    BY <1>8, <1>11, <2>1 DEF MarkBroadcast, InflightStates
  <2>3. QED
    BY <1>5, <2>1, <2>2
<1>12. CASE MarkConfirmed(c)
  <2>1. /\ held = {} /\ UNCHANGED utxos /\ calls'[c] = Idle
        /\ wr[id].state \in {"BROADCAST", "CONFIRMED", "FAILED"}
    BY <1>1, <1>2, <1>12, ReturnCall DEF MarkConfirmed, At, HeldBy, CallOK, CallFits
  <2>2. wr'[id].state # "SIGNED"
    BY <1>12, <2>1, RowEffects DEF RowEffect, StateWritten, MarkConfirmed, At
  <2>3. QED
    BY <1>5, <2>1, <2>2
<1>13. CASE MarkSigned(c)
  <2>1. /\ held = k.ops /\ k.ops = wr[id].ops /\ UNCHANGED utxos /\ calls'[c] = Idle
        /\ wr[id].state = "WHITELISTED"
    BY <1>1, <1>2, <1>13, ReturnCall
       DEF MarkSigned, At, HeldBy, CallOK, CallFits, ConstructLabels, PayoutInv
  <2>2. wr'[id].state = "SIGNED" /\ wr'[id].ops = wr[id].ops
    BY <1>8, <1>13, <2>1 DEF MarkSigned, InflightStates
  <2>3. QED
    BY <2>1, <2>2 DEF LockEffect, NextHeld
\* Construction works on a WHITELISTED row.
<1>14. k.op = "ConstructAndSign" => wr[id].state = "WHITELISTED"
  BY DEF PayoutInv
<1>15. CASE ReserveNonce(c)
  <2>1. held = {} /\ UNCHANGED <<wr, utxos>> /\ wr[id].state = "WHITELISTED"
    BY <1>1, <1>14, <1>15 DEF ReserveNonce, At, HeldBy, CallOK, ConstructLabels
  <2>2. \/ calls'[c] = Idle
        \/ \E n : calls' = [calls EXCEPT ![c].pc = "saveNonce", ![c].nonce = n]
    BY <1>15, ReturnCall DEF ReserveNonce
  <2>3. calls'[c] = Idle \/ calls'[c].pc = "saveNonce"
    BY <1>1, <2>2 DEF Calls
  <2>4. QED
    BY Zenon, <1>5, <1>6, <2>1, <2>3 DEF HeldBy, Idle
<1>16. CASE SaveNonce(c)
  <2>1. held = {} /\ UNCHANGED utxos /\ k.ops = {}
    BY <1>1, <1>2, <1>16 DEF SaveNonce, At, HeldBy, CallFits
  <2>2. calls'[c] = [k EXCEPT !.pc = "sign"]
    BY <1>16, GotoCall DEF SaveNonce
  <2>3. calls'[c].pc = "sign" /\ calls'[c].ops = {}
    BY <1>1, <2>1, <2>2 DEF Calls
  <2>4. QED
    BY <1>6, <2>1, <2>3 DEF HeldBy, Idle
<1>17. CASE ListFree(c)
  <2>1. held = {} /\ UNCHANGED utxos
    BY <1>17 DEF ListFree, At, HeldBy
  <2>2. \/ calls'[c] = [k EXCEPT !.pc = "undoSelect"]
        \/ \E S : calls' = [calls EXCEPT ![c].pc = "lock", ![c].ops = S]
    BY Zenon, <1>17, GotoCall DEF ListFree
  <2>3. calls'[c].pc = "undoSelect" \/ calls'[c].pc = "lock"
    BY <1>1, <2>2 DEF Calls
  <2>4. calls'[c] # Idle /\ HeldBy(calls'[c]) = {}
    BY <2>3 DEF HeldBy, Idle
  <2>5. QED
    BY <1>6, <2>1, <2>4
<1>18. CASE LockSelected(c)
  <2>1. held = {} /\ k.pc = "lock"
    BY <1>18 DEF LockSelected, At, HeldBy
  <2>2. CASE Lockable(utxos, k.ops) /\ utxos' = LockUTXOs(utxos, k.ops) /\ Goto(c, "saveOutpoints")
    <3>1. calls'[c] = [k EXCEPT !.pc = "saveOutpoints"]
      BY <2>2, GotoCall
    <3>2. calls'[c].pc = "saveOutpoints" /\ calls'[c].ops = k.ops
      BY <1>1, <3>1 DEF Calls
    <3>3. NextHeld(c) = k.ops
      BY <3>2 DEF NextHeld, HeldBy, Idle
    <3>4. QED
      BY <2>1, <2>2, <3>3 DEF LockEffect, Lockable, LockUTXOs
  <2>3. CASE UNCHANGED utxos /\ Goto(c, "undoSelect")
    <3>1. calls'[c] = [k EXCEPT !.pc = "undoSelect"]
      BY <2>3, GotoCall
    <3>2. calls'[c].pc = "undoSelect"
      BY <1>1, <3>1 DEF Calls
    <3>3. QED
      BY <1>6, <2>1, <2>3, <3>2 DEF HeldBy, Idle
  <2>4. QED
    BY <1>18, <2>2, <2>3 DEF LockSelected
<1>19. CASE UndoSelect(c)
  <2>1. held = {} /\ UNCHANGED <<utxos, wr>> /\ calls'[c] = Idle /\ wr[id].state = "WHITELISTED"
    BY <1>1, <1>14, <1>19, ReturnCall DEF UndoSelect, At, HeldBy, CallOK, ConstructLabels
  <2>2. QED
    BY <1>5, <2>1
\* A rollback starts with all that is held.
<1>20. ASSUME NEW then, StartRollback(c, k.ops, then), UNCHANGED utxos, held = k.ops
       PROVE  LockEffect(c)
  <2>1. calls'[c].pc = "rollback" /\ calls'[c].rows = k.ops
    BY <1>1, <1>20 DEF StartRollback, Calls
  <2>2. QED
    BY <1>6, <1>20, <2>1 DEF HeldBy, Idle
<1>21. ASSUME NEW l \in {"sign", "markSigned"}, Goto(c, l), UNCHANGED utxos, held = k.ops
       PROVE  LockEffect(c)
  <2>1. calls'[c] = [k EXCEPT !.pc = l]
    BY <1>21, GotoCall
  <2>2. calls'[c].pc = l /\ calls'[c].ops = k.ops
    BY <1>1, <2>1 DEF Calls
  <2>3. QED
    BY <1>6, <1>21, <2>2 DEF HeldBy, Idle
<1>22. CASE SaveOutpoints(c)
  <2>1. held = k.ops /\ UNCHANGED utxos
    BY <1>22 DEF SaveOutpoints, At, HeldBy
  <2>2. QED
    BY <1>20, <1>21, <1>22, <2>1 DEF SaveOutpoints
<1>23. CASE SignTx(c)
  <2>1. held = k.ops /\ UNCHANGED utxos
    BY <1>23 DEF SignTx, At, HeldBy
  <2>2. Goto(c, "markSigned") \/ \E then : StartRollback(c, k.ops, then)
    BY <1>23 DEF SignTx
  <2>3. QED
    BY <1>20, <1>21, <2>1, <2>2
<1>24. CASE Submit(c)
  <2>1. held = k.ops /\ UNCHANGED utxos
    BY <1>24 DEF Submit, At, HeldBy
  <2>2. CASE calls' = [calls EXCEPT ![c].pc = "commit", ![c].rows = k.ops]
    <3>1. calls'[c].pc = "commit" /\ calls'[c].rows = k.ops
      BY <1>1, <2>2 DEF Calls
    <3>2. QED
      BY <1>6, <2>1, <3>1 DEF HeldBy, Idle
  <2>3. QED
    BY <1>20, <1>24, <2>1, <2>2 DEF Submit
\* The rows of a loop are there, so that it leaves none out.
<1>25. ASSUME k.pc \in {"rollback", "commit"}, NEW batch \in LoopBatches(Backend, utxos, k.rows)
       PROVE  /\ batch \subseteq k.rows /\ Tracked(utxos, batch) = batch
              /\ LoopDone(Backend, k.rows, batch) => batch = k.rows
  <2>1. \A o \in k.rows : utxos[o] = "LOCKED"
    <3> SUFFICES ASSUME NEW o \in k.rows PROVE utxos[o] = "LOCKED"
      OBVIOUS
    <3>1. o \in Outpoints /\ o \in HeldBy(k)
      BY <1>1, <1>25 DEF Calls, HeldBy
    <3>2. Holding(o, id)
      BY <3>1 DEF Holding, Holds
    <3>3. QED
      BY <1>3, <3>1, <3>2 DEF OutputInv
  <2>2. Tracked(utxos, k.rows) = k.rows
    BY <2>1 DEF Tracked
  <2>3. batch \subseteq k.rows /\ (LoopDone(Backend, k.rows, batch) => batch = k.rows)
    BY <1>25, <2>2, ConstantTypes DEF LoopBatches, LoopDone
  <2>4. QED
    BY <2>1, <2>3 DEF Tracked
<1>26. ASSUME NEW batch \in SUBSET k.rows, held = k.rows, NEW s \in {"FREE", "SPENT"},
              k.pc = IF s = "FREE" THEN "rollback" ELSE "commit",
              utxos' = WithRows(utxos, batch, s), NextHeld(c) = k.rows \ batch
       PROVE  LockEffect(c)
  BY <1>26 DEF LockEffect
<1>27. ASSUME NEW batch, calls' = [calls EXCEPT ![c].rows = @ \ batch], k.pc \in {"rollback", "commit"}
       PROVE  NextHeld(c) = k.rows \ batch
  <2>1. calls'[c].pc = k.pc /\ calls'[c].rows = k.rows \ batch
    BY <1>1, <1>27 DEF Calls
  <2>2. QED
    BY <1>27, <2>1 DEF NextHeld, HeldBy, Idle
<1>28. CASE Rollback(c)
  <2>1. held = k.rows /\ k.pc = "rollback" /\ wr' = wr
    BY <1>28 DEF Rollback, At, HeldBy
  \* What follows a rollback holds nothing.
  <2>2. AfterRollback(c) => NextHeld(c) = {}
    <3>1. CASE k.then = "markFailed" /\ Goto(c, "markFailed")
      <4>1. calls'[c] = [k EXCEPT !.pc = "markFailed"]
        BY <3>1, GotoCall
      <4>2. calls'[c].pc = "markFailed"
        BY <1>1, <4>1 DEF Calls
      <4>3. QED
        BY <4>2 DEF NextHeld, HeldBy, Idle
    <3>2. CASE k.then # "markFailed" /\ Return(c)
      <4>1. k.op = "ConstructAndSign"
        BY <1>1, <1>2, <2>1, <3>2 DEF CallOK, CallFits
      <4>2. wr'[id].state # "SIGNED" /\ calls'[c] = Idle
        BY <1>14, <2>1, <3>2, <4>1, ReturnCall
      <4>3. QED
        BY <4>2 DEF NextHeld
    <3>3. QED
      BY <3>1, <3>2 DEF AfterRollback
  <2>3. CASE RowLoop(c, RestoreUTXOs, AfterRollback(c))
    <3>1. PICK batch \in LoopBatches(Backend, utxos, k.rows) :
            /\ utxos' = RestoreUTXOs(utxos, batch)
            /\ IF LoopDone(Backend, k.rows, batch) THEN AfterRollback(c)
               ELSE calls' = [calls EXCEPT ![c].rows = @ \ batch]
      BY <2>3 DEF RowLoop
    <3>2. /\ batch \subseteq k.rows /\ Tracked(utxos, batch) = batch
          /\ LoopDone(Backend, k.rows, batch) => batch = k.rows
      BY <1>25, <2>1
    <3>3. NextHeld(c) = k.rows \ batch
      BY <1>27, <2>1, <2>2, <3>1, <3>2
    <3>4. utxos' = WithRows(utxos, batch, "FREE")
      BY <3>1, <3>2 DEF RestoreUTXOs
    <3>5. QED
      BY <1>26, <2>1, <3>2, <3>3, <3>4
  <2>4. CASE k.rows = {} /\ AfterRollback(c) /\ UNCHANGED utxos
    BY <2>1, <2>2, <2>4 DEF LockEffect
  <2>5. "lostwrite" \notin Faults
    BY DEF Compensated, CleanFaults
  <2>6. ChainOf[WalletOf[id]] = "evm" => k.rows = {}
    BY <1>2 DEF CallFits, Chain
  <2>7. QED
    BY <1>28, <2>3, <2>4, <2>5, <2>6 DEF Rollback
<1>29. CASE Commit(c)
  <2>1. held = k.rows /\ k.pc = "commit"
    BY <1>29 DEF Commit, At, HeldBy
  <2>2. Goto(c, "markBroadcast") => NextHeld(c) = {}
    <3> SUFFICES ASSUME Goto(c, "markBroadcast") PROVE NextHeld(c) = {}
      OBVIOUS
    <3>1. calls'[c] = [k EXCEPT !.pc = "markBroadcast"]
      BY GotoCall
    <3>2. calls'[c].pc = "markBroadcast"
      BY <1>1, <3>1 DEF Calls
    <3>3. QED
      BY <3>2 DEF NextHeld, HeldBy, Idle
  <2>3. CASE RowLoop(c, MarkUTXOsSpent, Goto(c, "markBroadcast"))
    <3>1. PICK batch \in LoopBatches(Backend, utxos, k.rows) :
            /\ utxos' = MarkUTXOsSpent(utxos, batch)
            /\ IF LoopDone(Backend, k.rows, batch) THEN Goto(c, "markBroadcast")
               ELSE calls' = [calls EXCEPT ![c].rows = @ \ batch]
      BY <2>3 DEF RowLoop
    <3>2. /\ batch \subseteq k.rows /\ Tracked(utxos, batch) = batch
          /\ LoopDone(Backend, k.rows, batch) => batch = k.rows
      BY <1>25, <2>1
    <3>3. NextHeld(c) = k.rows \ batch
      BY <1>27, <2>1, <2>2, <3>1, <3>2
    <3>4. utxos' = WithRows(utxos, batch, "SPENT")
      BY <3>1, <3>2 DEF MarkUTXOsSpent
    <3>5. QED
      BY <1>26, <2>1, <3>2, <3>3, <3>4
  <2>4. CASE k.rows = {} /\ Goto(c, "markBroadcast") /\ UNCHANGED utxos
    BY <2>1, <2>2, <2>4 DEF LockEffect
  <2>5. "lostwrite" \notin Faults
    BY DEF Compensated, CleanFaults
  <2>6. ChainOf[WalletOf[id]] # "bitcoin" => k.rows = {}
    BY <1>2 DEF CallFits, Chain
  <2>7. QED
    BY <1>29, <2>3, <2>4, <2>5, <2>6 DEF Commit
<1>30. CASE Restore(c) \/ Demote(c) \/ RestoreAgain(c)
  BY Zenon, <1>1, <1>2, <1>30 DEF Restore, Demote, RestoreAgain, At, CallOK, CallFits
<1>31. QED
  BY <1>7, <1>9, <1>10, <1>11, <1>12, <1>13, <1>15, <1>16, <1>17, <1>18, <1>19, <1>22, <1>23,
     <1>24, <1>28, <1>29, <1>30 DEF Step

\* Only drivers hold outputs.
LEMMA HoldersDrive == ASSUME NEW k, CallOK(k), HeldBy(k) # {} PROVE k.op \in DriverOps
BY DEF CallOK, HeldBy, ConstructLabels, DriverOps

\* A step of c changes what its own withdrawal holds, from HeldBy to NextHeld.
LEMMA HoldingStep ==
    ASSUME TypeInv, TypeInv', PayoutInv, FitInv, OutputInv, NEW c \in Callers, Step(c)
    PROVE  LET id == calls[c].id IN
           /\ \A o : Holding(o, id) <=> o \in HeldBy(calls[c])
           /\ \A o : Holds(o, id, calls', wr') <=> o \in NextHeld(c)
           /\ \A o : \A j \in Ids : j # id => (Holds(o, j, calls', wr') <=> Holding(o, j))
<1> DEFINE id == calls[c].id
<1>1. CallEffect(c) /\ RowEffect(c)
  BY CallEffects, RowEffects
<1>2. /\ \A d \in Callers : HeldBy(calls[d]) # {} => calls[d].op \in DriverOps
      /\ \A d \in Callers : HeldBy(calls'[d]) # {} => calls'[d].op \in DriverOps
  BY HoldersDrive DEF TypeInv, CallsOK
<1>3. /\ \A d \in Callers : d # c /\ {calls[c].op, calls[d].op} \subseteq DriverOps => calls[d].id # id
      /\ \A d \in Callers : d # c => calls'[d] = calls[d]
  BY <1>1 DEF PayoutInv, CallEffect
<1>4. ASSUME NEW o, NEW j \in Ids, j # id PROVE Holds(o, j, calls', wr') <=> Holding(o, j)
  <2>1. wr'[j] = wr[j] /\ calls[c].id # j /\ calls'[c].id # j
    BY <1>1, <1>4, ConstantTypes DEF RowEffect, CallEffect, Idle
  <2>2. QED
    BY <1>3, <2>1 DEF Holding, Holds
<1>5. CASE calls[c].op \in DriverOps
  <2>1. \A o : Holding(o, id) <=> o \in HeldBy(calls[c])
    BY <1>2, <1>3, <1>5 DEF Holding, Holds
  <2>2. CASE calls'[c] = Idle
    <3>1. \A d \in Callers : calls'[d].op \in DriverOps => calls'[d].id # id
      BY <1>3, <1>5, <2>2 DEF Idle, DriverOps
    <3>2. \A o : Holds(o, id, calls', wr') <=> wr'[id].state = "SIGNED" /\ o \in wr'[id].ops
      BY <1>2, <3>1 DEF Holds
    <3>3. QED
      BY <1>4, <2>1, <2>2, <3>2 DEF NextHeld
  <2>3. CASE calls'[c] # Idle
    <3>1. calls'[c].op \in DriverOps /\ calls'[c].id = id
      BY <1>1, <1>5, <2>3 DEF CallEffect
    <3>2. \A d \in Callers : d # c /\ calls'[d].op \in DriverOps => calls'[d].id # calls'[c].id
      BY <1>3, <1>5, <3>1
    <3>3. \A o : Holds(o, id, calls', wr') <=> o \in HeldBy(calls'[c])
      BY <1>2, <3>1, <3>2 DEF Holds
    <3>4. QED
      BY <1>4, <2>1, <2>3, <3>3 DEF NextHeld
  <2>4. QED
    BY <2>2, <2>3
\* A callback finds a withdrawal that is broadcast, and nobody holds anything for it.
<1>6. CASE calls[c].op \notin DriverOps
  <2>1. CallOK(calls[c]) /\ calls[c] \in Calls /\ CallFits(calls[c], wr[id], Paid(id, accepted))
    BY DEF TypeInv, TypeOK, CallsOK, FitInv
  <2>2. calls[c].pc = "markConfirmed" /\ calls[c].op = "Confirm" /\ id \in Ids
    BY Zenon, <1>6, <2>1, StepsBusy DEF CallOK, OutputInv, Calls, Labels, DriverOps, ConstructLabels
  <2>3. wr[id].state \in {"BROADCAST", "CONFIRMED", "FAILED"}
    BY <2>1, <2>2 DEF CallFits
  <2>4. wr'[id].state \in {"BROADCAST", "CONFIRMED", "FAILED"} /\ calls'[c] = Idle
    BY <1>1, <2>2, <2>3, LastWrites DEF RowEffect, StateWritten
  <2>5. HeldBy(calls[c]) = {} /\ NextHeld(c) = {}
    BY <2>2, <2>4 DEF HeldBy, NextHeld
  <2>6. ASSUME NEW d \in Callers, calls[d].id = id PROVE HeldBy(calls[d]) = {}
    <3>1. CallOK(calls[d]) /\ CallFits(calls[d], wr[id], Paid(id, accepted))
      BY <2>6 DEF TypeInv, CallsOK, FitInv
    <3>2. calls[d].op \notin {"Create", "ConstructAndSign", "Broadcast"}
      BY Zenon, <2>3, <2>6, <3>1 DEF PayoutInv, CallFits
    <3>3. QED
      BY <3>1, <3>2, HoldersDrive DEF CallOK, CallFits, HeldBy, ConstructLabels, DriverOps
  <2>7. \A o : ~Holding(o, id)
    BY <2>3, <2>6 DEF Holding, Holds
  <2>8. \A o : ~Holds(o, id, calls', wr')
    <3>1. \A d \in Callers : calls'[d].id = id => HeldBy(calls'[d]) = {}
      BY <1>3, <2>4, <2>6 DEF Idle, HeldBy
    <3>2. QED
      BY <2>4, <3>1 DEF Holds
  <2>9. QED
    BY <1>4, <2>5, <2>7, <2>8
<1>7. QED
  BY <1>5, <1>6

\* A step of the saga preserves OutputInv.
LEMMA OutputStep ==
    ASSUME Compensated, TypeInv, TypeInv', PayoutInv, Admits, FitInv, OutputInv,
           NEW c \in Callers, Step(c)
    PROVE  OutputInv'
<1> DEFINE id == calls[c].id
           held == HeldBy(calls[c])
           H(o, j) == Holds(o, j, calls', wr')
<1>1. LockEffect(c) /\ CallEffect(c) /\ HistoryEffect(c)
  BY LockEffects, CallEffects, HistoryEffects
<1>2. /\ \A o : Holding(o, id) <=> o \in held
      /\ \A o : H(o, id) <=> o \in NextHeld(c)
      /\ \A o : \A j \in Ids : j # id => (H(o, j) <=> Holding(o, j))
  BY HoldingStep
<1>3. /\ calls[c].pc = "commit" => calls'[c].pc = "commit" \/ calls'[c].pc = "markBroadcast"
      /\ accepted' # accepted =>
            calls'[c].pc = "commit" /\ calls'[c].id = id /\ calls'[c].rows = calls[c].ops
  BY CommitStep
<1>4. id \in Ids /\ utxos \in [Outpoints -> UtxoStates] /\ CallOK(calls[c]) /\ calls[c] \in Calls
  BY StepsBusy DEF TypeInv, TypeOK, CallsOK
<1>5. \A S, s : \A o \in Outpoints : WithRows(utxos, S, s)[o] = IF o \in S THEN s ELSE utxos[o]
  BY <1>4 DEF WithRows
<1>6. /\ \A o \in Outpoints, i, j \in Ids : Holding(o, i) /\ Holding(o, j) => i = j
      /\ \A o \in Outpoints, i \in Ids : Holding(o, i) => utxos[o] = "LOCKED"
  BY DEF OutputInv
\* What the step does to one output.
<1>7. ASSUME NEW o \in Outpoints
      PROVE  \/ /\ o \in NextHeld(c) <=> o \in held
                /\ utxos'[o] = utxos[o]
             \/ /\ o \in NextHeld(c) /\ o \notin held
                /\ utxos[o] = "FREE" /\ utxos'[o] = "LOCKED"
             \/ /\ o \in held /\ o \notin NextHeld(c) /\ utxos[o] = "LOCKED"
                /\ \/ calls[c].pc = "rollback" /\ utxos'[o] = "FREE"
                   \/ calls[c].pc = "commit" /\ utxos'[o] = "SPENT"
  <2>1. CASE NextHeld(c) = held /\ UNCHANGED utxos
    BY <2>1
  <2>2. CASE /\ calls[c].pc = "lock"
             /\ \A q \in NextHeld(c) : utxos[q] = "FREE"
             /\ utxos' = WithRows(utxos, NextHeld(c), "LOCKED")
    <3>1. held = {}
      BY <2>2 DEF HeldBy
    <3>2. QED
      BY <1>5, <2>2, <3>1
  <2>3. ASSUME NEW S \in SUBSET held, NEW s \in {"FREE", "SPENT"},
               calls[c].pc = IF s = "FREE" THEN "rollback" ELSE "commit",
               NextHeld(c) = held \ S, utxos' = WithRows(utxos, S, s)
        PROVE  \/ /\ o \in NextHeld(c) <=> o \in held
                  /\ utxos'[o] = utxos[o]
               \/ /\ o \in held /\ o \notin NextHeld(c) /\ utxos[o] = "LOCKED"
                  /\ \/ calls[c].pc = "rollback" /\ utxos'[o] = "FREE"
                     \/ calls[c].pc = "commit" /\ utxos'[o] = "SPENT"
    <3>1. utxos'[o] = IF o \in S THEN s ELSE utxos[o]
      BY <1>5, <2>3
    <3>2. CASE o \in S
      BY Zenon, <1>2, <1>4, <1>6, <2>3, <3>1, <3>2
    <3>3. CASE o \notin S
      BY <2>3, <3>1, <3>3
    <3>4. QED
      BY <3>2, <3>3
  <2>4. QED
    BY Zenon, <1>1, <2>1, <2>2, <2>3 DEF LockEffect
<1>8. \A o \in Outpoints, i, j \in Ids : H(o, i) /\ H(o, j) => i = j
  BY <1>2, <1>4, <1>6, <1>7
<1>9. \A o \in Outpoints, i \in Ids : H(o, i) => utxos'[o] = "LOCKED"
  BY <1>2, <1>4, <1>6, <1>7
<1>10. ASSUME "Fail" \notin Ops, NEW o \in Outpoints, utxos'[o] = "LOCKED"
       PROVE  \E i \in Ids : H(o, i)
  <2>1. CASE o \in NextHeld(c)
    BY <1>2, <1>4, <2>1
  <2>2. CASE o \notin NextHeld(c)
    <3>1. utxos[o] = "LOCKED" /\ o \notin held
      BY <1>7, <1>10, <2>2
    <3>2. PICK i \in Ids : Holding(o, i)
      BY <1>10, <3>1 DEF OutputInv
    <3>3. QED
      BY <1>2, <3>1, <3>2
  <2>3. QED
    BY <2>1, <2>2
<1>11. ASSUME NEW a \in accepted', a \notin accepted
       PROVE  a.id = id /\ a.ops = calls[c].ops /\ calls[c].pc = "submit"
  <2>1. calls[c].pc = "submit" /\ a = TxOf(c)
    BY <1>1, <1>11 DEF HistoryEffect
  <2>2. CallFits(calls[c], wr[id], Paid(id, accepted))
    BY DEF FitInv
  <2>3. QED
    BY Zenon, <2>1, <2>2 DEF CallFits, TxOf
<1>12. ASSUME NEW a \in accepted', NEW o \in Outpoints, o \in a.ops
       PROVE  \/ utxos'[o] \in {"SPENT", "ABSENT"}
              \/ \E d \in Callers : calls'[d].pc = "commit" /\ calls'[d].id = a.id /\ o \in calls'[d].rows
  <2>1. CASE a \in accepted /\ utxos[o] \in {"SPENT", "ABSENT"}
    BY <1>7, <2>1
  <2>2. ASSUME a \in accepted, NEW d \in Callers,
               calls[d].pc = "commit", calls[d].id = a.id, o \in calls[d].rows
        PROVE  \/ utxos'[o] \in {"SPENT", "ABSENT"}
               \/ /\ calls'[d].pc = "commit" /\ calls'[d].id = a.id /\ o \in calls'[d].rows
    <3>1. CASE d # c
      BY <1>1, <2>2, <3>1 DEF CallEffect
    <3>2. CASE d = c /\ o \in NextHeld(c)
      <4>1. calls'[c].pc = "commit"
        BY <1>3, <2>2, <3>2 DEF NextHeld, HeldBy, Idle
      <4>2. calls'[c] # Idle /\ calls'[c].id = id
        BY <1>1, <4>1 DEF CallEffect, Idle
      <4>3. o \in calls'[c].rows
        BY <3>2, <4>1, <4>2 DEF NextHeld, HeldBy
      <4>4. QED
        BY <2>2, <3>2, <4>1, <4>2, <4>3
    <3>3. CASE d = c /\ o \notin NextHeld(c)
      <4>1. o \in held
        BY <2>2, <3>3 DEF HeldBy
      <4>2. QED
        BY <1>7, <2>2, <3>3, <4>1
    <3>4. QED
      BY <3>1, <3>2, <3>3
  <2>3. CASE a \notin accepted
    BY <1>3, <1>11, <2>3, <1>12
  <2>4. QED
    BY <1>12, <2>1, <2>2, <2>3 DEF OutputInv
\* A transaction that goes out spends what only its withdrawal holds.
<1>13. ASSUME NEW a \in accepted', a \notin accepted, NEW b \in accepted, b.id # a.id
       PROVE  a.ops \cap b.ops = {}
  <2> SUFFICES ASSUME NEW o \in a.ops, o \in b.ops PROVE FALSE
    OBVIOUS
  <2>1. b.id \in Ids /\ o \in Outpoints
    BY DEF TypeInv, TypeOK, Transactions
  <2>2. a.id = id /\ o \in held /\ Holding(o, id)
    BY <1>2, <1>13, <1>11 DEF HeldBy
  <2>3. utxos[o] = "LOCKED"
    BY <1>4, <1>6, <2>1, <2>2
  <2>4. PICK d \in Callers : calls[d].pc = "commit" /\ calls[d].id = b.id /\ o \in calls[d].rows
    BY <2>1, <2>3 DEF OutputInv
  <2>5. Holding(o, b.id)
    BY <2>4 DEF Holding, Holds, HeldBy
  <2>6. QED
    BY <1>4, <1>6, <1>13, <2>1, <2>2, <2>5
<1>14. OutpointExclusive'
  <2> SUFFICES ASSUME NEW a \in accepted', NEW b \in accepted', a.id # b.id PROVE a.ops \cap b.ops = {}
    BY DEF OutpointExclusive
  <2>1. CASE a \in accepted /\ b \in accepted
    BY <2>1 DEF OutputInv, OutpointExclusive
  <2>2. CASE a \notin accepted /\ b \in accepted
    BY <1>13, <2>2
  <2>3. CASE a \in accepted /\ b \notin accepted
    BY <1>13, <2>3
  <2>4. CASE a \notin accepted /\ b \notin accepted
    BY <1>11, <2>4
  <2>5. QED
    BY <2>1, <2>2, <2>3, <2>4
<1>15. \A d \in Callers : calls'[d].op # "OnReorg"
  BY <1>1 DEF CallEffect, Idle, OutputInv
<1>16. QED
  BY <1>8, <1>9, <1>10, <1>12, <1>14, <1>15 DEF OutputInv, Holding

\* Starting an operation passes what the row holds to it; only Fail drops it.
LEMMA OutputStart ==
    ASSUME Compensated, "OnReorg" \notin Ops, TypeInv, TypeInv', FitInv, OutputInv,
           NEW c \in Callers, NEW id \in Ids, Start(c, id)
    PROVE  OutputInv'
<1> DEFINE k == calls'[c]
           H(o, j) == Holds(o, j, calls', wr')
<1>1. StartEffect(c, id) /\ StartedCall(c, id) /\ UNCHANGED <<wr, accepted>>
  BY Zenon, StartEffects, StartedCalls DEF StartEffect
<1>2. UNCHANGED utxos
  <2>1. /\ StartCreate(c, id) => UNCHANGED utxos
        /\ StartConstruct(c, id) => UNCHANGED utxos
        /\ StartBroadcast(c, id) => UNCHANGED utxos
    BY DEF StartCreate, StartConstruct, StartBroadcast
  <2>2. /\ StartConfirm(c, id) => UNCHANGED utxos
        /\ StartFail(c, id) => UNCHANGED utxos
    BY DEF StartConfirm, StartFail
  <2>3. ~StartReorg(c, id)
    <3>1. StartReorg(c, id) => "OnReorg" \in Ops
      BY DEF StartReorg, Begin
    <3>2. QED
      BY <3>1
  <2>4. QED
    BY <2>1, <2>2, <2>3 DEF Start
<1>3. calls[c].op \notin DriverOps /\ HeldBy(calls[c]) = {}
  BY <1>1 DEF StartEffect, TypeInv, CallsOK, CallOK, HeldBy, DriverOps
<1>4. ASSUME NEW o, NEW j \in Ids, j # id PROVE H(o, j) <=> Holding(o, j)
  BY Zenon, <1>1, <1>3, <1>4 DEF StartEffect, Holding, Holds
<1>5. HeldBy(k) = IF k.op = "Broadcast" THEN wr[id].ops ELSE {}
  BY <1>1 DEF StartedCall, HeldBy
<1>6. ASSUME NEW o
      PROVE  /\ H(o, id) => Holding(o, id)
             /\ Holding(o, id) /\ "Fail" \notin Ops => H(o, id)
  <2>1. CASE k.op \notin DriverOps
    BY Zenon, <1>1, <1>3, <1>5, <2>1 DEF StartEffect, Holding, Holds, DriverOps
  <2>2. CASE k.op \in DriverOps
    <3>1. \A d \in Callers : calls[d].op \in DriverOps => calls[d].id # id
      BY <1>1, <2>2 DEF StartEffect, Busy, Compensated
    <3>2. \A d \in Callers : calls[d].id = id => HeldBy(calls[d]) = {}
      BY <3>1, HoldersDrive DEF TypeInv, CallsOK
    <3>3. Holding(o, id) <=> wr[id].state = "SIGNED" /\ o \in wr[id].ops
      BY <3>1, <3>2 DEF Holding, Holds
    <3>4. H(o, id) <=> o \in HeldBy(k)
      BY <1>1, <2>2, <3>2 DEF StartEffect, Holds
    <3>5. k.op = "Broadcast" => wr[id].state = "SIGNED"
      BY <1>1 DEF StartEffect
    <3>6. wr[id].state = "SIGNED" /\ "Fail" \notin Ops => k.op = "Broadcast"
      BY Zenon, <1>1, <2>2 DEF StartEffect, StartedCall, DriverOps
    <3>7. QED
      BY Zenon, <1>5, <3>3, <3>4, <3>5, <3>6
  <2>3. QED
    BY <2>1, <2>2
<1>7. \A d \in Callers : calls[d].pc = "commit" => calls'[d] = calls[d]
  BY Zenon, <1>1 DEF StartEffect
<1>8. OutpointExclusive'
  BY <1>1 DEF OutputInv, OutpointExclusive
<1>9. \A o \in Outpoints, i, j \in Ids : H(o, i) /\ H(o, j) => i = j
  <2>1. \A o : \A j \in Ids : H(o, j) => Holding(o, j)
    BY <1>4, <1>6
  <2>2. QED
    BY <2>1 DEF OutputInv
<1>10. \A o \in Outpoints, i \in Ids : H(o, i) => utxos'[o] = "LOCKED"
  <2>1. \A o : \A j \in Ids : H(o, j) => Holding(o, j)
    BY <1>4, <1>6
  <2>2. QED
    BY <1>2, <2>1 DEF OutputInv
<1>11. ASSUME "Fail" \notin Ops
       PROVE  \A o \in Outpoints : utxos'[o] = "LOCKED" => \E i \in Ids : H(o, i)
  <2>1. \A o : \A j \in Ids : Holding(o, j) => H(o, j)
    BY <1>4, <1>6, <1>11
  <2>2. QED
    BY <1>2, <1>11, <2>1 DEF OutputInv
<1>12. ASSUME NEW a \in accepted', NEW o \in Outpoints, o \in a.ops
       PROVE  \/ utxos'[o] \in {"SPENT", "ABSENT"}
              \/ \E d \in Callers :
                    calls'[d].pc = "commit" /\ calls'[d].id = a.id /\ o \in calls'[d].rows
  <2>1. \/ utxos[o] \in {"SPENT", "ABSENT"}
        \/ \E d \in Callers : calls[d].pc = "commit" /\ calls[d].id = a.id /\ o \in calls[d].rows
    BY <1>1, <1>12 DEF OutputInv
  <2>2. QED
    BY <1>2, <1>7, <2>1
<1>13. \A d \in Callers : calls'[d].op # "OnReorg"
  BY Zenon, <1>1 DEF StartEffect, StartedCall, OutputInv
<1>14. QED
  BY Zenon, <1>8, <1>9, <1>10, <1>11, <1>12, <1>13 DEF OutputInv, Holding

\* Tracking adds a free output that no transaction spent; pruning removes spent
\* outputs only, because Broadcast has committed once the row is BROADCAST.
LEMMA OutputEnvironment ==
    ASSUME Compensated, TypeInv, FitInv, OutputInv, Environment
    PROVE  OutputInv'
<1>1. UNCHANGED <<wr, calls, accepted>>
  BY DEF Environment, AllocateNonce, UpdateWalletState, TrackUTXO, PruneFinalized, Crash,
     Compensated, CleanFaults
<1>2. \A o, j : Holds(o, j, calls', wr') <=> Holding(o, j)
  BY <1>1 DEF Holding
<1>3. utxos \in [Outpoints -> UtxoStates]
  BY DEF TypeInv, TypeOK
<1>4. ASSUME NEW o \in Outpoints
      PROVE  \/ utxos'[o] = utxos[o]
             \/ utxos[o] = "ABSENT" /\ utxos'[o] = "FREE" /\ \A a \in accepted : o \notin a.ops
             \/ utxos[o] = "SPENT" /\ utxos'[o] = "ABSENT"
  <2>1. CASE UNCHANGED utxos
    BY <2>1
  <2>2. ASSUME NEW p \in Outpoints, TrackUTXO(p)
        PROVE  \/ utxos'[o] = utxos[o]
               \/ utxos[o] = "ABSENT" /\ utxos'[o] = "FREE" /\ \A a \in accepted : o \notin a.ops
    BY <1>3, <2>2 DEF TrackUTXO, InsertUTXO, WithRows
  <2>3. ASSUME NEW a \in accepted, PruneFinalized(a)
        PROVE  \/ utxos'[o] = utxos[o]
               \/ utxos[o] = "SPENT" /\ utxos'[o] = "ABSENT"
    <3>1. PICK pruned \in SUBSET Tracked(utxos, a.ops) : utxos' = PruneUTXOs(utxos, pruned)
      BY <2>3 DEF PruneFinalized
    <3>2. \A d \in Callers : calls[d].id = a.id => calls[d].pc # "commit"
      BY Zenon, <2>3 DEF PruneFinalized, FitInv, CallFits, TypeInv, CallsOK, CallOK
    <3>3. o \in pruned => utxos[o] = "SPENT"
      BY Zenon, <3>1, <3>2 DEF OutputInv, Tracked
    <3>4. utxos'[o] = IF o \in pruned THEN "ABSENT" ELSE utxos[o]
      BY <1>3, <3>1 DEF PruneUTXOs, WithRows
    <3>5. QED
      BY <3>3, <3>4
  <2>4. UNCHANGED utxos \/ (\E p \in Outpoints : TrackUTXO(p)) \/ (\E a \in accepted : PruneFinalized(a))
    BY Zenon DEF Environment, AllocateNonce, UpdateWalletState, Crash
  <2>5. QED
    BY <2>1, <2>2, <2>3, <2>4
<1>5. \A o \in Outpoints : utxos'[o] = "LOCKED" <=> utxos[o] = "LOCKED"
  BY <1>4
<1>6. \A a \in accepted', o \in Outpoints : o \in a.ops =>
          \/ utxos'[o] \in {"SPENT", "ABSENT"}
          \/ \E d \in Callers : calls'[d].pc = "commit" /\ calls'[d].id = a.id /\ o \in calls'[d].rows
  BY Zenon, <1>1, <1>4 DEF OutputInv
<1>7. OutpointExclusive'
  BY <1>1 DEF OutputInv, OutpointExclusive
<1>8. \A d \in Callers : calls'[d].op # "OnReorg"
  BY <1>1 DEF OutputInv
<1>9. QED
  BY Zenon, <1>2, <1>5, <1>6, <1>7, <1>8 DEF OutputInv, Holding

LEMMA OutputNext ==
    ASSUME Compensated, "OnReorg" \notin Ops
    PROVE  TypeInv /\ TypeInv' /\ PayoutInv /\ Admits /\ FitInv /\ OutputInv /\ [Next]_vars => OutputInv'
<1> SUFFICES ASSUME TypeInv, TypeInv', PayoutInv, Admits, FitInv, OutputInv, [Next]_vars PROVE OutputInv'
  OBVIOUS
<1>1. CASE UNCHANGED vars
  <2>1. UNCHANGED <<wr, utxos, calls, accepted>>
    BY <1>1 DEF vars
  <2>2. QED
    BY <2>1 DEF OutputInv, Holding, Holds, OutpointExclusive
<1>2. QED
  BY <1>1, OutputStep, OutputStart, OutputEnvironment DEF Next

LEMMA OutputsHeld ==
    ASSUME Compensated, "OnReorg" \notin Ops
    PROVE  Spec => [](TypeInv /\ PayoutInv /\ FitInv /\ OutputInv)
<1>1. Init => OutputInv
  BY DEF Init, OutputInv, Holding, Holds, HeldBy, OutpointExclusive, NoRow, Idle
<1>2. TypeInv /\ TypeInv' /\ PayoutInv /\ Admits /\ FitInv /\ OutputInv /\ [Next]_vars => OutputInv'
  BY OutputNext
<1>3. QED
  BY <1>1, <1>2, CallsFit, StatesAdmitted, PTL DEF Spec

\* SelectForAmount, LockUTXOs and Unlock keep withdrawals apart: whatever else
\* is refused or fails, no output is spent by the transactions of two of them.
THEOREM OutputsExclusive ==
    ASSUME Compensated, "OnReorg" \notin Ops
    PROVE  Spec => []OutpointExclusive
<1>1. OutputInv => OutpointExclusive
  BY DEF OutputInv
<1>2. QED
  BY <1>1, OutputsHeld, PTL

\* What Broadcast has sent is marked spent before the row says BROADCAST, and no
\* error path or concurrent operation frees it again.
THEOREM SentOutputsSpent ==
    ASSUME Compensated, "OnReorg" \notin Ops
    PROVE  Spec => []BroadcastSpent
<1>1. TypeInv /\ PayoutInv /\ FitInv /\ OutputInv => BroadcastSpent
  <2> SUFFICES ASSUME TypeInv, PayoutInv, FitInv, OutputInv, NEW id \in Ids,
                      wr[id].state \in {"BROADCAST", "CONFIRMED"}, NEW o \in wr[id].tx.ops
               PROVE  utxos[o] \in {"SPENT", "ABSENT"}
    BY DEF BroadcastSpent
  <2>1. PICK a \in accepted : a.id = id
    BY DEF FitInv, RowFits, Paid
  <2>2. o \in a.ops /\ o \in Outpoints
    BY Zenon, <2>1 DEF PayoutInv, TypeInv, TypeOK, Transactions
  <2>3. \A c \in Callers : calls[c].id = id => calls[c].pc # "commit"
    BY Zenon DEF FitInv, CallFits, TypeInv, CallsOK, CallOK
  <2>4. QED
    BY <2>1, <2>2, <2>3 DEF OutputInv
<1>2. QED
  BY <1>1, OutputsHeld, PTL

\* Every error path of the saga gives its locks back: where no one calls Fail,
\* which unlocks nothing, a locked output is needed by a withdrawal on its way.
THEOREM LocksReturned ==
    ASSUME Compensated, "OnReorg" \notin Ops, "Fail" \notin Ops
    PROVE  Spec => []NoLeakedLock
<1>1. TypeInv /\ PayoutInv /\ FitInv /\ OutputInv => NoLeakedLock
  <2> SUFFICES ASSUME TypeInv, PayoutInv, FitInv, OutputInv, NEW o \in Outpoints, utxos[o] = "LOCKED"
               PROVE  \E id \in Ids : id \in LockHolders(o)
    BY DEF NoLeakedLock
  <2>1. PICK id \in Ids : Holding(o, id)
    BY DEF OutputInv
  <2>2. CASE wr[id].state = "SIGNED" /\ o \in wr[id].ops
    BY <2>2 DEF LockHolders, FitInv, RowFits
  <2>3. ASSUME NEW c \in Callers, calls[c].id = id, o \in HeldBy(calls[c])
        PROVE  id \in LockHolders(o)
    <3>1. CASE calls[c].pc = "submit"
      <4>1. calls[c].op = "Broadcast" /\ o \in calls[c].ops
        BY <2>3, <3>1 DEF HeldBy, TypeInv, CallsOK, CallOK
      <4>2. wr[id].state = "SIGNED" /\ calls[c].tx.ops = calls[c].ops
        BY Zenon, <2>3, <3>1, <4>1 DEF FitInv, CallFits
      <4>3. calls[c].tx = wr[id].tx
        BY Zenon, <2>3, <4>1 DEF PayoutInv
      <4>4. QED
        BY <4>1, <4>2, <4>3 DEF LockHolders
    <3>2. CASE calls[c].pc # "submit"
      BY <2>3, <3>2 DEF HeldBy, LockHolders
    <3>3. QED
      BY <3>1, <3>2
  <2>4. QED
    BY Zenon, <2>1, <2>2, <2>3 DEF Holding, Holds
<1>2. QED
  BY <1>1, OutputsHeld, PTL
=============================================================================

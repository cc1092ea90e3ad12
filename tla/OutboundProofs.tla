--------------------------- MODULE OutboundProofs ---------------------------
(***************************************************************************)
(* What the service hands to others.  Funding and HotWallet, for any       *)
(* slots, requests, callers, confirmation events and faults: a slot never  *)
(* has two open requests to Treasury, and the funding service with real    *)
(* balances behind it is an implementation of the one whose balances move  *)
(* freely.  AuditOutbox, for any number of events, wallets and replicas,   *)
(* any batch limit and any choice of faults: the rows of a wallet are      *)
(* numbered apart, and nothing is marked delivered that the sink does not  *)
(* have.                                                                   *)
(***************************************************************************)
EXTENDS HotWallet, AuditOutbox, FiniteSetTheorems, TLAPS

-----------------------------------------------------------------------------
(* Funding requests *)

CallRecords == [pc : {"idle", "check", "create", "post"},
                slot : Slots \cup {NoSlot}, id : Requests \cup {NoRequest},
                reason : {"none", "auto", "manual"}]

CallOK(v) ==
    /\ v.pc \in {"check", "create", "post"} => v.slot \in Slots
    /\ v.pc \in {"create", "post"} => v.id \in Requests

FundingTypeOK ==
    /\ requests \in [Requests -> [slot : Slots \cup {NoSlot},
                         state : {"NONE", "REQUESTED", "APPROVED", "SETTLED", "REJECTED"}]]
    /\ calls \in [Callers -> CallRecords]
    /\ \A c \in Callers : CallOK(calls[c])

\* Two open requests of a slot are the same request.
OpenAlike ==
    \A r, q \in Requests :
        /\ requests[r].state = "REQUESTED" /\ requests[q].state = "REQUESTED"
        /\ requests[r].slot \in Slots /\ requests[r].slot = requests[q].slot
        => r = q

FundingInv == FundingTypeOK /\ OpenAlike

\* No requests at first.
LEMMA FundingInitially == FundingInit => FundingInv
  BY DEF FundingInit, FundingInv, FundingTypeOK, OpenAlike, Free, CallRecords, CallOK

\* A step that only moves a caller on.
LEMMA CallStep ==
    ASSUME FundingInv, NEW c \in Callers, NEW v \in CallRecords, CallOK(v),
           calls' = [calls EXCEPT ![c] = v], UNCHANGED requests
    PROVE  FundingInv'
<1>1. calls' \in [Callers -> CallRecords] /\ \A d \in Callers : CallOK(calls'[d])
  BY DEF FundingInv, FundingTypeOK
<1>2. FundingTypeOK'
  BY <1>1 DEF FundingInv, FundingTypeOK
<1>3. QED
  BY <1>2 DEF FundingInv, OpenAlike

\* A caller that returns, whatever became of it.
LEMMA FinishStep ==
    ASSUME FundingInv, NEW c \in Callers, Finish(c), UNCHANGED requests
    PROVE  FundingInv'
<1>1. Free \in CallRecords /\ CallOK(Free)
  BY DEF Free, CallRecords, CallOK
<1>2. QED
  BY Zenon, <1>1, CallStep DEF Finish

\* Only CreateFundingRequest and the callbacks of Treasury write the table.
LEMMA FundingTableStep ==
    ASSUME FundingInv, NEW c \in Callers, CreateFundingRequest(c)
    PROVE  FundingInv'
<1> USE DEF FundingInv, FundingTypeOK
<1>1. CASE ~IndexAdmits(calls[c].slot)
  BY <1>1, FinishStep DEF CreateFundingRequest
<1>2. CASE IndexAdmits(calls[c].slot)
  <2> DEFINE s == calls[c].slot
             r == calls[c].id
  <2>1. s \in Slots /\ r \in Requests /\ calls[c] \in CallRecords
    BY DEF CreateFundingRequest, CallOK
  <2>2. /\ requests' = [requests EXCEPT ![r] = [slot |-> s, state |-> "REQUESTED"]]
        /\ calls' = [calls EXCEPT ![c].pc = "post"]
    BY <1>2 DEF CreateFundingRequest
  <2>3. \A q \in Requests : ~(requests[q].slot = s /\ requests[q].state = "REQUESTED")
    BY <1>2 DEF IndexAdmits, Open
  <2>4. FundingTypeOK'
    BY <2>1, <2>2 DEF CallRecords, CallOK
  <2>5. requests'[r] = [slot |-> s, state |-> "REQUESTED"]
    BY <2>1, <2>2
  <2>6. \A q \in Requests : q # r => requests'[q] = requests[q]
    BY <2>1, <2>2
  <2>7. OpenAlike'
    BY <2>3, <2>5, <2>6 DEF OpenAlike
  <2>8. QED
    BY <2>4, <2>7
<1>3. QED
  BY <1>1, <1>2

\* EvaluateAndRequest, ManualRequest, the callbacks and every fault preserve it.
LEMMA FundingInvStep == FundingInv /\ [FundingNext]_fundingVars => FundingInv'
<1> SUFFICES ASSUME FundingInv, [FundingNext]_fundingVars PROVE FundingInv'
  OBVIOUS
<1> USE DEF FundingInv, FundingTypeOK
<1>1. ASSUME NEW c \in Callers, GetOpen(c) PROVE FundingInv'
  <2>1. CASE Finish(c)
    BY <1>1, <2>1, FinishStep DEF GetOpen
  <2>2. CASE \E r \in Requests : calls' = [calls EXCEPT ![c].pc = "create", ![c].id = r]
    <3>1. PICK r \in Requests : calls' = [calls EXCEPT ![c].pc = "create", ![c].id = r]
      BY Zenon, <2>2
    <3> DEFINE v == [calls[c] EXCEPT !.pc = "create", !.id = r]
    <3>2. calls[c] \in CallRecords /\ calls[c].slot \in Slots /\ UNCHANGED requests
      BY <1>1 DEF GetOpen, CallOK
    <3>3. v \in CallRecords /\ CallOK(v)
      BY Zenon, <3>2 DEF CallRecords, CallOK
    <3>4. calls' = [calls EXCEPT ![c] = v]
      BY Zenon, <3>1, <3>2 DEF CallRecords
    <3>5. QED
      BY Zenon, <3>2, <3>3, <3>4, CallStep
  <2>3. QED
    BY <1>1, <2>1, <2>2 DEF GetOpen
<1>2. ASSUME NEW c \in Callers, CreateFundingRequest(c) PROVE FundingInv'
  BY <1>2, FundingTableStep
<1>3. ASSUME NEW c \in Callers, RequestFunding(c) \/ StoreFails(c) \/ FundingCrash(c)
      PROVE FundingInv'
  BY <1>3, FinishStep DEF RequestFunding, StoreFails, FundingCrash
<1>4. ASSUME NEW c \in Callers, NEW s \in Slots, EvaluateAndRequest(c, s) \/ ManualRequest(c, s)
      PROVE FundingInv'
  <2>1. PICK why \in {"auto", "manual"} : Enter(c, s, why)
    BY <1>4 DEF EvaluateAndRequest, ManualRequest
  <2> DEFINE v == [pc |-> "check", slot |-> s, id |-> NoRequest, reason |-> why]
  <2>2. v \in CallRecords /\ CallOK(v)
    BY DEF CallRecords, CallOK
  <2>3. calls' = [calls EXCEPT ![c] = v] /\ UNCHANGED requests
    BY Zenon, <2>1 DEF Enter
  <2>4. QED
    BY Zenon, <2>2, <2>3, CallStep
<1>5. ASSUME NEW r \in Requests, NEW s \in {"APPROVED", "SETTLED", "REJECTED"},
             Decide(r, s) \/ Mark(r, s)
      PROVE FundingInv'
  <2>1. CASE Decide(r, s)
    BY <2>1 DEF Decide, OpenAlike
  <2>2. CASE Mark(r, s)
    <3>1. requests' = [requests EXCEPT ![r].state = s] /\ UNCHANGED calls
      BY <2>2 DEF Mark
    <3>2. FundingTypeOK'
      BY <3>1
    <3>3. \A q \in Requests : requests'[q].state = "REQUESTED" => requests'[q] = requests[q]
      BY <3>1
    <3>4. OpenAlike'
      BY <3>3 DEF OpenAlike
    <3>5. QED
      BY <3>2, <3>4
  <2>3. QED
    BY <1>5, <2>1, <2>2
<1>6. ASSUME NEW s \in Slots, BalanceMoves(s) \/ Retire(s) PROVE FundingInv'
  BY <1>6 DEF BalanceMoves, Retire, OpenAlike
<1>7. CASE UNCHANGED fundingVars
  BY <1>7 DEF fundingVars, OpenAlike
<1>8. QED
  BY <1>1, <1>2, <1>3, <1>4, <1>5, <1>6, <1>7 DEF FundingNext, FundingStep

\* A set whose members are all the same has at most one.
LEMMA AlikeCardinality ==
    ASSUME NEW S, \A x, y \in S : x = y
    PROVE  Cardinality(S) <= 1
<1>1. CASE S = {}
  BY <1>1, FS_EmptySet
<1>2. CASE S # {}
  <2>1. PICK x : x \in S
    BY <1>2
  <2>2. S = {x}
    BY <2>1
  <2>3. QED
    BY <2>2, FS_Singleton
<1>3. QED
  BY <1>1, <1>2

\* EvaluateAndRequest, ManualRequest and CreateFundingRequest: a wallet and asset never have
\* two open funding requests, whatever overlaps and fails.
THEOREM OneOpenRequest == FundingSpec => []OneOpen
<1>1. FundingInv => OneOpen
  <2> SUFFICES ASSUME FundingInv, NEW s \in Slots PROVE Cardinality(Open(s)) <= 1
    BY DEF OneOpen
  <2>1. \A r, q \in Open(s) : r = q
    BY DEF FundingInv, OpenAlike, Open
  <2>2. QED
    BY <2>1, AlikeCardinality
<1>2. QED
  BY <1>1, FundingInitially, FundingInvStep, PTL DEF FundingSpec

-----------------------------------------------------------------------------

\* The slots that are low are those the rows of Balance show below the minimum.
HotInv == balances = [s \in Slots |-> balances[s]] /\ low = Below(balances)

\* A balance step that touches the row of one slot is a move of that balance, or none.
LEMMA OneRowMoved ==
    ASSUME HotInv, NEW s, NEW row, NEW more,
           balances' = [balances EXCEPT ![s] = row], BalanceMoved(more)
    PROVE  HotInv' /\ [FundingNext]_fundingVars
<1>1. balances' = [t \in Slots |-> balances'[t]]
  BY DEF HotInv
<1>2. \A t \in Slots : t # s => balances'[t] = balances[t]
  BY DEF HotInv
<1>3. \A t \in Slots : t # s => (t \in low' <=> t \in low)
  BY <1>2 DEF HotInv, BalanceMoved, Below
<1>4. low \subseteq Slots /\ low' \subseteq Slots
  BY DEF HotInv, BalanceMoved, Below
<1>5. CASE low' = low
  BY <1>1, <1>5 DEF HotInv, BalanceMoved, fundingVars
<1>6. CASE low' # low
  <2>1. s \in Slots /\ (s \in low' <=> s \notin low)
    BY <1>3, <1>4, <1>6
  <2>2. low' = IF s \in low THEN low \ {s} ELSE low \cup {s}
    BY <2>1, <1>3, <1>4
  <2>3. BalanceMoves(s)
    BY Zenon, <2>2 DEF BalanceMoves, BalanceMoved
  <2>4. QED
    BY <1>1, <2>1, <2>3 DEF HotInv, BalanceMoved, FundingNext
<1>7. QED
  BY <1>5, <1>6

\* A balance step that touches no row.
LEMMA NoRowMoved ==
    ASSUME HotInv, NEW more, UNCHANGED balances, BalanceMoved(more)
    PROVE  HotInv' /\ [FundingNext]_fundingVars
  BY DEF HotInv, BalanceMoved, Below, fundingVars

\* Every step of the composition is a step of Funding or leaves its state alone.
LEMMA HotStep == HotInv /\ [HotNext]_hotVars => HotInv' /\ [FundingNext]_fundingVars
<1> SUFFICES ASSUME HotInv, [HotNext]_hotVars PROVE HotInv' /\ [FundingNext]_fundingVars
  OBVIOUS
<1>1. ASSUME UNCHANGED <<low, balanceVars>> PROVE HotInv'
  BY <1>1 DEF HotInv, Below, balanceVars
<1>2. ASSUME NEW c \in Callers, Request(c) \/ RequestFails(c)
      PROVE HotInv' /\ [FundingNext]_fundingVars
  BY Zenon, <1>1, <1>2 DEF Request, RequestFails, FundingNext, FundingStep, GetOpen,
                    CreateFundingRequest, RequestFunding, StoreFails, FundingCrash
<1>3. CASE FundingOnly
  BY Zenon, <1>1, <1>3 DEF FundingOnly, FundingNext, ManualRequest, Enter, Decide, Mark, Retire
<1>4. CASE BalanceOnly
  <2>1. CASE \E s \in Slots : B!ApplyReorgEvent(s)
    <3>1. PICK s \in Slots : B!ApplyReorgEvent(s)
      BY <2>1
    <3>2. PICK row : balances' = [balances EXCEPT ![s] = row]
      BY Zenon, <3>1 DEF B!ApplyReorgEvent
    <3>3. QED
      BY Zenon, <1>4, <3>2, OneRowMoved DEF BalanceOnly
  <2>2. CASE ~\E s \in Slots : B!ApplyReorgEvent(s)
    BY <1>4, <2>2, NoRowMoved DEF BalanceOnly, B!RecordBalanceEvent, B!ApplyFails, B!BalanceCrash
  <2>3. QED
    BY <2>1, <2>2
<1>5. ASSUME NEW h \in Handlers, HotApply(h) PROVE HotInv' /\ [FundingNext]_fundingVars
  <2> DEFINE s == Event[handler[h].event].slot
  <2>1. balances' = [balances EXCEPT ![s] = B!Credited(balances[s], handler[h].event)]
    BY <1>5 DEF HotApply, B!Apply
  <2>2. BalanceMoved({handler[h].event} \cap Decreases)
    BY <1>5 DEF HotApply
  <2>3. QED
    BY Zenon, <2>1, <2>2, OneRowMoved
<1>6. ASSUME NEW e \in Confirmations, NEW c \in Callers, Evaluate(c, e)
      PROVE HotInv' /\ [FundingNext]_fundingVars
  <2> DEFINE s == Event[e].slot
  <2>1. CASE EvaluateAndRequest(c, s)
    <3>1. s \in Slots /\ UNCHANGED low
      BY <2>1, FundingConstants DEF EvaluateAndRequest, Enter
    <3>2. QED
      BY <1>1, <1>6, <2>1, <3>1 DEF Evaluate, FundingNext
  <2>2. CASE UNCHANGED fundingVars
    BY <1>1, <1>6, <2>2 DEF Evaluate, fundingVars
  <2>3. QED
    BY <1>6, <2>1, <2>2 DEF Evaluate
<1>7. CASE UNCHANGED hotVars
  BY <1>1, <1>7 DEF hotVars, fundingVars
<1>8. ASSUME NEW e \in Confirmations, EvaluateFails(e)
      PROVE HotInv' /\ [FundingNext]_fundingVars
  BY <1>1, <1>8 DEF EvaluateFails, fundingVars
<1>9. QED
  BY <1>2, <1>3, <1>4, <1>5, <1>6, <1>7, <1>8 DEF HotNext

\* main.go's wiring of balances to funding: the composed services are a funding service, so
\* no event makes them ask by themselves for a wallet that is cold or has enough.
THEOREM HotImplementsFunding == HotSpec => ImplementsFunding
<1>1. HotInit => HotInv /\ FundingInit
  BY DEF HotInit, HotInv, B!BalanceInit
<1>2. QED
  BY <1>1, HotStep, PTL DEF HotSpec, ImplementsFunding, FundingSpec

\* So the composed services never open two requests for a wallet and asset either.
THEOREM HotOneOpen == HotSpec => []OneOpen
  BY HotImplementsFunding, OneOpenRequest, PTL DEF ImplementsFunding

-----------------------------------------------------------------------------
(* Audit events *)

AuditTypeOK ==
    /\ pc \in [Events -> {"idle", "seq", "append", "done"}]
    /\ counter \in [AuditWallets -> Nat]
    /\ seq \in [Events -> Nat]
    /\ outbox \in [Events -> {"none", "undelivered", "delivered"}]
    /\ drainer \in [Replicas -> [at : {"idle", "deliver", "mark"}, batch : SUBSET Events]]
    /\ log \subseteq Events
    /\ proc \in [Replicas -> {"up", "sinkClosed", "cancelled", "down"}]

\* An event whose number is in a row, or held by an Emit that has yet to write its row.
Numbered(e) == pc[e] = "append" \/ outbox[e] # "none"

\* The counter of a wallet has passed every number taken from it, and no number is taken twice.
NumbersApart ==
    /\ \A e \in Events : Numbered(e) => seq[e] <= counter[WalletOf[e]]
    /\ \A e, f \in Events :
          Numbered(e) /\ Numbered(f) /\ e # f /\ WalletOf[e] = WalletOf[f] => seq[e] # seq[f]

\* What a drainer is about to mark, and what is marked, the sink has.
MarkedArrived ==
    /\ \A r \in Replicas : drainer[r].at = "mark" => drainer[r].batch \subseteq log
    /\ DeliveredInLog

\* A drainer holds rows of the outbox.
BatchListed == \A r \in Replicas : \A e \in drainer[r].batch : outbox[e] # "none"

AuditInv == AuditTypeOK /\ NumbersApart /\ MarkedArrived /\ BatchListed

\* A wallet with an event has a counter.

LEMMA WalletOfEvent == \A e \in Events : WalletOf[e] \in AuditWallets
  BY DEF AuditWallets

\* NewEmitter: the empty outbox satisfies the invariant.
LEMMA AuditInitially == AuditInit => AuditInv
  BY DEF AuditInit, AuditInv, AuditTypeOK, NumbersApart, Numbered, MarkedArrived,
         DeliveredInLog, BatchListed, Resting

\* Emit: taking a number and writing the row keep the numbers apart.
LEMMA EmitStep ==
    ASSUME AuditInv, NEW e \in Events, Change(e) \/ Emit(e) \/ ChangeInTx(e)
    PROVE  AuditInv'
<1>1. WalletOf[e] \in AuditWallets
  BY WalletOfEvent
<1>2. AuditTypeOK'
  BY <1>1 DEF AuditInv, AuditTypeOK, Change, Emit, ChangeInTx, EmitFails, NextAuditSeq,
              AppendAuditEvent
<1>3. MarkedArrived'
  BY DEF AuditInv, AuditTypeOK, MarkedArrived, DeliveredInLog, Change, Emit, ChangeInTx,
         EmitFails, NextAuditSeq, AppendAuditEvent
<1>4. NumbersApart'
  <2>1. CASE UNCHANGED <<counter, seq>>
    <3>1. \A f \in Events : Numbered(f)' => Numbered(f)
      BY <2>1, <1>1 DEF AuditInv, AuditTypeOK, Numbered, Change, Emit, ChangeInTx,
                        EmitFails, NextAuditSeq, AppendAuditEvent
    <3>2. QED
      BY <3>1, <2>1 DEF AuditInv, NumbersApart
  <2>2. CASE NextAuditSeq(e)
    <3>1. \A f \in Events : f # e => (Numbered(f)' => Numbered(f))
      BY DEF AuditInv, AuditTypeOK, Numbered, Change, Emit, ChangeInTx,
             EmitFails, AppendAuditEvent
    <3>2. seq'[e] = counter'[WalletOf[e]]
      BY <2>2, <1>1 DEF AuditInv, AuditTypeOK, NextAuditSeq
    <3>3. \A f \in Events : f # e => seq'[f] = seq[f]
      BY <2>2 DEF AuditInv, AuditTypeOK, NextAuditSeq
    <3>4. \A f \in Events : Numbered(f) =>
              /\ seq[f] <= counter'[WalletOf[f]]
              /\ WalletOf[f] = WalletOf[e] => seq[f] < counter'[WalletOf[e]]
      BY <2>2, <1>1, WalletOfEvent DEF AuditInv, AuditTypeOK, NumbersApart, NextAuditSeq
    <3>5. \A f \in Events : seq'[f] \in Nat /\ counter'[WalletOf[f]] \in Nat
      BY <1>2, WalletOfEvent DEF AuditTypeOK
    <3>6. \A f \in Events : Numbered(f)' => seq'[f] <= counter'[WalletOf[f]]
      BY <3>1, <3>2, <3>3, <3>4, <3>5
    <3>7. \A f, g \in Events :
              Numbered(f)' /\ Numbered(g)' /\ f # g /\ WalletOf[f] = WalletOf[g] => seq'[f] # seq'[g]
      <4>1. \A f, g \in Events : Numbered(f) /\ Numbered(g) /\ f # g
                /\ WalletOf[f] = WalletOf[g] => seq[f] # seq[g]
        BY DEF AuditInv, NumbersApart
      <4>2. QED
        BY <4>1, <3>1, <3>2, <3>3, <3>4, <3>5
    <3>8. QED
      BY <3>6, <3>7 DEF NumbersApart
  <2>3. QED
    BY <2>1, <2>2 DEF Change, Emit, ChangeInTx, EmitFails
<1>5. BatchListed'
  BY DEF AuditInv, AuditTypeOK, BatchListed, Change, Emit, ChangeInTx, EmitFails,
         NextAuditSeq, AppendAuditEvent
<1>6. QED
  BY <1>2, <1>3, <1>4, <1>5 DEF AuditInv

\* Drain, and the end and start of a process, leave the numbers alone.
LEMMA NumbersKept ==
    ASSUME AuditInv, NEW r \in Replicas,
           Drain(r) \/ CloseSink(r) \/ Run(r) \/ AuditCrash(r)
    PROVE  NumbersApart'
<1>1. UNCHANGED <<counter, seq>>
  BY DEF Drain, ListUndelivered, Deliver, DeliverFails, PartlyDelivered, MarkAuditDelivered,
         MarkFails, CloseSink, Run, StopEmitter, Exit, Restart, AuditCrash, Gone
<1>2. \A e \in Events : Numbered(e)' => Numbered(e)
  <2>1. CASE MarkAuditDelivered(r)
    <3>1. PICK e \in drainer[r].batch : outbox' = [outbox EXCEPT ![e] = "delivered"]
      BY Zenon, <2>1 DEF MarkAuditDelivered
    <3>2. outbox[e] # "none" /\ UNCHANGED pc
      BY <2>1 DEF AuditInv, BatchListed, MarkAuditDelivered
    <3>3. QED
      BY <3>1, <3>2 DEF Numbered, AuditInv, AuditTypeOK
  <2>2. CASE ~MarkAuditDelivered(r)
    BY <2>2 DEF Numbered, AuditInv, AuditTypeOK, Drain, ListUndelivered, Deliver,
                DeliverFails, PartlyDelivered, MarkFails, CloseSink, Run, StopEmitter,
                Exit, Restart, AuditCrash, Gone
  <2>3. QED
    BY <2>1, <2>2
<1>3. QED
  BY <1>1, <1>2 DEF AuditInv, NumbersApart

\* Drain: a batch is marked row by row, and only after it arrived.
LEMMA DrainStep ==
    ASSUME AuditInv, NEW r \in Replicas, Drain(r)
    PROVE  AuditTypeOK' /\ MarkedArrived' /\ BatchListed'
<1> USE DEF AuditInv, AuditTypeOK, MarkedArrived, DeliveredInLog, BatchListed
<1>1. CASE ListUndelivered(r)
  <2>1. PICK b \in Batches :
            drainer' = [drainer EXCEPT ![r] = [at |-> "deliver", batch |-> b]]
    BY Zenon, <1>1 DEF ListUndelivered
  <2>2. b \subseteq Events /\ \A e \in b : outbox[e] # "none"
    BY DEF Batches, Undelivered, Rows
  <2>3. QED
    BY <1>1, <2>1, <2>2 DEF ListUndelivered
<1>2. CASE Deliver(r)
  BY <1>2 DEF Deliver
<1>3. CASE DeliverFails(r)
  <2>1. drainer' = [drainer EXCEPT ![r] = Resting] /\ UNCHANGED <<pc, counter, seq, outbox, proc>>
    BY <1>3 DEF DeliverFails, PartlyDelivered
  <2>2. log \subseteq log' /\ log' \subseteq Events
    BY <1>3 DEF DeliverFails, PartlyDelivered
  <2>3. QED
    BY <2>1, <2>2 DEF Resting
<1>4. CASE MarkAuditDelivered(r)
  <2>1. PICK e \in drainer[r].batch :
            /\ outbox' = [outbox EXCEPT ![e] = "delivered"]
            /\ drainer' = [drainer EXCEPT ![r] = IF drainer[r].batch = {e} THEN Resting
                              ELSE [at |-> "mark", batch |-> drainer[r].batch \ {e}]]
    BY Zenon, <1>4 DEF MarkAuditDelivered
  <2>2. drainer[r].at = "mark" /\ UNCHANGED <<pc, counter, seq, log, proc>>
    BY <1>4 DEF MarkAuditDelivered
  <2>3. e \in log /\ e \in Events
    BY <2>1, <2>2
  <2>4. QED
    BY <2>1, <2>2, <2>3 DEF Resting
<1>5. CASE MarkFails(r)
  BY <1>5 DEF MarkFails, Resting
<1>6. QED
  BY <1>1, <1>2, <1>3, <1>4, <1>5 DEF Drain

\* run: closing the sink, stopping, exiting, crashing and starting mark nothing.
LEMMA ProcessStep ==
    ASSUME AuditInv, NEW r \in Replicas, CloseSink(r) \/ Run(r) \/ AuditCrash(r)
    PROVE  AuditTypeOK' /\ MarkedArrived' /\ BatchListed'
<1> USE DEF AuditInv, AuditTypeOK, MarkedArrived, DeliveredInLog, BatchListed
<1>1. CASE Gone(r)
  <2>1. pc' \in [Events -> {"idle", "seq", "append", "done"}]
    BY <1>1 DEF Gone
  <2>2. QED
    BY <1>1, <2>1 DEF Gone, Resting
<1>2. CASE CloseSink(r) \/ StopEmitter(r) \/ Restart(r)
  BY <1>2 DEF CloseSink, StopEmitter, Restart
<1>3. QED
  BY <1>1, <1>2 DEF Run, Exit, AuditCrash

\* Every step of the outbox and of its processes preserves the invariant.
LEMMA AuditStep == AuditInv /\ [AuditNext]_auditVars => AuditInv'
<1> SUFFICES ASSUME AuditInv, [AuditNext]_auditVars PROVE AuditInv'
  OBVIOUS
<1>1. CASE \E e \in Events : Change(e) \/ Emit(e) \/ ChangeInTx(e)
  BY <1>1, EmitStep
<1>2. CASE \E r \in Replicas : Drain(r) \/ CloseSink(r) \/ Run(r) \/ AuditCrash(r)
  BY <1>2, NumbersKept, DrainStep, ProcessStep DEF AuditInv
<1>3. CASE UNCHANGED auditVars
  BY <1>3 DEF auditVars, AuditInv, AuditTypeOK, NumbersApart, Numbered, MarkedArrived,
              DeliveredInLog, BatchListed
<1>4. QED
  BY <1>1, <1>2, <1>3 DEF AuditNext

\* The invariant holds throughout.
LEMMA AuditInvariant == AuditSpec => []AuditInv
  BY AuditInitially, AuditStep, PTL DEF AuditSpec

\* NextAuditSeq: no two rows of a wallet ever carry one number, however emitters interleave,
\* fail and die.
THEOREM NumbersUnique == AuditSpec => []SeqUnique
<1>1. AuditInv => SeqUnique
  BY DEF AuditInv, NumbersApart, Numbered, SeqUnique, Rows
<1>2. QED
  BY <1>1, AuditInvariant, PTL

\* Drain: no row is marked delivered that the sink does not have, however drainers overlap,
\* fail and are shut down.
THEOREM NothingDropped == AuditSpec => []DeliveredInLog
<1>1. AuditInv => DeliveredInLog
  BY DEF AuditInv, MarkedArrived
<1>2. QED
  BY <1>1, AuditInvariant, PTL
=============================================================================

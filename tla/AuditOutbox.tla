----------------------------- MODULE AuditOutbox -----------------------------
(***************************************************************************)
(* The audit outbox (internal/audit) in the life of its processes.  An     *)
(* event is one state change of a wallet and the row it emits.  Services   *)
(* call Emit after the change is committed, in separate statements; only   *)
(* the balance service calls it inside the transaction that makes the      *)
(* change.  Every replica runs run() of main.go: it starts a drainer, and  *)
(* at the end its deferred calls close the sink, stop the emitter, cancel  *)
(* the context and close the store, in that order and without waiting for  *)
(* the drainer.  The sink is Kafka; its reader drops a repeated event_id.  *)
(***************************************************************************)
EXTENDS Integers, FiniteSets

CONSTANTS
    Events,
    WalletOf,       \* event -> wallet
    InTxEvents,     \* events emitted inside the transaction of the change
    Replicas,
    HomeOf,         \* event -> the replica whose request makes the change
    BatchLimit,     \* rows one Drain lists, 100 in the code
    AuditFaults     \* "store", "sink", "crash"

ASSUME AuditConstants ==
    /\ DOMAIN WalletOf = Events
    /\ HomeOf \in [Events -> Replicas]
    /\ InTxEvents \subseteq Events
    /\ BatchLimit \in Nat \ {0}
    /\ AuditFaults \subseteq {"store", "sink", "crash"}

AuditWallets == {WalletOf[e] : e \in Events}

VARIABLES
    pc,         \* event -> where its Emit is
    counter,    \* wallet -> audit_seq row
    seq,        \* event -> the sequence number Emit took
    outbox,     \* event -> "none", "undelivered" or "delivered"
    drainer,    \* replica -> where its Drain is, and the rows left of its batch
    log,        \* the events the sink received
    proc        \* replica -> "up", "sinkClosed", "cancelled" or "down"

auditVars == <<pc, counter, seq, outbox, drainer, log, proc>>

Resting == [at |-> "idle", batch |-> {}]

AuditInit ==
    /\ pc = [e \in Events |-> "idle"]
    /\ counter = [w \in AuditWallets |-> 0]
    /\ seq = [e \in Events |-> 0]
    /\ outbox = [e \in Events |-> "none"]
    /\ drainer = [r \in Replicas |-> Resting]
    /\ log = {}
    /\ proc = [r \in Replicas |-> "up"]

Rows == {e \in Events : outbox[e] # "none"}

-----------------------------------------------------------------------------

\* A service commits its change and goes on to Emit.  When the error of one server ends
\* run(), the other takes requests until the process is gone.
Change(e) ==
    /\ pc[e] = "idle" /\ e \notin InTxEvents /\ proc[HomeOf[e]] # "down"
    /\ pc' = [pc EXCEPT ![e] = "seq"]
    /\ UNCHANGED <<counter, seq, outbox, drainer, log, proc>>

\* MAX(seq) + 1 over the outbox.
MaxPlusOne(e) ==
    LET w == WalletOf[e]
        taken == {0} \cup {seq[f] : f \in {r \in Rows : WalletOf[r] = w}} IN
    /\ seq' = [seq EXCEPT ![e] = 1 + CHOOSE n \in taken : \A m \in taken : m <= n]
    /\ UNCHANGED counter

NextAuditSeq(e) ==
    LET w == WalletOf[e] IN
    /\ counter' = [counter EXCEPT ![w] = @ + 1]
    /\ seq' = [seq EXCEPT ![e] = counter[w] + 1]

AppendAuditEvent(e) == outbox' = [outbox EXCEPT ![e] = "undelivered"]

\* Callers ignore the error of Emit.
EmitFails(e) ==
    /\ "store" \in AuditFaults
    /\ pc' = [pc EXCEPT ![e] = "done"]
    /\ UNCHANGED <<counter, seq, outbox>>

Emit(e) ==
    /\ \/ /\ pc[e] = "seq" /\ NextAuditSeq(e)
          /\ pc' = [pc EXCEPT ![e] = "append"] /\ UNCHANGED outbox
       \/ /\ pc[e] = "append" /\ AppendAuditEvent(e)
          /\ pc' = [pc EXCEPT ![e] = "done"] /\ UNCHANGED <<counter, seq>>
       \/ pc[e] \in {"seq", "append"} /\ EmitFails(e)
    /\ UNCHANGED <<drainer, log, proc>>

\* The balance service: the change, the number and the row commit together.
ChangeInTx(e) ==
    /\ pc[e] = "idle" /\ e \in InTxEvents /\ proc[HomeOf[e]] # "down"
    /\ NextAuditSeq(e)
    /\ AppendAuditEvent(e)
    /\ pc' = [pc EXCEPT ![e] = "done"]
    /\ UNCHANGED <<drainer, log, proc>>

-----------------------------------------------------------------------------

Undelivered == {e \in Rows : outbox[e] = "undelivered"}

\* ORDER BY seq LIMIT n over all wallets; rows with the same number in any order.
Batches ==
    {b \in SUBSET Undelivered :
        /\ Cardinality(b) = BatchLimit \/ (b = Undelivered /\ Cardinality(b) < BatchLimit)
        /\ \A e \in b, f \in Undelivered \ b : seq[e] <= seq[f]}

ListUndelivered(r) ==
    /\ proc[r] \in {"up", "sinkClosed"} /\ drainer[r].at = "idle" /\ Undelivered # {}
    /\ \E b \in Batches : drainer' = [drainer EXCEPT ![r] = [at |-> "deliver", batch |-> b]]
    /\ UNCHANGED <<pc, counter, seq, outbox, log, proc>>

Deliver(r) ==
    /\ proc[r] = "up" /\ drainer[r].at = "deliver"
    /\ log' = log \cup drainer[r].batch
    /\ drainer' = [drainer EXCEPT ![r].at = "mark"]
    /\ UNCHANGED <<pc, counter, seq, outbox, proc>>

\* Any part of the batch may have been written when the writer returns an error; once it
\* is closed it writes nothing.
PartlyDelivered(r, next) ==
    /\ drainer[r].at = "deliver"
    /\ \/ /\ "sink" \in AuditFaults /\ proc[r] = "up"
          /\ \E kept \in SUBSET drainer[r].batch : log' = log \cup kept
       \/ proc[r] \in {"sinkClosed", "cancelled"} /\ UNCHANGED log
    /\ drainer' = [drainer EXCEPT ![r] = next]
    /\ UNCHANGED <<pc, counter, seq, outbox, proc>>

MarkAnyway(r) == PartlyDelivered(r, [drainer[r] EXCEPT !.at = "mark"])

\* The error ends the goroutine.
QuitOnError(r) == PartlyDelivered(r, [Resting EXCEPT !.at = "stopped"])

DeliverFails(r) == PartlyDelivered(r, Resting)

\* One statement per row, in the order of the list.
MarkAuditDelivered(r) ==
    LET b == drainer[r].batch IN
    /\ proc[r] \in {"up", "sinkClosed"} /\ drainer[r].at = "mark"
    /\ \E e \in b :
          /\ \A f \in b : seq[e] <= seq[f]
          /\ outbox' = [outbox EXCEPT ![e] = "delivered"]
          /\ drainer' = [drainer EXCEPT ![r] =
                            IF b = {e} THEN Resting ELSE [at |-> "mark", batch |-> b \ {e}]]
    /\ UNCHANGED <<pc, counter, seq, log, proc>>

\* The first error ends this Drain; on a cancelled context every statement fails.
MarkFails(r) ==
    /\ drainer[r].at = "mark"
    /\ "store" \in AuditFaults \/ proc[r] = "cancelled"
    /\ drainer' = [drainer EXCEPT ![r] = Resting]
    /\ UNCHANGED <<pc, counter, seq, outbox, log, proc>>

Drain(r) ==
    \/ ListUndelivered(r) \/ Deliver(r) \/ DeliverFails(r)
    \/ MarkAuditDelivered(r) \/ MarkFails(r)

-----------------------------------------------------------------------------

\* A signal or the error of a server: the first deferred call that matters is ks.Close.
CloseSink(r) ==
    /\ proc[r] = "up"
    /\ proc' = [proc EXCEPT ![r] = "sinkClosed"]
    /\ UNCHANGED <<pc, counter, seq, outbox, drainer, log>>

\* Stop and cancel: the drainer starts nothing more, and what it has begun fails.
StopEmitter(r) ==
    /\ proc[r] = "sinkClosed"
    /\ proc' = [proc EXCEPT ![r] = "cancelled"]
    /\ UNCHANGED <<pc, counter, seq, outbox, drainer, log>>

Gone(r) ==
    /\ proc' = [proc EXCEPT ![r] = "down"]
    /\ pc' = [e \in Events |-> IF HomeOf[e] = r /\ pc[e] # "idle" THEN "done" ELSE pc[e]]
    /\ drainer' = [drainer EXCEPT ![r] = Resting]
    /\ UNCHANGED <<counter, seq, outbox, log>>

\* The store is closed and main returns, whatever the drainer and the requests were doing.
Exit(r) == proc[r] = "cancelled" /\ Gone(r)

AuditCrash(r) == "crash" \in AuditFaults /\ proc[r] # "down" /\ Gone(r)

Restart(r) ==
    /\ proc[r] = "down"
    /\ proc' = [proc EXCEPT ![r] = "up"]
    /\ UNCHANGED <<pc, counter, seq, outbox, drainer, log>>

Run(r) == StopEmitter(r) \/ Exit(r) \/ Restart(r)

AuditNext ==
    \/ \E e \in Events : Change(e) \/ Emit(e) \/ ChangeInTx(e)
    \/ \E r \in Replicas : Drain(r) \/ CloseSink(r) \/ Run(r) \/ AuditCrash(r)

AuditSpec == AuditInit /\ [][AuditNext]_auditVars

\* The ticker keeps calling Drain, deferred calls run and a replica that went down is started
\* again, for longer than a tick; neither the sink nor the store fails for ever.
AuditFairness ==
    \A r \in Replicas :
        /\ WF_auditVars(Drain(r)) /\ WF_auditVars(Run(r))
        /\ SF_auditVars(proc[r] = "up" /\ ListUndelivered(r))
        /\ SF_auditVars(Deliver(r)) /\ SF_auditVars(MarkAuditDelivered(r))

FairAuditSpec == AuditSpec /\ AuditFairness

-----------------------------------------------------------------------------

\* Drain and run: a row is marked delivered only once the sink has it, so no failed call,
\* crash, second drainer or sink closed under a running Drain loses an event.
DeliveredInLog == \A e \in Events : outbox[e] = "delivered" => e \in log

\* NextAuditSeq: concurrent emitters never give two rows of a wallet one number.
SeqUnique ==
    \A e, f \in Rows : e # f /\ WalletOf[e] = WalletOf[f] => seq[e] # seq[f]

\* Start and Drain: a row that was appended reaches the sink, however many attempts
\* fail first, however often the rows before it are listed again and replicas are stopped.
EventuallyDelivered == \A e \in Events : outbox[e] # "none" ~> e \in log
=============================================================================

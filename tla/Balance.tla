------------------------------- MODULE Balance -------------------------------
(***************************************************************************)
(* Balances per (wallet, asset) slot (internal/balance).  The gateway      *)
(* delivers each confirmation event any number of times, to handlers that  *)
(* run concurrently.  A handler records the event, and then adds its       *)
(* amount in a transaction of its own.  One deposit causes several events: *)
(* it is first seen below the threshold, and again at it.                  *)
(***************************************************************************)
EXTENDS Integers, FiniteSetsExt

CONSTANTS
    Slots,
    FinalizedSlots,     \* Solana: confirmed means finalized
    Threshold,          \* slot -> confirmations required
    Confirmations,      \* ids of confirmation events
    NoEvent,
    Event,              \* id -> [slot, height, confs, final, amount, transfer]; the
                        \* transfer it reports is for the properties, no code reads it
    LockAmounts,        \* amounts AddLocked and ReleaseLocked are called with
    MaxLocked,          \* bound on the locked amount
    MaxReorgs,          \* bound on reorg events
    Handlers,
    Backend,            \* "memory" or "postgres"
    EmptyIsZero,        \* whether NUMERIC columns take an empty string as zero: they
                        \* do not, TRUE shows what the code does beyond that error
    BalanceFaults       \* "store": a transaction aborts; "crash": a handler dies

ASSUME BalanceConstants ==
    /\ FinalizedSlots \subseteq Slots /\ DOMAIN Threshold = Slots
    /\ DOMAIN Event = Confirmations /\ NoEvent \notin Confirmations
    /\ \A e \in Confirmations : Event[e].slot \in Slots /\ Event[e].height \in Nat
                                /\ Event[e].amount \in Int
    /\ Backend \in {"memory", "postgres"} /\ EmptyIsZero \in BOOLEAN
    /\ BalanceFaults \subseteq {"store", "crash"}
    /\ Backend = "memory" => BalanceFaults = {}

VARIABLES
    balances,   \* slot -> row of balances, or no row
    recorded,   \* events with a row in balance_events
    applied,    \* events whose transaction committed
    acked,      \* events some call returned nil for
    handler,    \* handler -> where it is, and its event
    reorgs      \* reorg events so far

balanceVars == <<balances, recorded, applied, acked, handler, reorgs>>

NoBalance == [exists |-> FALSE, confirmed |-> 0, pending |-> 0, locked |-> 0, lastBlock |-> 0]

Waiting == [at |-> "idle", event |-> NoEvent]

BalanceInit ==
    /\ balances = [s \in Slots |-> NoBalance]
    /\ recorded = {} /\ applied = {} /\ acked = {}
    /\ handler = [h \in Handlers |-> Waiting]
    /\ reorgs = 0

Done(h) == handler' = [handler EXCEPT ![h] = Waiting]

DepthOnly(e) == Event[e].confs >= Threshold[Event[e].slot]

IsConfirmed(e) ==
    LET s == Event[e].slot IN
    IF s \in FinalizedSlots THEN Event[e].final ELSE Event[e].confs >= Threshold[s]

\* The handler goes on whether or not its insert was a no-op.
RecordUnchecked(h, e) ==
    /\ handler[h].at = "idle"
    /\ recorded' = recorded \cup {e}
    /\ handler' = [handler EXCEPT ![h] = [at |-> "apply", event |-> e]]
    /\ UNCHANGED <<balances, applied, acked, reorgs>>

\* A duplicate returns nil at once.
RecordBalanceEvent(h, e) ==
    /\ handler[h].at = "idle"
    /\ IF e \in recorded
       THEN acked' = acked \cup {e} /\ UNCHANGED <<recorded, handler>>
       ELSE /\ recorded' = recorded \cup {e}
            /\ handler' = [handler EXCEPT ![h] = [at |-> "apply", event |-> e]]
            /\ UNCHANGED acked
    /\ UNCHANGED <<balances, applied, reorgs>>

\* A row built from a balance that was not there has an empty locked column.
Upsertable(s) == Backend = "postgres" => balances[s].exists \/ EmptyIsZero

TakeHeight(old, new) == new

MaxHeight(old, new) == IF old > new THEN old ELSE new

Credited(row, e) ==
    [exists    |-> TRUE,
     confirmed |-> row.confirmed + IF IsConfirmed(e) THEN Event[e].amount ELSE 0,
     pending   |-> row.pending + IF IsConfirmed(e) THEN 0 ELSE Event[e].amount,
     locked    |-> row.locked,
     lastBlock |-> MaxHeight(row.lastBlock, Event[e].height)]

\* The transaction of ApplyConfirmationEvent.  OnConfirmedDecrease, called after a
\* confirmed decrease, starts an EvaluateAndRequest of module Funding.
Apply(h) ==
    LET e == handler[h].event s == Event[e].slot IN
    /\ handler[h].at = "apply" /\ Upsertable(s)
    /\ balances' = [balances EXCEPT ![s] = Credited(@, e)]
    /\ applied' = applied \cup {e}
    /\ acked' = acked \cup {e}
    /\ Done(h)
    /\ UNCHANGED <<recorded, reorgs>>

\* The transaction fails and rolls back; the event stays recorded.
ApplyFails(h) ==
    /\ handler[h].at = "apply"
    /\ ~Upsertable(Event[handler[h].event].slot) \/ "store" \in BalanceFaults
    /\ Done(h)
    /\ UNCHANGED <<balances, recorded, applied, acked, reorgs>>

\* ApplyReorgEvent: the block and the event id of the reorg are not looked at.
ApplyReorgEvent(s) ==
    LET b == balances[s] IN
    /\ reorgs < MaxReorgs /\ b.exists
    /\ balances' = [balances EXCEPT ![s].pending = b.pending + b.confirmed, ![s].confirmed = 0]
    /\ reorgs' = reorgs + 1
    /\ UNCHANGED <<recorded, applied, acked, handler>>

AddLocked(s, n) ==
    /\ balances[s].exists /\ balances[s].locked + n <= MaxLocked
    /\ balances' = [balances EXCEPT ![s].locked = @ + n]
    /\ UNCHANGED <<recorded, applied, acked, handler, reorgs>>

ReleaseLocked(s, n) ==
    /\ balances[s].exists
    /\ balances' = [balances EXCEPT ![s].locked = IF @ < n THEN 0 ELSE @ - n]
    /\ UNCHANGED <<recorded, applied, acked, handler, reorgs>>

BalanceCrash(h) ==
    /\ "crash" \in BalanceFaults /\ handler[h].at # "idle"
    /\ Done(h)
    /\ UNCHANGED <<balances, recorded, applied, acked, reorgs>>

BalanceNext ==
    \/ \E h \in Handlers, e \in Confirmations : RecordBalanceEvent(h, e)
    \/ \E h \in Handlers : Apply(h) \/ ApplyFails(h) \/ BalanceCrash(h)
    \/ \E s \in Slots : ApplyReorgEvent(s)
    \/ \E s \in Slots, n \in LockAmounts : AddLocked(s, n) \/ ReleaseLocked(s, n)

BalanceSpec == BalanceInit /\ [][BalanceNext]_balanceVars

-----------------------------------------------------------------------------

AppliedTo(s) == {e \in applied : Event[e].slot = s}

AmountOf(e) == Event[e].amount

\* ApplyConfirmationEvent and ApplyReorgEvent: confirmed and pending value together are
\* the amounts of events that were applied, none of them twice, and every transfer an
\* applied event reports is among them; so no redelivery, concurrent handler or reorg
\* doubles an event or loses an update.  It leaves open whether a later event of the same
\* transfer adds its amount again, as the code does, or moves it from pending to confirmed.
TransfersCounted ==
    \A s \in Slots : \E counted \in SUBSET AppliedTo(s) :
        /\ balances[s].confirmed + balances[s].pending = MapThenSumSet(AmountOf, counted)
        /\ \A e \in AppliedTo(s) : \E f \in counted : Event[f].transfer = Event[e].transfer

\* ApplyConfirmationEvent: LastBlockSeen is the highest block of an applied event,
\* in whatever order the events arrive, and no reorg or lock moves it.
LastBlockSeen ==
    \A s \in Slots : balances[s].lastBlock = Max({0} \cup {Event[e].height : e \in AppliedTo(s)})

\* isConfirmed: what is confirmed is the amounts of events that were at their
\* threshold, or finalized on Solana, so no event order or reorg makes value below
\* its threshold spendable.
ConfirmedCovered ==
    \A s \in Slots :
        LET counted == {e \in AppliedTo(s) :
                           \/ s \in FinalizedSlots /\ Event[e].final
                           \/ s \notin FinalizedSlots /\ Event[e].confs >= Threshold[s]} IN
        balances[s].confirmed \in
            {MapThenSumSet(AmountOf, part) : part \in SUBSET counted}

\* RecordBalanceEvent: when no handler works on an event any more, a call returned
\* nil for it only if its amount was added.
AckedApplied ==
    \A e \in acked : e \in applied \/ \E h \in Handlers : handler[h].event = e
=============================================================================

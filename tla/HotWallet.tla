------------------------------ MODULE HotWallet ------------------------------
(***************************************************************************)
(* Balances and funding as main.go wires them: a confirmation event that   *)
(* takes confirmed value away calls OnConfirmedDecrease, which starts a    *)
(* goroutine with a context of its own that runs EvaluateAndRequest; and   *)
(* a slot is low because of what module Balance left in its row.  Nothing  *)
(* here touches the locked amounts of Balance.                             *)
(***************************************************************************)
EXTENDS Funding

CONSTANTS
    FinalizedSlots, Threshold, Confirmations, NoEvent, Event, LockAmounts,
    MaxLocked, MaxReorgs, Handlers, Backend, EmptyIsZero, BalanceFaults,
    MinBalance      \* HotWalletMinBalanceUSD

ASSUME HotConstants == MinBalance \in Int

VARIABLES
    balances, recorded, applied, acked, handler, reorgs,
    due,        \* events whose goroutine has yet to look at the balance
    asks,       \* caller -> the event it runs for; an operator's request has none
    lost        \* events whose goroutine the store failed, or that died

B == INSTANCE Balance

balanceVars == <<balances, recorded, applied, acked, handler, reorgs>>

hotVars == <<fundingVars, balanceVars, due, asks, lost>>

\* A slot without a row has confirmed zero.
Below(rows) == {s \in Slots : rows[s].confirmed < MinBalance}

HotInit ==
    /\ FundingInit /\ B!BalanceInit
    /\ low = Below(balances)
    /\ due = {} /\ lost = {} /\ asks = [c \in Callers |-> NoEvent]

-----------------------------------------------------------------------------

Decreases == {e \in Confirmations : B!IsConfirmed(e) /\ Event[e].amount < 0}

\* A step of the balance service; OnConfirmedDecrease does not wait for its goroutine.
BalanceMoved(triggered) ==
    /\ low' = Below(balances')
    /\ due' = due \cup triggered
    /\ UNCHANGED <<requests, retired, calls, treasury, failed, decisions, asks, lost>>

HotApply(h) == B!Apply(h) /\ BalanceMoved({handler[h].event} \cap Decreases)

BalanceOnly ==
    /\ \/ \E h \in Handlers, e \in Confirmations : B!RecordBalanceEvent(h, e)
       \/ \E h \in Handlers : B!ApplyFails(h) \/ B!BalanceCrash(h)
       \/ \E s \in Slots : B!ApplyReorgEvent(s)
    /\ BalanceMoved({})

\* The goroutine runs on the context of the request, which is over.
EvaluateCancelled(c, e) ==
    /\ e \in due /\ due' = due \ {e}
    /\ UNCHANGED <<fundingVars, balanceVars, asks, lost>>

\* No comparison with the minimum, and no look at the type of the wallet.
EvaluateAny(c, e) ==
    /\ e \in due /\ due' = due \ {e}
    /\ Enter(c, Event[e].slot, "auto") /\ asks' = [asks EXCEPT ![c] = e]
    /\ UNCHANGED <<balanceVars, lost>>

\* EvaluateAndRequest up to its comparison with the minimum.
Evaluate(c, e) ==
    LET s == Event[e].slot IN
    /\ e \in due /\ due' = due \ {e}
    /\ \/ EvaluateAndRequest(c, s) /\ asks' = [asks EXCEPT ![c] = e]
       \/ s \notin HotSlots \cap low /\ UNCHANGED <<fundingVars, asks>>
    /\ UNCHANGED <<balanceVars, lost>>

\* GetWallet or GetBalance fails, which is only logged, or the replica dies.
EvaluateFails(e) ==
    /\ e \in due /\ due' = due \ {e} /\ lost' = lost \cup {e}
    /\ FundingFaults \cap {"store", "crash"} # {}
    /\ UNCHANGED <<fundingVars, balanceVars, asks>>

-----------------------------------------------------------------------------

\* The bound on ManualRequest leaves an id to each goroutine that may still ask.
IdsLeft ==
    LET fresh == {r \in Requests : requests[r].state = "NONE"}
        askers == {e \in Decreases : Event[e].slot \in HotSlots}
        busy == {c \in Callers : calls[c].pc # "idle"} IN
    Cardinality(fresh) > Cardinality(askers) + Cardinality(busy)

Request(c) ==
    /\ FundingStep(c)
    /\ asks' = [asks EXCEPT ![c] = IF calls'[c].pc = "idle" THEN NoEvent ELSE @]
    /\ UNCHANGED <<balanceVars, due, lost>>

RequestFails(c) ==
    /\ StoreFails(c) \/ FundingCrash(c)
    /\ lost' = lost \cup ({asks[c]} \ {NoEvent})
    /\ asks' = [asks EXCEPT ![c] = NoEvent]
    /\ UNCHANGED <<balanceVars, due>>

FundingOnly ==
    /\ \/ \E c \in Callers, s \in Slots : IdsLeft /\ ManualRequest(c, s)
       \/ \E r \in Requests, s \in {"APPROVED", "SETTLED", "REJECTED"} : Decide(r, s) \/ Mark(r, s)
       \/ \E s \in Slots : Retire(s)
    /\ UNCHANGED <<balanceVars, due, asks, lost>>

HotNext ==
    \/ FundingOnly \/ BalanceOnly
    \/ \E c \in Callers : Request(c) \/ RequestFails(c)
    \/ \E h \in Handlers : HotApply(h)
    \/ \E e \in Confirmations : EvaluateFails(e) \/ \E c \in Callers : Evaluate(c, e)

HotSpec == HotInit /\ [][HotNext]_hotVars

\* Goroutines make progress; a goroutine that is due does not wait for a place among Callers.
HotFairness ==
    /\ \A c \in Callers : WF_hotVars(Request(c))
    /\ \A e \in Confirmations : SF_hotVars(\E c \in Callers : Evaluate(c, e))

FairHotSpec == HotSpec /\ HotFairness

-----------------------------------------------------------------------------

\* OnConfirmedDecrease and EvaluateAndRequest: with the real balances behind it the funding
\* service does nothing that module Funding does not allow.  A call made by itself (reason
\* "auto") is never an operator's step of Funding, so it is made for a hot wallet only, and
\* only while the balance that Balance left in its row is below the minimum.
ImplementsFunding == FundingSpec

\* ApplyConfirmationEvent, OnConfirmedDecrease and EvaluateAndRequest: after a confirmed
\* decrease a hot wallet is at its minimum again or has an open request, unless the store
\* failed the goroutine or it died; what else happens to the balance, whichever trigger
\* wins the race to create the request, and how Treasury answers earlier ones change nothing.
DecreaseNoticed ==
    \A e \in Confirmations :
        LET s == Event[e].slot IN
        e \in due /\ s \in HotSlots ~>
            \/ s \notin low \/ Open(s) # {} \/ e \in lost
=============================================================================

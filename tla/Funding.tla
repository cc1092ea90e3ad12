------------------------------- MODULE Funding -------------------------------
(***************************************************************************)
(* Hot-wallet funding requests (internal/funding).  A slot is a (wallet,   *)
(* asset) pair.  A caller is a goroutine inside EvaluateAndRequest, which  *)
(* the balance service starts, or ManualRequest.  Treasury Orchestration   *)
(* is outside the service: it decides on the requests it was sent, and     *)
(* what it decided reaches MarkApproved, MarkSettled and MarkRejected in   *)
(* any order and any number of times.                                      *)
(***************************************************************************)
EXTENDS Integers, FiniteSets

CONSTANTS
    Slots,
    HotSlots,       \* the slots of hot wallets
    Requests,       \* ids of funding requests
    NoSlot, NoRequest,
    Callers,
    FundingFaults   \* "post": Treasury is not reached; "lostack": it is, but the
                    \* call returns an error; "store": a statement fails;
                    \* "crash": the process dies

ASSUME FundingConstants ==
    /\ HotSlots \subseteq Slots
    /\ NoSlot \notin Slots /\ NoRequest \notin Requests
    /\ FundingFaults \subseteq {"post", "lostack", "store", "crash"}

VARIABLES
    requests,   \* id -> row of funding_requests
    low,        \* slots whose confirmed balance is below the minimum
    retired,    \* slots whose wallet is retired
    calls,      \* caller -> where it is and what it works on
    treasury,   \* requests Treasury accepted
    failed,     \* requests whose caller saw an error from Treasury, or died
    decisions   \* callbacks Treasury has sent, <<id, state>>

fundingVars == <<requests, low, retired, calls, treasury, failed, decisions>>

Free == [pc |-> "idle", slot |-> NoSlot, id |-> NoRequest, reason |-> "none"]

FundingInit ==
    /\ requests = [r \in Requests |-> [slot |-> NoSlot, state |-> "NONE"]]
    /\ low \in SUBSET Slots
    /\ retired = {}
    /\ calls = [c \in Callers |-> Free]
    /\ treasury = {}
    /\ failed = {}
    /\ decisions = {}

Open(s) == {r \in Requests : requests[r].slot = s /\ requests[r].state = "REQUESTED"}

AdmitAny(s) == TRUE

\* The partial unique index funding_open_dedup, or the in-memory store's loop.
IndexAdmits(s) == Open(s) = {}

Finish(c) == calls' = [calls EXCEPT ![c] = Free]

\* The reason goes with the request to the row and to Treasury: "auto", or an operator's.
Enter(c, s, reason) ==
    /\ calls[c].pc = "idle"
    /\ calls' = [calls EXCEPT ![c] = [pc |-> "check", slot |-> s, id |-> NoRequest, reason |-> reason]]
    /\ UNCHANGED <<requests, low, retired, treasury, failed, decisions>>

\* Only a hot wallet below the minimum asks by itself.
EvaluateAndRequest(c, s) == s \in HotSlots /\ s \in low /\ Enter(c, s, "auto")

\* An operator may ask for any wallet that is not retired.
ManualRequest(c, s) == s \notin retired /\ Enter(c, s, "manual")

\* GetOpenFundingRequest; the request gets a fresh UUID.
GetOpen(c) ==
    /\ calls[c].pc = "check"
    /\ \/ Open(calls[c].slot) # {} /\ Finish(c)
       \/ /\ Open(calls[c].slot) = {}
          /\ \E r \in Requests :
                /\ requests[r].state = "NONE" /\ \A d \in Callers : calls[d].id # r
                /\ calls' = [calls EXCEPT ![c].pc = "create", ![c].id = r]
    /\ UNCHANGED <<requests, low, retired, treasury, failed, decisions>>

CreateFundingRequest(c) ==
    LET s == calls[c].slot IN
    /\ calls[c].pc = "create"
    /\ \/ /\ IndexAdmits(s)
          /\ requests' = [requests EXCEPT ![calls[c].id] = [slot |-> s, state |-> "REQUESTED"]]
          /\ calls' = [calls EXCEPT ![c].pc = "post"]
       \/ ~IndexAdmits(s) /\ Finish(c) /\ UNCHANGED requests
    /\ UNCHANGED <<low, retired, treasury, failed, decisions>>

\* Only the automatic path reaches Treasury.
PostHotOnly(c) ==
    LET sent == IF calls[c].slot \in HotSlots THEN {calls[c].id} ELSE {} IN
    /\ calls[c].pc = "post"
    /\ treasury' = treasury \cup sent
    /\ Finish(c)
    /\ UNCHANGED <<requests, low, retired, failed, decisions>>

\* The call to Treasury succeeds, fails, or arrives and is reported as failed.
Post(r) ==
    \/ treasury' = treasury \cup {r} /\ UNCHANGED failed
    \/ "post" \in FundingFaults /\ failed' = failed \cup {r} /\ UNCHANGED treasury
    \/ "lostack" \in FundingFaults /\ treasury' = treasury \cup {r} /\ failed' = failed \cup {r}

\* The end of createRequest; an error of Treasury leaves the row REQUESTED.
RequestFunding(c) ==
    /\ calls[c].pc = "post"
    /\ Post(calls[c].id)
    /\ Finish(c)
    /\ UNCHANGED <<requests, low, retired, decisions>>

\* GetOpenFundingRequest or CreateFundingRequest returns an error that is no answer.
StoreFails(c) ==
    /\ "store" \in FundingFaults /\ calls[c].pc \in {"check", "create"}
    /\ Finish(c)
    /\ UNCHANGED <<requests, low, retired, treasury, failed, decisions>>

\* Treasury rejects a request, or approves and later settles it.
Decide(r, s) ==
    /\ r \in treasury
    /\ CASE s = "SETTLED"  -> <<r, "APPROVED">> \in decisions
         [] s = "APPROVED" -> <<r, "REJECTED">> \notin decisions
         [] s = "REJECTED" -> <<r, "APPROVED">> \notin decisions
    /\ decisions' = decisions \cup {<<r, s>>}
    /\ UNCHANGED <<requests, low, retired, calls, treasury, failed>>

\* MarkApproved, MarkSettled or MarkRejected: UpdateFundingState looks at no state.
Mark(r, s) ==
    /\ <<r, s>> \in decisions
    /\ requests' = [requests EXCEPT ![r].state = s]
    /\ UNCHANGED <<low, retired, calls, treasury, failed, decisions>>

\* The confirmed balance crosses the minimum.
BalanceMoves(s) ==
    /\ low' = IF s \in low THEN low \ {s} ELSE low \cup {s}
    /\ UNCHANGED <<requests, retired, calls, treasury, failed, decisions>>

Retire(s) ==
    /\ retired' = retired \cup {s}
    /\ UNCHANGED <<requests, low, calls, treasury, failed, decisions>>

FundingCrash(c) ==
    /\ "crash" \in FundingFaults
    /\ calls[c].pc # "idle"
    /\ failed' = IF calls[c].pc = "post" THEN failed \cup {calls[c].id} ELSE failed
    /\ Finish(c)
    /\ UNCHANGED <<requests, low, retired, treasury, decisions>>

FundingStep(c) == GetOpen(c) \/ CreateFundingRequest(c) \/ RequestFunding(c)

FundingNext ==
    \/ \E c \in Callers : FundingStep(c) \/ StoreFails(c) \/ FundingCrash(c)
    \/ \E c \in Callers, s \in Slots : EvaluateAndRequest(c, s) \/ ManualRequest(c, s)
    \/ \E r \in Requests, s \in {"APPROVED", "SETTLED", "REJECTED"} : Decide(r, s) \/ Mark(r, s)
    \/ \E s \in Slots : BalanceMoves(s) \/ Retire(s)

FundingSpec == FundingInit /\ [][FundingNext]_fundingVars

-----------------------------------------------------------------------------

\* EvaluateAndRequest, ManualRequest and CreateFundingRequest: however many
\* triggers overlap, a slot has one open request.
OneOpen == \A s \in Slots : Cardinality(Open(s)) <= 1

\* createRequest: a request that was inserted is sent to Treasury, unless its caller
\* saw an error or died; a retired wallet, a recovered balance, a callback for another
\* request or a second trigger does not keep it from being sent.
RequestedIsSent ==
    \A r \in Requests : requests[r].state = "REQUESTED" ~> r \in treasury \cup failed
=============================================================================

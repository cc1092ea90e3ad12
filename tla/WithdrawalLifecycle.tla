------------------------- MODULE WithdrawalLifecycle -------------------------
(***************************************************************************)
(* What the withdrawal service promises about each withdrawal, whatever    *)
(* else goes on: the states follow one path, the money leaves once and     *)
(* only while the withdrawal is SIGNED, and a FAILED withdrawal is final   *)
(* and has paid nothing.  A reorg takes CONFIRMED back to BROADCAST.       *)
(***************************************************************************)
CONSTANT Ids

VARIABLES
    st,     \* id -> state
    paid    \* the ids with a transaction the gateway took

vars == <<st, paid>>

Init == st = [id \in Ids |-> "NONE"] /\ paid = {}

Move(id, from, to) == st[id] = from /\ st' = [st EXCEPT ![id] = to]

Request(id) == Move(id, "NONE", "PENDING") /\ UNCHANGED paid

Approve(id) == Move(id, "PENDING", "WHITELISTED") /\ UNCHANGED paid

Sign(id) == Move(id, "WHITELISTED", "SIGNED") /\ UNCHANGED paid

Pay(id) == st[id] = "SIGNED" /\ paid' = paid \cup {id} /\ UNCHANGED st

Record(id) == id \in paid /\ Move(id, "SIGNED", "BROADCAST") /\ UNCHANGED paid

Confirm(id) == Move(id, "BROADCAST", "CONFIRMED") /\ UNCHANGED paid

Reorg(id) == Move(id, "CONFIRMED", "BROADCAST") /\ UNCHANGED paid

Fail(id) ==
    /\ id \notin paid
    /\ \E s \in {"PENDING", "WHITELISTED", "SIGNED"} : Move(id, s, "FAILED")
    /\ UNCHANGED paid

Next == \E id \in Ids :
    \/ Request(id) \/ Approve(id) \/ Sign(id)  \/ Pay(id)
    \/ Record(id)  \/ Confirm(id) \/ Reorg(id) \/ Fail(id)

Spec == Init /\ [][Next]_vars
=============================================================================

---------------------------- MODULE CoinSelection ----------------------------
(***************************************************************************)
(* utxo.Service.SelectForAmount, up to the LockUTXOs call: the free        *)
(* outputs are taken largest first until their total reaches the amount.   *)
(***************************************************************************)
EXTENDS Integers, FiniteSetsExt

Total(value, S) == MapThenSumSet(LAMBDA o : value[o], S)

\* The outcomes of the loop, one for each order sort.Slice may give to
\* outputs of equal value.  Empty exactly when the funds are insufficient.
Selections(free, value, amount) ==
    {S \in SUBSET free :
        /\ Total(value, S) >= amount
        /\ \A o \in S, p \in free \ S : value[o] >= value[p]
        /\ S # {} => \E last \in S :
                        /\ \A o \in S : value[o] >= value[last]
                        /\ Total(value, S \ {last}) < amount}
=============================================================================

------------------------------ MODULE MCBalance ------------------------------
(* Instances of Balance.  Deposits arrive in pairs of events: seen, then deep. *)
EXTENDS Balance, TLC

CONSTANTS eth, sol, seen, deep, other, spend, slot, final

Row(s, height, confs, isFinal, amount, transfer) ==
    [slot |-> s, height |-> height, confs |-> confs, final |-> isFinal,
     amount |-> amount, transfer |-> transfer]

MCThreshold == (eth :> 2) @@ (sol :> 1)

\* On one slot a deposit seen and deep, a deposit in a later block, a withdrawal;
\* on the other a deposit confirmed in its slot, and finalized.
MCEvent ==
    (seen  :> Row(eth, 1, 1, FALSE, 4, "t1")) @@
    (deep  :> Row(eth, 2, 2, FALSE, 4, "t1")) @@
    (other :> Row(eth, 3, 2, FALSE, 8, "t2")) @@
    (spend :> Row(eth, 4, 3, FALSE, -1, "t3")) @@
    (slot  :> Row(sol, 1, 5, FALSE, 2, "t4")) @@
    (final :> Row(sol, 1, 5, TRUE, 2, "t4"))
=============================================================================

----------------------------- MODULE MCHotWallet -----------------------------
(* Instances of HotWallet: a hot slot that is filled and spent from, and a slot *)
(* of another wallet, for which only an operator asks.                          *)
EXTENDS HotWallet, TLC

CONSTANTS hot, cold, fill, spend

Row(s, height, amount) ==
    [slot |-> s, height |-> height, confs |-> 1, final |-> FALSE, amount |-> amount,
     transfer |-> height]

MCThreshold == (hot :> 1) @@ (cold :> 1)

MCEvent == (fill :> Row(hot, 1, 3)) @@ (spend :> Row(hot, 2, -2))
=============================================================================

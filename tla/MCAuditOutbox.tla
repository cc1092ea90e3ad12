---------------------------- MODULE MCAuditOutbox ----------------------------
(* Instances of AuditOutbox: two events of one wallet, one of another. *)
EXTENDS AuditOutbox, TLC

CONSTANTS e1, e2, e3, wa, wb, d1, d2

MCTwoWallets == (e1 :> wa) @@ (e2 :> wa) @@ (e3 :> wb)

MCHomes == (e1 :> d1) @@ (e2 :> d2) @@ (e3 :> d1)
=============================================================================

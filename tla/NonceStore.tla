----------------------------- MODULE NonceStore -----------------------------
(***************************************************************************)
(* The nonce row of one (wallet, chain) pair and the three operations the  *)
(* Store offers on it.  Both backends run each of them atomically: the     *)
(* in-memory store under its mutex, Postgres in one statement or in one    *)
(* transaction that locks the row.  The version column is left out: no     *)
(* code reads it.                                                          *)
(***************************************************************************)
EXTENDS Integers

\* "row" is FALSE while the store holds no row for the pair.
NonceRows == [row : BOOLEAN, pending : Nat, broadcast : Nat]

NoNonceRow == [row |-> FALSE, pending |-> 0, broadcast |-> 0]

\* Hands out n.pending, the value before the increment.
IncrementPendingNonce(n) == [n EXCEPT !.row = TRUE, !.pending = n.pending + 1]

AssignBroadcastNonce(n, v) == [n EXCEPT !.row = TRUE, !.broadcast = v + 1]

AdvanceBroadcastNonce(n, v) ==
    [n EXCEPT !.row = TRUE,
              !.broadcast = IF v + 1 > n.broadcast THEN v + 1 ELSE n.broadcast]

UnconditionalRollback(n, to) == [n EXCEPT !.pending = to]

RollbackWithoutRow(n, to) == IF n.pending = to + 1 THEN [n EXCEPT !.pending = to] ELSE n

\* A no-op unless "to" is the nonce handed out last.
RollbackPendingNonce(n, to) ==
    IF n.row /\ n.pending = to + 1 THEN [n EXCEPT !.pending = to] ELSE n
=============================================================================

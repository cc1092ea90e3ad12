------------------------------ MODULE UtxoStore ------------------------------
(***************************************************************************)
(* The rows of the utxos table, u \in [outpoint -> state], and the Store   *)
(* operations on them.  LockUTXOs tests and locks all its rows in one      *)
(* atomic step.  MarkUTXOsSpent, RestoreUTXOs and PruneUTXOs are loops     *)
(* that test nothing: the in-memory store runs the whole loop under its    *)
(* mutex and stops at the first missing row, Postgres commits every row    *)
(* on its own and skips missing rows.                                      *)
(***************************************************************************)
EXTENDS Integers

\* "ABSENT" is an outpoint without a row: not yet tracked, or pruned.
UtxoStates == {"ABSENT", "FREE", "LOCKED", "SPENT"}

WithRows(u, ops, s) == [o \in DOMAIN u |-> IF o \in ops THEN s ELSE u[o]]

Tracked(u, ops) == {o \in ops : u[o] # "ABSENT"}

InsertUTXO(u, o) == WithRows(u, {o}, "FREE")

AnyLockable(u, ops) == TRUE

\* LockUTXOs succeeds only if every row is FREE; otherwise no row changes.
Lockable(u, ops) == \A o \in ops : u[o] = "FREE"

LockUTXOs(u, ops) == WithRows(u, ops, "LOCKED")

SpendFreeOnly(u, ops) == WithRows(u, {o \in ops : u[o] = "FREE"}, "SPENT")

MarkUTXOsSpent(u, ops) == WithRows(u, Tracked(u, ops), "SPENT")

RestoreUTXOs(u, ops) == WithRows(u, Tracked(u, ops), "FREE")

PruneUTXOs(u, ops) == WithRows(u, ops, "ABSENT")

\* What one step of such a loop does to the rows still to be written.
LoopBatches(backend, u, rows) ==
    IF backend = "postgres"         THEN {{o} : o \in rows}
    ELSE IF Tracked(u, rows) = rows THEN {rows}
    ELSE SUBSET Tracked(u, rows)

\* The in-memory loop returns an error at a missing row.
LoopErrs(backend, u, rows) == backend = "memory" /\ Tracked(u, rows) # rows

\* Whether the loop is over once the rows of "done" are written.
LoopDone(backend, rows, done) == backend = "memory" \/ rows = done
=============================================================================

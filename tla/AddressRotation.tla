--------------------------- MODULE AddressRotation ---------------------------
(***************************************************************************)
(* Wallet states and receive addresses (internal/wallet), with the stores  *)
(* and the per-wallet lock (internal/lock) they use.  A caller is one      *)
(* request: CurrentOrRotate, ForceRotate or SetState.  The derivers depend *)
(* on the index only, so an address is its index on its chain; Solana has  *)
(* one address, index 0.                                                   *)
(***************************************************************************)
EXTENDS Integers, Sequences, FiniteSets

CONSTANTS
    Wallets,
    Chains,         \* chains wallets are created on
    NoWallet, Free, \* no wallet; no holder of a lock
    Callers,
    Requests,       \* the kinds of request made: "current", "force", "state"
    AgesOut,        \* whether shouldRotate may say so
    Retries,        \* attempts of deriveNewLocked, 20 in the code
    MaxRows,        \* no derivation starts with this many addresses
    Backend,        \* "memory" or "postgres"
    Locker,         \* "memory" or "redis"
    RotationFaults  \* "store": a statement fails; "crash": a caller dies

ASSUME RotationConstants ==
    /\ Chains \subseteq {"ethereum", "solana"} /\ NoWallet \notin Wallets /\ Free \notin Callers
    /\ Requests \subseteq {"current", "force", "state"}
    /\ AgesOut \in BOOLEAN /\ Retries \in Nat \ {0}
    /\ Backend \in {"memory", "postgres"} /\ Locker \in {"memory", "redis"}
    /\ RotationFaults \subseteq {"store", "crash"}
    /\ Backend = "memory" => RotationFaults = {}

VARIABLES
    wallets,    \* wallet -> its chain and its state, "NONE" before Create
    rows,       \* the addresses table, in order of insertion
    locks,      \* wallet -> the caller whose token the lock holds, or Free
    calls       \* caller -> where it is and what it read

rotationVars == <<wallets, rows, locks, calls>>

WalletStates == {"ACTIVE", "PAUSED", "RETIRED"}

NoCall == [at |-> "idle", op |-> "none", wallet |-> NoWallet, old |-> 0, index |-> 0,
           tries |-> 0, state |-> "NONE"]

RotationInit ==
    /\ wallets = [w \in Wallets |-> [chain |-> "none", state |-> "NONE"]]
    /\ rows = <<>>
    /\ locks = [w \in Wallets |-> Free]
    /\ calls = [c \in Callers |-> NoCall]

RowsOf(w) == {i \in DOMAIN rows : rows[i].wallet = w}

Active(w) == {i \in RowsOf(w) : rows[i].state = "ACTIVE"}

At(c, where) == calls[c].at = where

Goto(c, where) == calls' = [calls EXCEPT ![c].at = where]

Return(c) == calls' = [calls EXCEPT ![c] = NoCall]

ChainOf(w) == wallets[w].chain

CreateWallet(w, chain) ==
    /\ wallets[w].state = "NONE"
    /\ wallets' = [wallets EXCEPT ![w] = [chain |-> chain, state |-> "ACTIVE"]]
    /\ UNCHANGED <<rows, locks, calls>>

-----------------------------------------------------------------------------

\* SetState reads the wallet and refuses to leave RETIRED ...
ReadState(c, w, s) ==
    /\ At(c, "idle") /\ "state" \in Requests
    /\ wallets[w].state # "NONE" /\ (wallets[w].state = "RETIRED" => s = "RETIRED")
    /\ calls' = [calls EXCEPT ![c] = [NoCall EXCEPT !.at = "state", !.wallet = w, !.state = s]]
    /\ UNCHANGED <<wallets, rows, locks>>

\* ... and writes the new state without looking again.
UpdateWalletState(c) ==
    /\ At(c, "state")
    /\ wallets' = [wallets EXCEPT ![calls[c].wallet].state = calls[c].state]
    /\ Return(c)
    /\ UNCHANGED <<rows, locks>>

-----------------------------------------------------------------------------

\* CurrentOrRotate and ForceRotate refuse a retired wallet.
StartDerive(c, w, op) ==
    /\ At(c, "idle") /\ op \in Requests \ {"state"} /\ Len(rows) < MaxRows
    /\ wallets[w].state \notin {"NONE", "RETIRED"}
    /\ calls' = [calls EXCEPT ![c] = [NoCall EXCEPT !.at = "active", !.op = op, !.wallet = w]]
    /\ UNCHANGED <<wallets, rows, locks>>

\* GetActiveAddress, and shouldRotate for CurrentOrRotate.
ReadActive(c) ==
    LET found == Active(calls[c].wallet) op == calls[c].op IN
    /\ At(c, "active")
    /\ \/ found = {} /\ op = "current" /\ Goto(c, "acquire")
       \/ found = {} /\ op = "force" /\ Goto(c, "lock")
       \/ found # {} /\ op = "current" /\ Return(c)
       \/ \E i \in found : /\ op = "force" \/ AgesOut
                           /\ calls' = [calls EXCEPT ![c].at = "lock", ![c].old = i]
    /\ UNCHANGED <<wallets, rows, locks>>

Acquire(c, granted, refused) ==
    LET w == calls[c].wallet IN
    /\ IF locks[w] = Free
       THEN locks' = [locks EXCEPT ![w] = c] /\ Goto(c, granted)
       ELSE refused /\ UNCHANGED locks
    /\ UNCHANGED <<wallets, rows>>

\* rotate and ForceRotate give up when the lock is taken.
LockRotation(c) ==
    /\ At(c, "lock")
    /\ Acquire(c, IF calls[c].old = 0 THEN "index" ELSE "deprecate", Return(c))

\* deriveNewLocked looks for the winner's address, and tries again.
LockFirst(c) == At(c, "acquire") /\ Acquire(c, "recheck", Goto(c, "peek"))

Peek(c) ==
    /\ At(c, "peek")
    /\ IF Active(calls[c].wallet) # {} \/ calls[c].tries + 1 = Retries
       THEN Return(c)
       ELSE calls' = [calls EXCEPT ![c].at = "acquire", ![c].tries = @ + 1]
    /\ UNCHANGED <<wallets, rows, locks>>

Recheck(c) ==
    /\ At(c, "recheck")
    /\ Goto(c, IF Active(calls[c].wallet) # {} THEN "release" ELSE "index")
    /\ UNCHANGED <<wallets, rows, locks>>

DeprecateRow(i) == rows' = [rows EXCEPT ![i].state = "DEPRECATED"]

DeprecateAddress(c) ==
    /\ At(c, "deprecate")
    /\ DeprecateRow(calls[c].old)
    /\ Goto(c, "index")
    /\ UNCHANGED <<wallets, locks>>

Indexes(chain) == {-1} \cup {rows[i].index : i \in {j \in DOMAIN rows : rows[j].chain = chain}}

\* The index the deriver of the chain answers for: Solana ignores what it is given.
DeriveAt(chain, n) == IF chain = "solana" THEN 0 ELSE n

\* The highest index of the chain, over all wallets, plus one.
NextAddressIndex(c) ==
    LET chain == ChainOf(calls[c].wallet) IN
    /\ At(c, "index")
    /\ \E top \in Indexes(chain) :
          /\ \A n \in Indexes(chain) : n <= top
          /\ calls' = [calls EXCEPT ![c].at = IF chain = "solana" THEN "solana" ELSE "insert",
                                    ![c].index = DeriveAt(chain, top + 1)]
    /\ UNCHANGED <<wallets, rows, locks>>

\* A Solana wallet's listed address is deprecated, to be inserted again.  An error of
\* ListAddresses is taken for an empty list.
DeprecateSolana(c) ==
    /\ At(c, "solana")
    /\ \/ \E i \in RowsOf(calls[c].wallet) : DeprecateRow(i)
       \/ (RowsOf(calls[c].wallet) = {} \/ "store" \in RotationFaults) /\ UNCHANGED rows
    /\ Goto(c, "insert")
    /\ UNCHANGED <<wallets, locks>>

\* One rule of the two.
AddressIndexOnly(w, n) ==
    Backend = "postgres" => \A i \in DOMAIN rows : rows[i].chain = ChainOf(w) => rows[i].index # n

ActiveIndexOnly(w, n) == Active(w) = {}

\* One active address per wallet, and on Postgres UNIQUE (chain, address).
InsertAdmits(w, n) ==
    /\ Active(w) = {}
    /\ Backend = "postgres" => \A i \in DOMAIN rows : rows[i].chain = ChainOf(w) => rows[i].index # n

InsertAddress(c) ==
    LET w == calls[c].wallet n == calls[c].index IN
    /\ At(c, "insert")
    /\ rows' = IF InsertAdmits(w, n)
               THEN Append(rows, [wallet |-> w, chain |-> ChainOf(w), index |-> n, state |-> "ACTIVE"])
               ELSE rows
    /\ Goto(c, "release")
    /\ UNCHANGED <<wallets, locks>>

\* An error on the way ends in the deferred Release.
StoreFails(c) ==
    /\ "store" \in RotationFaults
    /\ calls[c].at \in {"recheck", "deprecate", "index", "solana", "insert"}
    /\ Goto(c, "release")
    /\ UNCHANGED <<wallets, rows, locks>>

\* Redis reads the token and deletes the key in two calls; the error is ignored.
Release(c) ==
    LET w == calls[c].wallet IN
    /\ At(c, "release")
    /\ IF locks[w] # c THEN Return(c) /\ UNCHANGED locks
       ELSE IF Locker = "redis" THEN Goto(c, "delete") /\ UNCHANGED locks
       ELSE Return(c) /\ locks' = [locks EXCEPT ![w] = Free]
    /\ UNCHANGED <<wallets, rows>>

DeleteLock(c) ==
    /\ At(c, "delete")
    /\ locks' = [locks EXCEPT ![calls[c].wallet] = Free]
    /\ Return(c)
    /\ UNCHANGED <<wallets, rows>>

\* The lock lives ten seconds, whatever its holder does.
Expire(w) ==
    /\ Locker = "redis" /\ locks[w] # Free
    /\ locks' = [locks EXCEPT ![w] = Free]
    /\ UNCHANGED <<wallets, rows, calls>>

RotationCrash(c) ==
    /\ "crash" \in RotationFaults /\ ~At(c, "idle")
    /\ Return(c)
    /\ UNCHANGED <<wallets, rows, locks>>

DeriveStep(c) ==
    \/ ReadActive(c) \/ LockRotation(c) \/ LockFirst(c) \/ Peek(c) \/ Recheck(c)
    \/ DeprecateAddress(c) \/ NextAddressIndex(c) \/ DeprecateSolana(c) \/ InsertAddress(c)
    \/ StoreFails(c) \/ Release(c) \/ DeleteLock(c)

RotationNext ==
    \/ \E w \in Wallets : Expire(w) \/ \E chain \in Chains : CreateWallet(w, chain)
    \/ \E c \in Callers, w \in Wallets :
          \/ \E s \in WalletStates : ReadState(c, w, s)
          \/ \E op \in {"current", "force"} : StartDerive(c, w, op)
    \/ \E c \in Callers : UpdateWalletState(c) \/ DeriveStep(c) \/ RotationCrash(c)

RotationSpec == RotationInit /\ [][RotationNext]_rotationVars

-----------------------------------------------------------------------------

\* InsertAddress: a wallet has one active address at most, even when the lock expires
\* under its holder and two rotations overlap.
OneActive == \A w \in Wallets : Cardinality(Active(w)) <= 1

\* NextAddressIndex and InsertAddress: no two wallets of a chain share a receive
\* address.
AddressUnique ==
    \A i, j \in DOMAIN rows :
        rows[i].wallet # rows[j].wallet /\ rows[i].chain = rows[j].chain
            => rows[i].index # rows[j].index

\* rotate: a wallet with addresses that no request is working on has an active one.
KeepsActive ==
    \A w \in Wallets :
        RowsOf(w) # {} /\ (\A c \in Callers : calls[c].wallet # w) => Active(w) # {}
=============================================================================

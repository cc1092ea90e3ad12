----------------------------- MODULE KeyMapping -----------------------------
(***************************************************************************)
(* The wallet-to-key_id mapping (internal/keymapping) and its rows in the  *)
(* key_mappings table.  Both Stores run each operation atomically: the     *)
(* in-memory one under its mutex, Postgres in one statement or in one      *)
(* serializable transaction, which fails as a whole or not at all.         *)
(* Nothing in the service calls ExpireCooling, so nothing says when it is  *)
(* called, or whether it is.                                               *)
(***************************************************************************)
EXTENDS Integers

CONSTANTS
    Wallets,
    KeyIds,
    KeyCoolingPeriod,   \* in ticks of the clock
    MaxTime             \* bound on the clock

ASSUME KeyConstants == KeyCoolingPeriod \in Nat /\ MaxTime \in Nat

VARIABLES
    mappings,   \* wallet -> key_id -> row of key_mappings
    now,        \* the clock
    demoted     \* wallet -> key_id -> when a rotation last took its place

keyVars == <<mappings, now, demoted>>

RotationStates == {"NONE", "CURRENT", "COOLING", "RETIRED"}

\* activeTo is -1 for NULL.
Mappings == [state : RotationStates, activeFrom : Nat, activeTo : Nat \cup {-1}]

NoMapping == [state |-> "NONE", activeFrom |-> 0, activeTo |-> -1]

CurrentMapping(t) == [state |-> "CURRENT", activeFrom |-> t, activeTo |-> -1]

Current(w) == {k \in KeyIds : mappings[w][k].state = "CURRENT"}

\* ResolveActiveKey: the mappings it returns, before it sorts them.
ResolveActiveKey(w) == {k \in KeyIds : mappings[w][k].state \in {"CURRENT", "COOLING"}}

KeyInit ==
    /\ mappings = [w \in Wallets |-> [k \in KeyIds |-> NoMapping]]
    /\ now = 0
    /\ demoted = [w \in Wallets |-> [k \in KeyIds |-> -1]]

\* Refused while the wallet has a current mapping, or any mapping to this key.
Bind(w, k) ==
    /\ Current(w) = {}
    /\ mappings[w][k].state = "NONE"
    /\ mappings' = [mappings EXCEPT ![w][k] = CurrentMapping(now)]
    /\ UNCHANGED <<now, demoted>>

DemotedAtOnce(m) == [m EXCEPT !.state = "COOLING", !.activeTo = now]

Demoted(m) == [m EXCEPT !.state = "COOLING", !.activeTo = now + KeyCoolingPeriod]

RotateToNewKeyOnly(w, newKeyID) ==
    /\ mappings' = [mappings EXCEPT ![w] =
          [k \in KeyIds |->
              IF k = newKeyID /\ @[k].state = "NONE" THEN CurrentMapping(now)
              ELSE IF @[k].state = "CURRENT"         THEN Demoted(@[k])
              ELSE @[k]]]
    /\ demoted' = [demoted EXCEPT ![w] =
          [k \in KeyIds |-> IF k \in Current(w) \ {newKeyID} THEN now ELSE @[k]]]
    /\ UNCHANGED now

\* The current mapping cools off and newKeyID is current, whether it is new,
\* cooling, retired or the current key itself.
Rotate(w, newKeyID) ==
    /\ mappings' = [mappings EXCEPT ![w] =
          [k \in KeyIds |->
              IF k = newKeyID                THEN CurrentMapping(now)
              ELSE IF @[k].state = "CURRENT" THEN Demoted(@[k])
              ELSE @[k]]]
    /\ demoted' = [demoted EXCEPT ![w] =
          [k \in KeyIds |-> IF k \in Current(w) \ {newKeyID} THEN now ELSE @[k]]]
    /\ UNCHANGED now

ElapsedAtEnd(m) == m.activeTo <= now

\* The cooling period of a mapping is over.
Elapsed(m) == m.activeTo < now

ExpireCooling ==
    /\ mappings' = [w \in Wallets |-> [k \in KeyIds |->
          IF mappings[w][k].state = "COOLING" /\ Elapsed(mappings[w][k])
          THEN [mappings[w][k] EXCEPT !.state = "RETIRED"]
          ELSE mappings[w][k]]]
    /\ mappings' # mappings
    /\ UNCHANGED <<now, demoted>>

Tick ==
    /\ now < MaxTime
    /\ now' = now + 1
    /\ UNCHANGED <<mappings, demoted>>

KeyNext ==
    \/ \E w \in Wallets, k \in KeyIds : Bind(w, k) \/ Rotate(w, k)
    \/ ExpireCooling
    \/ Tick

KeySpec == KeyInit /\ [][KeyNext]_keyVars

-----------------------------------------------------------------------------

Bound(w) == \E k \in KeyIds : mappings[w][k].state # "NONE"

\* Bind, RotateKeyMapping and ExpireCooling: once bound, a wallet always has
\* exactly one current key, also after it was rotated back to an old one.
OneCurrent == \A w \in Wallets : Bound(w) => \E k \in KeyIds : Current(w) = {k}

\* RotateKeyMapping and ExpireCooling: whatever rotations follow, a key that was
\* rotated out resolves for the whole cooling period.
CoolingResolves ==
    \A w \in Wallets, k \in KeyIds :
        demoted[w][k] >= 0 /\ now <= demoted[w][k] + KeyCoolingPeriod
            => k \in ResolveActiveKey(w)
=============================================================================

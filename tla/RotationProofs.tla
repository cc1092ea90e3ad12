--------------------------- MODULE RotationProofs ---------------------------
(***************************************************************************)
(* The theorems about AddressRotation, for any wallets, callers, bounds,   *)
(* faults, locker and, for the first, backend: what keeps addresses apart  *)
(* is the rules of the addresses table, not the lock.                      *)
(***************************************************************************)
EXTENDS AddressRotation, FiniteSetTheorems, TLAPS

Places == {"idle", "state", "active", "lock", "acquire", "peek", "recheck", "deprecate",
           "index", "solana", "insert", "release", "delete"}

AddressRows == [wallet : Wallets, chain : Chains \cup {"none"}, index : Int,
                state : {"ACTIVE", "DEPRECATED"}]

CallRecords == [at : Places, op : {"none", "current", "force"}, wallet : Wallets \cup {NoWallet},
                old : Nat, index : Int, tries : Nat, state : WalletStates \cup {"NONE"}]

\* A caller on its way has a wallet.
CallOK(v) == v \in CallRecords /\ (v.at # "idle" => v.wallet \in Wallets)

RotationTypeOK ==
    /\ wallets \in [Wallets -> [chain : Chains \cup {"none"}, state : WalletStates \cup {"NONE"}]]
    /\ rows \in Seq(AddressRows)
    /\ calls \in [Callers -> CallRecords]
    /\ \A c \in Callers : CallOK(calls[c])

ActiveAlike ==
    \A i, j \in DOMAIN rows :
        /\ rows[i].state = "ACTIVE" /\ rows[j].state = "ACTIVE"
        /\ rows[i].wallet = rows[j].wallet
        => i = j

\* UNIQUE (chain, address).
AddressAlike ==
    Backend = "postgres" =>
        \A i, j \in DOMAIN rows :
            rows[i].chain = rows[j].chain /\ rows[i].index = rows[j].index => i = j

RotationInv == RotationTypeOK /\ ActiveAlike /\ AddressAlike

\* No wallet and no address at first.
LEMMA RotationInitially == RotationInit => RotationInv
  BY DEF RotationInit, RotationInv, RotationTypeOK, ActiveAlike, AddressAlike, NoCall, CallOK,
         CallRecords, Places, WalletStates

\* A step that moves one caller on and touches no table.
LEMMA CallStep ==
    ASSUME RotationInv, NEW c \in Callers, NEW v, CallOK(v),
           calls' = [calls EXCEPT ![c] = v], UNCHANGED <<wallets, rows>>
    PROVE  RotationInv'
<1>1. calls' \in [Callers -> CallRecords] /\ \A d \in Callers : CallOK(calls'[d])
  BY DEF RotationInv, RotationTypeOK, CallOK
<1>2. RotationTypeOK'
  BY <1>1 DEF RotationInv, RotationTypeOK
<1>3. QED
  BY <1>2 DEF RotationInv, ActiveAlike, AddressAlike

\* What Goto and Return write.
LEMMA MovedCall ==
    ASSUME RotationInv, NEW c \in Callers
    PROVE  /\ CallOK(NoCall)
           /\ \A p \in Places : calls[c].at # "idle" =>
                 /\ CallOK([calls[c] EXCEPT !.at = p])
                 /\ \A i \in Nat : CallOK([calls[c] EXCEPT !.at = p, !.old = i])
                 /\ \A n \in Int : CallOK([calls[c] EXCEPT !.at = p, !.index = n])
                 /\ \A k \in Nat : CallOK([calls[c] EXCEPT !.at = p, !.tries = k])
<1>1. CallOK(NoCall)
  BY DEF NoCall, CallOK, CallRecords, Places, WalletStates
<1>2. CallOK(calls[c])
  BY DEF RotationInv, RotationTypeOK
<1>3. ASSUME NEW p \in Places, calls[c].at # "idle"
      PROVE  CallOK([calls[c] EXCEPT !.at = p])
  BY <1>2, <1>3 DEF CallOK, CallRecords
<1>4. ASSUME NEW p \in Places, calls[c].at # "idle", NEW i \in Nat
      PROVE  CallOK([calls[c] EXCEPT !.at = p, !.old = i])
  BY Zenon, <1>2, <1>4 DEF CallOK, CallRecords
<1>5. ASSUME NEW p \in Places, calls[c].at # "idle", NEW n \in Int
      PROVE  CallOK([calls[c] EXCEPT !.at = p, !.index = n])
  BY Zenon, <1>2, <1>5 DEF CallOK, CallRecords
<1>6. ASSUME NEW p \in Places, calls[c].at # "idle", NEW k \in Nat
      PROVE  CallOK([calls[c] EXCEPT !.at = p, !.tries = k])
  BY Zenon, <1>2, <1>6 DEF CallOK, CallRecords
<1>7. QED
  BY Zenon, <1>1, <1>3, <1>4, <1>5, <1>6

\* Goto and Return keep the invariant when no table changes.
LEMMA MovedStep ==
    ASSUME RotationInv, NEW c \in Callers, UNCHANGED <<wallets, rows>>,
           \/ Return(c)
           \/ calls[c].at # "idle" /\ \E p \in Places : Goto(c, p)
    PROVE  RotationInv'
<1>1. CASE Return(c)
  BY Zenon, <1>1, MovedCall, CallStep DEF Return
<1>2. CASE calls[c].at # "idle" /\ \E p \in Places : Goto(c, p)
  <2>1. PICK p \in Places : Goto(c, p)
    BY <1>2
  <2>2. CallOK([calls[c] EXCEPT !.at = p])
    BY Zenon, <1>2, MovedCall
  <2>3. QED
    BY Zenon, <2>1, <2>2, CallStep DEF Goto
<1>3. QED
  BY <1>1, <1>2

-----------------------------------------------------------------------------

\* DeprecateAddress: a row that stops being active breaks no rule.
LEMMA DeprecateStep ==
    ASSUME RotationInv, NEW i, DeprecateRow(i)
    PROVE  /\ rows' \in Seq(AddressRows)
           /\ ActiveAlike' /\ AddressAlike'
<1>1. rows \in Seq(AddressRows)
  BY DEF RotationInv, RotationTypeOK
<1>2. CASE i \in DOMAIN rows
  <2>1. rows[i] \in AddressRows
    BY <1>1, <1>2
  <2> DEFINE row == [rows[i] EXCEPT !.state = "DEPRECATED"]
  <2>2. /\ row \in AddressRows /\ row.state = "DEPRECATED" /\ row.wallet = rows[i].wallet
        /\ row.chain = rows[i].chain /\ row.index = rows[i].index
    BY <2>1 DEF AddressRows
  <2>3. rows' = [rows EXCEPT ![i] = row]
    BY DEF DeprecateRow
  <2> HIDE DEF row
  <2>4. rows' \in Seq(AddressRows)
    BY <1>1, <1>2, <2>2, <2>3
  <2>5. DOMAIN rows' = DOMAIN rows
    BY <2>3
  <2>6. \A j \in DOMAIN rows :
            /\ rows'[j].wallet = rows[j].wallet /\ rows'[j].chain = rows[j].chain
            /\ rows'[j].index = rows[j].index
            /\ rows'[j].state = "ACTIVE" => rows[j].state = "ACTIVE"
    BY <1>1, <2>2, <2>3
  <2>7. QED
    BY <2>4, <2>5, <2>6 DEF RotationInv, ActiveAlike, AddressAlike
<1>3. CASE i \notin DOMAIN rows
  <2>1. rows' = rows
    BY <1>1, <1>3 DEF DeprecateRow
  <2>2. QED
    BY <1>1, <2>1 DEF RotationInv, ActiveAlike, AddressAlike
<1>4. QED
  BY <1>2, <1>3

\* InsertAddress: what the rules of the table admit keeps them.
LEMMA InsertStep ==
    ASSUME RotationInv, NEW c \in Callers, InsertAddress(c)
    PROVE  /\ rows' \in Seq(AddressRows)
           /\ ActiveAlike' /\ AddressAlike'
<1> DEFINE w == calls[c].wallet
           n == calls[c].index
           row == [wallet |-> w, chain |-> ChainOf(w), index |-> n, state |-> "ACTIVE"]
<1>1. rows \in Seq(AddressRows)
  BY DEF RotationInv, RotationTypeOK
<1>2. CASE ~InsertAdmits(w, n)
  <2>1. rows' = rows
    BY <1>2 DEF InsertAddress
  <2>2. QED
    BY <1>1, <2>1 DEF RotationInv, ActiveAlike, AddressAlike
<1>3. CASE InsertAdmits(w, n)
  <2>1. rows' = Append(rows, row)
    BY <1>3 DEF InsertAddress
  <2>2. w \in Wallets /\ n \in Int
    BY DEF RotationInv, RotationTypeOK, CallOK, CallRecords, InsertAddress, At
  <2>3. row \in AddressRows
    BY <2>2 DEF AddressRows, ChainOf, RotationInv, RotationTypeOK
  <2>4. /\ \A i \in DOMAIN rows : ~(rows[i].wallet = row.wallet /\ rows[i].state = "ACTIVE")
        /\ Backend = "postgres" =>
              \A i \in DOMAIN rows : ~(rows[i].chain = row.chain /\ rows[i].index = row.index)
    BY <1>3 DEF InsertAdmits, Active, RowsOf
  <2> HIDE DEF row
  <2>5. rows' \in Seq(AddressRows) /\ DOMAIN rows' = DOMAIN rows \cup {Len(rows) + 1}
    BY <1>1, <2>1, <2>3
  <2>6. /\ \A i \in DOMAIN rows : rows'[i] = rows[i]
        /\ rows'[Len(rows) + 1] = row
    BY <1>1, <2>1, <2>3
  <2>7. ActiveAlike'
    BY <2>4, <2>5, <2>6 DEF RotationInv, ActiveAlike
  <2>8. AddressAlike'
    BY <2>4, <2>5, <2>6 DEF RotationInv, AddressAlike
  <2>9. QED
    BY <2>5, <2>7, <2>8
<1>4. QED
  BY <1>2, <1>3

\* A step that moves one caller on and changes the addresses within the rules.
LEMMA TableStep ==
    ASSUME RotationInv, NEW c \in Callers, NEW p \in Places, Goto(c, p), calls[c].at # "idle",
           UNCHANGED wallets, rows' \in Seq(AddressRows), ActiveAlike', AddressAlike'
    PROVE  RotationInv'
<1>1. CallOK([calls[c] EXCEPT !.at = p])
  BY Zenon, MovedCall
<1>2. calls' \in [Callers -> CallRecords] /\ \A d \in Callers : CallOK(calls'[d])
  BY <1>1 DEF RotationInv, RotationTypeOK, CallOK, Goto
<1>3. QED
  BY <1>2 DEF RotationInv, RotationTypeOK

\* CurrentOrRotate, ForceRotate and the lock: each step of a derivation.
LEMMA DeriveInvStep ==
    ASSUME RotationInv, NEW c \in Callers, DeriveStep(c)
    PROVE  RotationInv'
<1> USE DEF At
<1>0. {"lock", "acquire", "peek", "recheck", "deprecate", "index", "solana", "insert",
       "release", "delete"} \subseteq Places
  BY DEF Places
<1>1. CASE ReadActive(c)
  <2>1. CASE \E i \in Active(calls[c].wallet) :
                 calls' = [calls EXCEPT ![c].at = "lock", ![c].old = i]
    <3>1. PICK i \in Active(calls[c].wallet) :
                 calls' = [calls EXCEPT ![c].at = "lock", ![c].old = i]
      BY Zenon, <2>1
    <3>2. i \in Nat
      BY DEF RotationInv, RotationTypeOK, Active, RowsOf
    <3>3. CallOK([calls[c] EXCEPT !.at = "lock", !.old = i])
      BY Zenon, <1>0, <1>1, <3>2, MovedCall DEF ReadActive
    <3>4. calls' = [calls EXCEPT ![c] = [calls[c] EXCEPT !.at = "lock", !.old = i]]
      BY Zenon, <3>1 DEF RotationInv, RotationTypeOK, CallRecords
    <3>5. QED
      BY Zenon, <1>1, <3>3, <3>4, CallStep DEF ReadActive
  <2>2. CASE Return(c) \/ Goto(c, "acquire") \/ Goto(c, "lock")
    BY <1>0, <1>1, <2>2, MovedStep DEF ReadActive
  <2>3. QED
    BY <1>1, <2>1, <2>2 DEF ReadActive
<1>2. CASE LockRotation(c)
  BY <1>0, <1>2, MovedStep DEF LockRotation, Acquire
<1>3. CASE LockFirst(c)
  BY <1>0, <1>3, MovedStep DEF LockFirst, Acquire
<1>4. CASE Peek(c)
  <2>1. CASE Return(c)
    BY <1>4, <2>1, MovedStep DEF Peek
  <2>2. CASE ~Return(c)
    <3>1. calls' = [calls EXCEPT ![c].at = "acquire", ![c].tries = @ + 1]
      BY <1>4, <2>2 DEF Peek
    <3>2. calls[c] \in CallRecords /\ calls[c].tries + 1 \in Nat
      BY DEF RotationInv, RotationTypeOK, CallRecords
    <3>3. CallOK([calls[c] EXCEPT !.at = "acquire", !.tries = calls[c].tries + 1])
      BY Zenon, <1>0, <1>4, <3>2, MovedCall DEF Peek
    <3>4. calls' = [calls EXCEPT ![c] =
                       [calls[c] EXCEPT !.at = "acquire", !.tries = calls[c].tries + 1]]
      BY <3>1, <3>2 DEF CallRecords, RotationInv, RotationTypeOK
    <3>5. QED
      BY Zenon, <1>4, <3>3, <3>4, CallStep DEF Peek
  <2>3. QED
    BY <2>1, <2>2
<1>5. CASE Recheck(c)
  BY <1>0, <1>5, MovedStep DEF Recheck
<1>6. CASE DeprecateAddress(c)
  BY <1>0, <1>6, DeprecateStep, TableStep DEF DeprecateAddress
<1>7. CASE NextAddressIndex(c)
  <2> DEFINE chain == ChainOf(calls[c].wallet)
             p == IF chain = "solana" THEN "solana" ELSE "insert"
  <2>1. PICK top \in Indexes(chain) :
            calls' = [calls EXCEPT ![c].at = p, ![c].index = DeriveAt(chain, top + 1)]
    BY Zenon, <1>7 DEF NextAddressIndex
  <2>2. DeriveAt(chain, top + 1) \in Int
    <3>1. \A i \in DOMAIN rows : rows[i] \in AddressRows
      BY DEF RotationInv, RotationTypeOK
    <3>2. top \in Int
      BY <3>1 DEF Indexes, AddressRows
    <3>3. QED
      BY <3>2 DEF DeriveAt
  <2>3. p \in Places /\ calls[c] \in CallRecords
    BY <1>0 DEF RotationInv, RotationTypeOK
  <2> HIDE DEF p
  <2>4. CallOK([calls[c] EXCEPT !.at = p, !.index = DeriveAt(chain, top + 1)])
    BY Zenon, <1>7, <2>2, <2>3, MovedCall DEF NextAddressIndex
  <2>5. calls' = [calls EXCEPT ![c] =
                     [calls[c] EXCEPT !.at = p, !.index = DeriveAt(chain, top + 1)]]
    BY Zenon, <2>1, <2>3 DEF CallRecords, RotationInv, RotationTypeOK
  <2>6. QED
    BY Zenon, <1>7, <2>4, <2>5, CallStep DEF NextAddressIndex
<1>8. CASE DeprecateSolana(c)
  <2>1. CASE UNCHANGED rows
    BY <1>0, <1>8, <2>1, MovedStep DEF DeprecateSolana
  <2>2. CASE \E i \in RowsOf(calls[c].wallet) : DeprecateRow(i)
    BY <1>0, <1>8, <2>2, DeprecateStep, TableStep DEF DeprecateSolana
  <2>3. QED
    BY <1>8, <2>1, <2>2 DEF DeprecateSolana
<1>9. CASE InsertAddress(c)
  BY <1>0, <1>9, InsertStep, TableStep DEF InsertAddress
<1>10. CASE StoreFails(c)
  BY <1>0, <1>10, MovedStep DEF StoreFails
<1>11. CASE Release(c)
  BY <1>0, <1>11, MovedStep DEF Release
<1>12. CASE DeleteLock(c)
  BY <1>12, MovedStep DEF DeleteLock
<1>13. QED
  BY <1>1, <1>2, <1>3, <1>4, <1>5, <1>6, <1>7, <1>8, <1>9, <1>10, <1>11, <1>12 DEF DeriveStep

\* Wallets are created and change state, requests start, locks expire and callers die.
LEMMA RotationStep == RotationInv /\ [RotationNext]_rotationVars => RotationInv'
<1> SUFFICES ASSUME RotationInv, [RotationNext]_rotationVars PROVE RotationInv'
  OBVIOUS
<1>1. ASSUME UNCHANGED <<rows, calls>>,
             wallets' \in [Wallets -> [chain : Chains \cup {"none"}, state : WalletStates \cup {"NONE"}]]
      PROVE  RotationInv'
  BY <1>1 DEF RotationInv, RotationTypeOK, ActiveAlike, AddressAlike
<1>2. ASSUME NEW w \in Wallets, Expire(w) PROVE RotationInv'
  BY <1>1, <1>2 DEF Expire, RotationInv, RotationTypeOK
<1>3. ASSUME NEW w \in Wallets, NEW chain \in Chains, CreateWallet(w, chain) PROVE RotationInv'
  <2>1. wallets' \in [Wallets -> [chain : Chains \cup {"none"}, state : WalletStates \cup {"NONE"}]]
    BY <1>3 DEF CreateWallet, RotationInv, RotationTypeOK, WalletStates
  <2>2. QED
    BY <1>1, <1>3, <2>1 DEF CreateWallet
<1>4. ASSUME NEW c \in Callers, NEW w \in Wallets, NEW s \in WalletStates, ReadState(c, w, s)
      PROVE  RotationInv'
  <2>1. NoCall \in CallRecords /\ {"state", "active"} \subseteq Places
    BY Zenon, MovedCall DEF CallOK, Places
  <2>2. CallOK([NoCall EXCEPT !.at = "state", !.wallet = w, !.state = s])
    BY Zenon, <2>1 DEF CallOK, CallRecords
  <2>3. QED
    BY Zenon, <1>4, <2>2, CallStep DEF ReadState
<1>5. ASSUME NEW c \in Callers, NEW w \in Wallets, NEW op \in {"current", "force"},
             StartDerive(c, w, op)
      PROVE  RotationInv'
  <2>1. NoCall \in CallRecords /\ {"state", "active"} \subseteq Places
    BY Zenon, MovedCall DEF CallOK, Places
  <2>2. CallOK([NoCall EXCEPT !.at = "active", !.op = op, !.wallet = w])
    BY Zenon, <2>1 DEF CallOK, CallRecords
  <2>3. QED
    BY Zenon, <1>5, <2>2, CallStep DEF StartDerive
<1>6. ASSUME NEW c \in Callers, UpdateWalletState(c) PROVE RotationInv'
  <2> DEFINE w == calls[c].wallet
  <2>1. w \in Wallets /\ calls[c].state \in WalletStates \cup {"NONE"}
    BY <1>6 DEF UpdateWalletState, At, RotationInv, RotationTypeOK, CallOK, CallRecords
  <2>2. wallets' \in [Wallets -> [chain : Chains \cup {"none"}, state : WalletStates \cup {"NONE"}]]
    BY <1>6, <2>1 DEF UpdateWalletState, RotationInv, RotationTypeOK
  <2>3. calls' \in [Callers -> CallRecords] /\ \A d \in Callers : CallOK(calls'[d])
    BY Zenon, <1>6, MovedCall DEF UpdateWalletState, Return, RotationInv, RotationTypeOK, CallOK
  <2>4. UNCHANGED rows
    BY <1>6 DEF UpdateWalletState
  <2>5. QED
    BY <2>2, <2>3, <2>4 DEF RotationInv, RotationTypeOK, ActiveAlike, AddressAlike
<1>7. ASSUME NEW c \in Callers, RotationCrash(c) PROVE RotationInv'
  BY <1>7, MovedStep DEF RotationCrash
<1>8. CASE UNCHANGED rotationVars
  BY <1>1, <1>8 DEF rotationVars, RotationInv, RotationTypeOK
<1>9. QED
  BY <1>2, <1>3, <1>4, <1>5, <1>6, <1>7, <1>8, DeriveInvStep DEF RotationNext

\* The invariant holds throughout.
LEMMA RotationInvariant == RotationSpec => []RotationInv
  BY RotationInitially, RotationStep, PTL DEF RotationSpec

\* A set whose members are all the same has at most one.
LEMMA AlikeCardinality ==
    ASSUME NEW S, \A x, y \in S : x = y
    PROVE  Cardinality(S) <= 1
<1>1. CASE S = {}
  BY <1>1, FS_EmptySet
<1>2. CASE S # {}
  <2>1. PICK x : x \in S
    BY <1>2
  <2>2. S = {x}
    BY <2>1
  <2>3. QED
    BY <2>2, FS_Singleton
<1>3. QED
  BY <1>1, <1>2

\* InsertAddress: a wallet never has two active addresses, on either store and with either
\* locker, also when the lock expires under its holder.
THEOREM OneActiveAddress == RotationSpec => []OneActive
<1>1. RotationInv => OneActive
  <2> SUFFICES ASSUME RotationInv, NEW w \in Wallets PROVE Cardinality(Active(w)) <= 1
    BY DEF OneActive
  <2>1. \A i, j \in Active(w) : i = j
    BY DEF RotationInv, ActiveAlike, Active, RowsOf
  <2>2. QED
    BY <2>1, AlikeCardinality
<1>2. QED
  BY <1>1, RotationInvariant, PTL

\* NextAddressIndex and InsertAddress: on Postgres no two wallets share an address, however
\* many of them take the same index.
THEOREM AddressesApart ==
    ASSUME Backend = "postgres"
    PROVE  RotationSpec => []AddressUnique
<1>1. RotationInv => AddressUnique
  BY DEF RotationInv, AddressAlike, AddressUnique
<1>2. QED
  BY <1>1, RotationInvariant, PTL
=============================================================================

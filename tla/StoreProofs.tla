----------------------------- MODULE StoreProofs -----------------------------
(***************************************************************************)
(* The theorems about KeyMapping, for any wallets, keys, cooling period    *)
(* and length of a run, and those about MemStore, for any number of        *)
(* goroutines: under its reentrant mutex the in-memory store is an atomic  *)
(* store of key mappings, and a rollback undoes what its transaction wrote *)
(* and nothing else.                                                       *)
(***************************************************************************)
EXTENDS MemStore, TLAPS

------------------------------------------------------------------------------
(* KeyMapping *)

KeyTypeOK ==
    /\ mappings \in [Wallets -> [KeyIds -> Mappings]]
    /\ now \in Nat
    /\ demoted \in [Wallets -> [KeyIds -> Nat \cup {-1}]]

\* A key that was rotated out at time t is current again, or its active_to is
\* at least a cooling period after t; it is retired only after its active_to.
CoolingInv ==
    \A w \in Wallets, k \in KeyIds :
        LET m == mappings[w][k] IN
        demoted[w][k] >= 0 =>
            \/ m.state = "CURRENT"
            \/ /\ m.state \in {"COOLING", "RETIRED"}
               /\ m.activeTo >= demoted[w][k] + KeyCoolingPeriod
               /\ m.state = "RETIRED" => m.activeTo < now

KeyInv == KeyTypeOK /\ OneCurrent /\ CoolingInv

\* The empty table satisfies the invariant.
LEMMA KeyInitial == KeyInit => KeyInv
BY DEF KeyInit, KeyInv, KeyTypeOK, OneCurrent, CoolingInv, Bound, NoMapping, Mappings,
       RotationStates

\* The row of a mapping that RotateKeyMapping demotes.
LEMMA DemotedRow ==
    ASSUME NEW m \in Mappings, now + KeyCoolingPeriod \in Nat
    PROVE  /\ Demoted(m) \in Mappings
           /\ Demoted(m).state = "COOLING"
           /\ Demoted(m).activeTo = now + KeyCoolingPeriod
BY Zenon DEF Demoted, Mappings, RotationStates

\* The row of a mapping that ExpireCooling retires.
LEMMA RetiredRow ==
    ASSUME NEW m \in Mappings
    PROVE  /\ [m EXCEPT !.state = "RETIRED"] \in Mappings
           /\ [m EXCEPT !.state = "RETIRED"].state = "RETIRED"
           /\ [m EXCEPT !.state = "RETIRED"].activeTo = m.activeTo
BY DEF Mappings, RotationStates

\* Bind, Rotate, ExpireCooling and the clock preserve it.
LEMMA KeyStep == KeyInv /\ [KeyNext]_keyVars => KeyInv'
<1> SUFFICES ASSUME KeyInv, [KeyNext]_keyVars PROVE KeyInv'
  OBVIOUS
<1> USE KeyConstants DEF KeyInv, KeyTypeOK, Mappings, RotationStates
<1>1. CASE \E w \in Wallets, k \in KeyIds : Bind(w, k)
  <2>1. PICK w \in Wallets, k \in KeyIds : Bind(w, k)
    BY <1>1
  <2>2. CurrentMapping(now) \in Mappings /\ CurrentMapping(now).state = "CURRENT"
    BY DEF CurrentMapping
  <2>3. mappings' \in [Wallets -> [KeyIds -> Mappings]]
    BY <2>1, <2>2 DEF Bind
  <2>4. \A v \in Wallets, j \in KeyIds :
          mappings'[v][j] = IF v = w /\ j = k THEN CurrentMapping(now) ELSE mappings[v][j]
    BY <2>1 DEF Bind
  <2>5. now' = now /\ demoted' = demoted /\ Current(w) = {}
    BY <2>1 DEF Bind
  <2>6. OneCurrent'
    <3>1. Current(w)' = {k}
      BY <2>2, <2>4, <2>5 DEF Current
    <3>2. \A v \in Wallets \ {w} : Current(v)' = Current(v) /\ (Bound(v)' => Bound(v))
      BY <2>4 DEF Current, Bound
    <3> QED
      BY Zenon, <3>1, <3>2 DEF OneCurrent
  <2>7. CoolingInv'
    BY <2>2, <2>4, <2>5 DEF CoolingInv
  <2> QED
    BY <2>3, <2>5, <2>6, <2>7
<1>2. CASE \E w \in Wallets, k \in KeyIds : Rotate(w, k)
  <2>1. PICK w \in Wallets, new \in KeyIds : Rotate(w, new)
    BY <1>2
  <2>2. CurrentMapping(now) \in Mappings /\ CurrentMapping(now).state = "CURRENT"
    BY DEF CurrentMapping
  <2>3. \A m \in Mappings : /\ Demoted(m) \in Mappings
                           /\ Demoted(m).state = "COOLING"
                           /\ Demoted(m).activeTo = now + KeyCoolingPeriod
    <3>1. now + KeyCoolingPeriod \in Nat
      OBVIOUS
    <3> QED
      BY <3>1, DemotedRow
  <2>4. \A v \in Wallets, j \in KeyIds :
          /\ v # w => mappings'[v][j] = mappings[v][j] /\ demoted'[v][j] = demoted[v][j]
          /\ v = w /\ j = new => /\ mappings'[v][j] = CurrentMapping(now)
                                /\ demoted'[v][j] = demoted[v][j]
          /\ v = w /\ j # new /\ mappings[v][j].state = "CURRENT"
                => mappings'[v][j] = Demoted(mappings[v][j]) /\ demoted'[v][j] = now
          /\ v = w /\ j # new /\ mappings[v][j].state # "CURRENT"
                => mappings'[v][j] = mappings[v][j] /\ demoted'[v][j] = demoted[v][j]
    BY <2>1 DEF Rotate, Current
  <2>5. /\ now' = now
        /\ \E f \in [KeyIds -> Mappings] : mappings' = [mappings EXCEPT ![w] = f]
        /\ \E g \in [KeyIds -> Nat \cup {-1}] : demoted' = [demoted EXCEPT ![w] = g]
    <3>1. [k \in KeyIds |-> IF k = new THEN CurrentMapping(now)
                            ELSE IF mappings[w][k].state = "CURRENT"
                                 THEN Demoted(mappings[w][k]) ELSE mappings[w][k]]
            \in [KeyIds -> Mappings]
      BY <2>2, <2>3
    <3>2. [k \in KeyIds |-> IF k \in Current(w) \ {new} THEN now ELSE demoted[w][k]]
            \in [KeyIds -> Nat \cup {-1}]
      OBVIOUS
    <3> QED
      BY Zenon, <2>1, <3>1, <3>2 DEF Rotate
  <2>6. KeyTypeOK'
    BY <2>5
  <2>7. OneCurrent'
    <3>1. \A k \in KeyIds : mappings'[w][k].state = "CURRENT" <=> k = new
      <4> SUFFICES ASSUME NEW k \in KeyIds
                   PROVE  mappings'[w][k].state = "CURRENT" <=> k = new
        OBVIOUS
      <4>1. mappings[w][k] \in Mappings
        OBVIOUS
      <4>2. CASE k = new
        BY <2>2, <2>4, <4>2
      <4>3. CASE k # new /\ mappings[w][k].state = "CURRENT"
        <5>1. mappings'[w][k] = Demoted(mappings[w][k])
          BY <2>4, <4>3
        <5> QED
          BY <2>3, <4>1, <4>3, <5>1
      <4>4. CASE k # new /\ mappings[w][k].state # "CURRENT"
        BY <2>4, <4>4
      <4> QED
        BY <4>2, <4>3, <4>4
    <3>2. Current(w)' = {new}
      BY <3>1 DEF Current
    <3>3. \A v \in Wallets \ {w} : Current(v)' = Current(v) /\ (Bound(v)' => Bound(v))
      BY <2>4 DEF Current, Bound
    <3> QED
      BY Zenon, <3>2, <3>3 DEF OneCurrent
  <2>8. CoolingInv'
    <3> SUFFICES ASSUME NEW v \in Wallets, NEW j \in KeyIds, demoted'[v][j] >= 0
                 PROVE  \/ mappings'[v][j].state = "CURRENT"
                        \/ /\ mappings'[v][j].state \in {"COOLING", "RETIRED"}
                           /\ mappings'[v][j].activeTo >= demoted'[v][j] + KeyCoolingPeriod
                           /\ mappings'[v][j].state = "RETIRED" => mappings'[v][j].activeTo < now'
      BY DEF CoolingInv
    <3>1. CASE v = w /\ j = new
      BY <2>2, <2>4, <3>1
    <3>2. CASE v = w /\ j # new /\ mappings[v][j].state = "CURRENT"
      <4>1. mappings[v][j] \in Mappings
        OBVIOUS
      <4> QED
        BY <2>3, <2>4, <3>2, <4>1
    <3>3. CASE mappings'[v][j] = mappings[v][j] /\ demoted'[v][j] = demoted[v][j]
      BY <2>5, <3>3 DEF CoolingInv
    <3> QED
      BY <2>4, <3>1, <3>2, <3>3
  <2> QED
    BY <2>6, <2>7, <2>8
<1>3. CASE ExpireCooling
  <2>1. /\ now' = now /\ demoted' = demoted
        /\ \A w \in Wallets, k \in KeyIds :
              \/ mappings'[w][k] = mappings[w][k]
              \/ /\ mappings[w][k].state = "COOLING" /\ mappings[w][k].activeTo < now
                 /\ mappings'[w][k] = [mappings[w][k] EXCEPT !.state = "RETIRED"]
    BY <1>3 DEF ExpireCooling, Elapsed
  <2>2. \A w \in Wallets, k \in KeyIds :
          /\ mappings'[w][k] \in Mappings
          /\ mappings'[w][k].activeTo = mappings[w][k].activeTo
          /\ \/ mappings'[w][k].state = mappings[w][k].state
             \/ /\ mappings[w][k].state = "COOLING" /\ mappings'[w][k].state = "RETIRED"
                /\ mappings[w][k].activeTo < now
    <3>1. \A w \in Wallets, k \in KeyIds : mappings[w][k] \in Mappings
      OBVIOUS
    <3> SUFFICES ASSUME NEW w \in Wallets, NEW k \in KeyIds
                 PROVE  /\ mappings'[w][k] \in Mappings
                        /\ mappings'[w][k].activeTo = mappings[w][k].activeTo
                        /\ \/ mappings'[w][k].state = mappings[w][k].state
                           \/ /\ mappings[w][k].state = "COOLING"
                              /\ mappings'[w][k].state = "RETIRED"
                              /\ mappings[w][k].activeTo < now
      OBVIOUS
    <3>2. CASE mappings'[w][k] = mappings[w][k]
      BY <3>1, <3>2
    <3>3. CASE /\ mappings[w][k].state = "COOLING" /\ mappings[w][k].activeTo < now
               /\ mappings'[w][k] = [mappings[w][k] EXCEPT !.state = "RETIRED"]
      BY <3>1, <3>3, RetiredRow
    <3> QED
      BY <2>1, <3>2, <3>3
  <2>3. mappings' \in [Wallets -> [KeyIds -> Mappings]]
    BY <1>3, <2>2 DEF ExpireCooling
  <2>4. \A w \in Wallets : Current(w)' = Current(w) /\ (Bound(w)' => Bound(w))
    <3>1. \A w \in Wallets, k \in KeyIds :
            /\ mappings'[w][k].state = "CURRENT" <=> mappings[w][k].state = "CURRENT"
            /\ mappings'[w][k].state # "NONE" => mappings[w][k].state # "NONE"
      BY <2>2
    <3> QED
      BY <3>1 DEF Current, Bound
  <2>5. OneCurrent'
    BY <2>4 DEF OneCurrent
  <2>6. CoolingInv'
    BY <2>1, <2>2 DEF CoolingInv
  <2> QED
    BY <2>1, <2>3, <2>5, <2>6
<1>4. CASE Tick
  <2>1. now' = now + 1 /\ mappings' = mappings /\ demoted' = demoted
    BY <1>4 DEF Tick
  <2>2. OneCurrent'
    BY <2>1 DEF OneCurrent, Bound, Current
  <2>3. CoolingInv'
    BY <2>1 DEF CoolingInv
  <2> QED
    BY <2>1, <2>2, <2>3
<1>5. CASE UNCHANGED keyVars
  <2>1. now' = now /\ mappings' = mappings /\ demoted' = demoted
    BY <1>5 DEF keyVars
  <2>2. OneCurrent'
    BY <2>1 DEF OneCurrent, Bound, Current
  <2>3. CoolingInv'
    BY <2>1 DEF CoolingInv
  <2> QED
    BY <2>1, <2>2, <2>3
<1> QED
  BY <1>1, <1>2, <1>3, <1>4, <1>5 DEF KeyNext

\* Bind, RotateKeyMapping and ExpireCooling never leave a bound wallet without a
\* current key or with two.
THEOREM AlwaysOneCurrent == KeySpec => []OneCurrent
<1>1. KeyInv => OneCurrent
  BY DEF KeyInv
<1> QED
  BY <1>1, KeyInitial, KeyStep, PTL DEF KeySpec

\* ExpireCooling never retires a key before the cooling period of its last
\* rotation is over, however often the wallet is rotated to and fro.
THEOREM CoolingHonoured == KeySpec => []CoolingResolves
<1>1. KeyInv => CoolingResolves
  <2> SUFFICES ASSUME KeyInv, NEW w \in Wallets, NEW k \in KeyIds, demoted[w][k] >= 0,
                      now <= demoted[w][k] + KeyCoolingPeriod
               PROVE  mappings[w][k].state \in {"CURRENT", "COOLING"}
    BY DEF CoolingResolves, ResolveActiveKey
  <2>1. /\ now \in Nat /\ demoted[w][k] \in Nat \cup {-1}
        /\ mappings[w][k].activeTo \in Nat \cup {-1}
    BY DEF KeyInv, KeyTypeOK, Mappings
  <2> QED
    BY <2>1, KeyConstants DEF KeyInv, CoolingInv
<1> QED
  BY <1>1, KeyInitial, KeyStep, PTL DEF KeySpec

------------------------------------------------------------------------------
(* MemStore *)

CallSet == [op : {"none", "bind", "rotate", "expire", "sign", "tx"},
            at : {"idle", "lock", "inside", "unlock", "fn", "sign"},
            next : {"none", "upsert", "seq", "append", "return"},
            wallet : Wallets \cup {NoWallet}, key : KeyIds \cup {NoKey}]

CallOK(v) ==
    /\ v \in CallSet
    /\ v.at = "idle" => v.op = "none"
    /\ v.op # "tx" => v.next = "none"
    /\ v.at = "fn" => v.next # "none"
    /\ v.op \in {"bind", "rotate", "sign"} => v.wallet \in Wallets
    /\ v.op \in {"bind", "rotate"} => v.key \in KeyIds
    /\ v.at = "sign" => v.op = "sign" /\ v.key # NoKey

\* How deep a goroutine is inside lock(), from where it is; next is set in a transaction.
DepthOK(v, d) ==
    /\ d \in Nat
    /\ v.at \in {"idle", "sign"} => d = 0
    /\ v.at = "lock" => d = IF v.next = "none" THEN 0 ELSE 1
    /\ v.at = "inside" => d = IF v.next = "none" THEN 1 ELSE 2
    /\ v.at = "fn" => d = 1
    /\ v.at = "unlock" => d = 1 \/ (d = 2 /\ v.next # "none")

\* A transaction between its snapshot and its commit or restore.
Open(v, d) == v.next # "none" /\ ~(v.at = "unlock" /\ d = 1)

LockInv ==
    /\ calls \in [Goroutines -> CallSet] /\ depths \in [Goroutines -> Nat]
    /\ \A p \in Goroutines : CallOK(calls[p]) /\ DepthOK(calls[p], depths[p])
    /\ \A p \in Goroutines : depths[p] > 0 <=> mu = p

Counts(n) == [balance |-> n, seq |-> n, audit |-> n]

\* What a transaction has written when its next method is m.
Partial(m, n) ==
    [balance |-> IF m = "upsert" THEN n ELSE n + 1,
     seq |-> IF m \in {"upsert", "seq"} THEN n ELSE n + 1,
     audit |-> IF m = "return" THEN n + 1 ELSE n]

\* An open transaction can be undone exactly, and without one the tables are as committed.
TxInv ==
    /\ committed \in Nat
    /\ DOMAIN snaps = Goroutines
    /\ \A p \in Goroutines : Open(calls[p], depths[p]) =>
          /\ snaps[p] = [mappings |-> mappings, ledger |-> Counts(committed)]
          /\ ledger = Partial(calls[p].next, committed)
    /\ (\A p \in Goroutines : ~Open(calls[p], depths[p])) => ledger = Counts(committed)

\* Moving one goroutine keeps the discipline of the mutex, if the goroutine does.
LEMMA LockStep ==
    ASSUME LockInv, NEW p \in Goroutines, NEW v, NEW d,
           calls' = [calls EXCEPT ![p] = v], depths' = [depths EXCEPT ![p] = d],
           CallOK(v), DepthOK(v, d),
           \/ d > 0 /\ depths[p] > 0 /\ mu' = mu
           \/ d = 0 /\ depths[p] = 0 /\ mu' = mu
           \/ d > 0 /\ mu = Free /\ mu' = p
           \/ d = 0 /\ mu = p /\ mu' = Free
    PROVE  LockInv'
<1>1. calls' \in [Goroutines -> CallSet] /\ depths' \in [Goroutines -> Nat]
  BY DEF LockInv, CallOK, DepthOK
<1>2. \A q \in Goroutines : CallOK(calls'[q]) /\ DepthOK(calls'[q], depths'[q])
  BY DEF LockInv
<1>3. \A q \in Goroutines : depths'[q] > 0 <=> mu' = q
  BY StoreConstants DEF LockInv, DepthOK
<1>4. QED
  BY <1>1, <1>2, <1>3 DEF LockInv

\* The same, for a step that neither enters nor leaves lock().
LEMMA LockStay ==
    ASSUME LockInv, NEW p \in Goroutines, NEW v, calls' = [calls EXCEPT ![p] = v],
           UNCHANGED <<depths, mu>>, CallOK(v), DepthOK(v, depths[p])
    PROVE  LockInv'
<1>1. calls' \in [Goroutines -> CallSet]
  BY DEF LockInv, CallOK
<1>2. \A q \in Goroutines : CallOK(calls'[q]) /\ DepthOK(calls'[q], depths'[q])
  BY DEF LockInv
<1>3. QED
  BY <1>1, <1>2 DEF LockInv

\* While a goroutine is inside lock() no other has a transaction open.
LEMMA OnlyOpen ==
    ASSUME LockInv, NEW p \in Goroutines, depths[p] > 0
    PROVE  \A q \in Goroutines : q # p => ~Open(calls[q], depths[q])
<1> SUFFICES ASSUME NEW q \in Goroutines, q # p PROVE ~Open(calls[q], depths[q])
  OBVIOUS
<1>1. depths[q] = 0
  BY DEF LockInv
<1>2. calls[q].at \in {"idle", "lock", "inside", "unlock", "fn", "sign"}
  BY DEF LockInv, CallSet
<1>3. calls[q].at \in {"idle", "sign"} => calls[q].next = "none"
  BY DEF LockInv, CallOK
<1>4. QED
  BY <1>1, <1>2, <1>3 DEF LockInv, DepthOK, Open

\* Each step of a goroutine keeps the discipline of the mutex.
LEMMA LockKept ==
    ASSUME LockInv, NEW p \in Goroutines, Lock(p) \/ StoreStep(p)
    PROVE  LockInv'
<1> DEFINE v == calls[p]
           d == depths[p]
<1>0. /\ CallOK(v) /\ DepthOK(v, d) /\ v \in CallSet /\ (d > 0 <=> mu = p)
      /\ calls \in [Goroutines -> CallSet] /\ depths \in [Goroutines -> Nat]
  BY DEF LockInv
<1> USE DEF At
<1>1. CASE Lock(p)
  <2> DEFINE u == [v EXCEPT !.at = "inside"]
  <2>1. CallOK(u) /\ DepthOK(u, d + 1)
    BY <1>0, <1>1 DEF CallOK, CallSet, DepthOK, Lock
  <2>2. calls' = [calls EXCEPT ![p] = u] /\ depths' = [depths EXCEPT ![p] = d + 1] /\ mu' = p
    BY <1>1 DEF Lock, Goto
  <2>3. d + 1 > 0 /\ (mu = Free \/ (d > 0 /\ mu' = mu))
    BY <1>0, <1>1, <2>2 DEF Lock
  <2>4. QED
    BY Zenon, <2>1, <2>2, <2>3, LockStep
<1>2. CASE Unlock(p)
  <2>1. CASE d = 1
    <3> DEFINE u == Returned(v)
    <3>1. CallOK(NoCall) /\ DepthOK(NoCall, 0)
      BY DEF NoCall, CallOK, CallSet, DepthOK
    <3>2. v.op = "sign" /\ v.key # NoKey =>
              CallOK([v EXCEPT !.at = "sign"]) /\ DepthOK([v EXCEPT !.at = "sign"], 0)
      BY <1>0 DEF CallOK, CallSet, DepthOK
    <3>3. CallOK(u) /\ DepthOK(u, 0)
      BY <3>1, <3>2 DEF Returned
    <3> HIDE DEF u
    <3>4. calls' = [calls EXCEPT ![p] = u] /\ depths' = [depths EXCEPT ![p] = 0] /\ mu' = Free
      BY <1>2, <2>1 DEF Unlock, u
    <3>5. mu = p
      BY <1>0, <2>1
    <3>6. QED
      BY Zenon, <3>3, <3>4, <3>5, LockStep
  <2>2. CASE d # 1
    <3> DEFINE u == [v EXCEPT !.at = "fn"]
    <3>1. d = 2 /\ v.next # "none"
      BY <1>0, <1>2, <2>2 DEF Unlock, DepthOK
    <3>2. CallOK(u) /\ DepthOK(u, 1)
      BY <1>0, <3>1 DEF CallOK, CallSet, DepthOK
    <3>3. calls' = [calls EXCEPT ![p] = u] /\ depths' = [depths EXCEPT ![p] = 1] /\ mu' = mu
      BY <1>2, <3>1 DEF Unlock, Goto
    <3>4. 1 > 0 /\ d > 0
      BY <3>1
    <3> HIDE DEF u
    <3>5. QED
      BY Zenon, <3>2, <3>3, <3>4, LockStep
  <2>3. QED
    BY <2>1, <2>2
<1>3. CASE KeyMethod(p)
  <2> DEFINE u == [v EXCEPT !.at = "unlock"]
  <2>1. v.at = "inside" /\ v.next = "none" /\ d = 1
    BY <1>0, <1>3 DEF KeyMethod, CallOK, DepthOK
  <2>2. CallOK(u) /\ DepthOK(u, d)
    BY <1>0, <2>1 DEF CallOK, CallSet, DepthOK
  <2>3. calls' = [calls EXCEPT ![p] = u] /\ UNCHANGED <<depths, mu>>
    BY <1>3 DEF KeyMethod, Goto
  <2>4. QED
    BY Zenon, <2>1, <2>2, <2>3, LockStay
<1>4. CASE ResolveActiveKeyID(p)
  <2>1. v.at = "inside" /\ v.op = "sign" /\ v.next = "none" /\ d = 1 /\ UNCHANGED <<depths, mu>>
    BY <1>0, <1>4 DEF ResolveActiveKeyID, CallOK, DepthOK
  <2>2. PICK k \in KeyIds \cup {NoKey} : calls' = [calls EXCEPT ![p] = [v EXCEPT !.at = "unlock", !.key = k]]
    <3>1. CASE \E k \in FirstActive(v.wallet) : calls' = [calls EXCEPT ![p].at = "unlock", ![p].key = k]
      BY Zenon, <1>0, <3>1 DEF FirstActive, ResolveActiveKey, CallSet
    <3>2. CASE Goto(p, "unlock")
      <4>1. [v EXCEPT !.at = "unlock"] = [v EXCEPT !.at = "unlock", !.key = v.key]
        BY Zenon, <1>0 DEF CallSet
      <4>2. v.key \in KeyIds \cup {NoKey}
        BY <1>0 DEF CallSet
      <4>3. QED
        BY Zenon, <3>2, <4>1, <4>2 DEF Goto
    <3>3. QED
      BY Zenon, <1>4, <3>1, <3>2 DEF ResolveActiveKeyID
  <2> DEFINE u == [v EXCEPT !.at = "unlock", !.key = k]
  <2>3. CallOK(u) /\ DepthOK(u, d)
    BY Zenon, <1>0, <2>1 DEF CallOK, CallSet, DepthOK
  <2>4. QED
    BY Zenon, <2>1, <2>2, <2>3, LockStay
<1>5. CASE Sign(p)
  <2>1. CallOK(NoCall) /\ DepthOK(NoCall, 0)
    BY DEF NoCall, CallOK, CallSet, DepthOK
  <2>2. calls' = [calls EXCEPT ![p] = NoCall] /\ UNCHANGED <<depths, mu>> /\ d = 0
    BY <1>0, <1>5 DEF Sign, DepthOK
  <2>3. QED
    BY Zenon, <2>1, <2>2, LockStay
<1>6. CASE Snapshot(p)
  <2> DEFINE u == [v EXCEPT !.at = "fn", !.next = "upsert"]
  <2>1. v.op = "tx" /\ d = 1
    BY <1>0, <1>6 DEF Snapshot, DepthOK
  <2>2. CallOK(u) /\ DepthOK(u, d)
    BY Zenon, <1>0, <2>1 DEF CallOK, CallSet, DepthOK
  <2>3. calls' = [calls EXCEPT ![p] = u] /\ UNCHANGED <<depths, mu>>
    BY <1>0, <1>6 DEF Snapshot, CallSet
  <2>4. QED
    BY Zenon, <2>1, <2>2, <2>3, LockStay
<1>7. CASE CallMethod(p)
  <2> DEFINE u == [v EXCEPT !.at = "lock"]
  <2>1. v.next # "none" /\ d = 1
    BY <1>0, <1>7 DEF CallMethod, DepthOK
  <2>2. CallOK(u) /\ DepthOK(u, d)
    BY <1>0, <2>1 DEF CallOK, CallSet, DepthOK
  <2>3. calls' = [calls EXCEPT ![p] = u] /\ UNCHANGED <<depths, mu>>
    BY <1>7 DEF CallMethod, Goto
  <2>4. QED
    BY Zenon, <2>1, <2>2, <2>3, LockStay
<1>8. CASE Method(p)
  <2>1. v.next # "none" /\ v.op = "tx" /\ d = 2 /\ UNCHANGED <<depths, mu>>
    BY <1>0, <1>8 DEF Method, DepthOK, CallOK
  <2>2. PICK m \in {"seq", "append", "return"} :
            calls' = [calls EXCEPT ![p] = [v EXCEPT !.at = "unlock", !.next = m]]
    BY <1>0, <1>8 DEF Method, CallSet
  <2> DEFINE u == [v EXCEPT !.at = "unlock", !.next = m]
  <2>3. CallOK(u) /\ DepthOK(u, d)
    BY Zenon, <1>0, <2>1 DEF CallOK, CallSet, DepthOK
  <2>4. QED
    BY Zenon, <2>1, <2>2, <2>3, LockStay
<1>9. CASE Commit(p) \/ Rollback(p)
  <2> DEFINE u == [v EXCEPT !.at = "unlock"]
  <2>1. d = 1
    BY <1>0, <1>9 DEF Commit, Rollback, DepthOK
  <2>2. CallOK(u) /\ DepthOK(u, d)
    BY <1>0, <2>1 DEF CallOK, CallSet, DepthOK
  <2>3. calls' = [calls EXCEPT ![p] = u] /\ UNCHANGED <<depths, mu>>
    BY <1>9 DEF Commit, Rollback, Goto
  <2>4. QED
    BY Zenon, <2>1, <2>2, <2>3, LockStay
<1>10. QED
  BY <1>1, <1>2, <1>3, <1>4, <1>5, <1>6, <1>7, <1>8, <1>9 DEF StoreStep

-----------------------------------------------------------------------------

\* A step that writes no table and opens, advances and ends no transaction.
LEMMA QuietStep ==
    ASSUME TxInv, UNCHANGED <<mappings, ledger, snaps, committed>>,
           \A q \in Goroutines :
              /\ Open(calls'[q], depths'[q]) <=> Open(calls[q], depths[q])
              /\ calls'[q].next = calls[q].next
    PROVE  TxInv'
  BY DEF TxInv

\* InTx, snapshot and restore: each step of a goroutine keeps transactions apart.
LEMMA TxKept ==
    ASSUME LockInv, TxInv, NEW p \in Goroutines, Lock(p) \/ StoreStep(p)
    PROVE  TxInv'
<1> DEFINE v == calls[p]
           d == depths[p]
<1>0. /\ CallOK(v) /\ DepthOK(v, d) /\ v \in CallSet
      /\ calls \in [Goroutines -> CallSet] /\ depths \in [Goroutines -> Nat]
  BY DEF LockInv
<1>o. ASSUME NEW u, calls' = [calls EXCEPT ![p] = u], UNCHANGED <<mappings, ledger, snaps, committed>>,
             \/ UNCHANGED depths
             \/ \E n : depths' = [depths EXCEPT ![p] = n],
             u.next = v.next, Open(u, depths'[p]) <=> Open(v, d)
      PROVE  TxInv'
  <2>1. calls'[p] = u /\ \A q \in Goroutines : q # p => calls'[q] = calls[q] /\ depths'[q] = depths[q]
    BY <1>0, <1>o
  <2>2. QED
    BY <1>o, <2>1, QuietStep
<1> USE DEF At
<1>1. CASE Lock(p)
  <2>1. /\ [v EXCEPT !.at = "inside"].next = v.next /\ [v EXCEPT !.at = "inside"].at = "inside"
    BY <1>0 DEF CallSet
  <2>2. Open([v EXCEPT !.at = "inside"], depths'[p]) <=> Open(v, d)
    BY <1>1, <2>1 DEF Open, Lock
  <2>3. QED
    BY Zenon, <1>1, <1>o, <2>1, <2>2 DEF Lock, Goto, keyVars
<1>2. CASE Unlock(p)
  <2>1. CASE d = 1
    <3>1. Returned(v).next = "none" /\ ~Open(Returned(v), depths'[p]) /\ ~Open(v, d)
      BY <1>0, <1>2, <2>1 DEF Returned, NoCall, Open, CallOK, CallSet, Unlock
    <3>2. calls'[p] = Returned(v) /\ \A q \in Goroutines : q # p => calls'[q] = calls[q] /\ depths'[q] = depths[q]
      BY <1>0, <1>2, <2>1 DEF Unlock
    <3>3. \A q \in Goroutines : Open(calls'[q], depths'[q]) <=> Open(calls[q], depths[q])
      BY <3>1, <3>2
    <3>4. \A q \in Goroutines : Open(calls'[q], depths'[q]) => calls'[q] = calls[q]
      BY <3>1, <3>2
    <3>5. QED
      BY <1>2, <3>3, <3>4 DEF TxInv, Unlock, keyVars
  <2>2. CASE d # 1
    <3>1. /\ [v EXCEPT !.at = "fn"].next = v.next /\ [v EXCEPT !.at = "fn"].at = "fn"
      BY <1>0 DEF CallSet
    <3>2. Open([v EXCEPT !.at = "fn"], depths'[p]) <=> Open(v, d)
      BY <2>2, <3>1 DEF Open
    <3>3. QED
      BY Zenon, <1>2, <1>o, <2>2, <3>1, <3>2 DEF Unlock, Goto, keyVars
  <2>3. QED
    BY <2>1, <2>2
<1>m. ASSUME NEW u, calls' = [calls EXCEPT ![p] = u]
      PROVE  calls'[p] = u /\ \A q \in Goroutines : q # p => calls'[q] = calls[q]
  BY <1>0, <1>m
<1>n. (d = 1 \/ d = 2) => \A q \in Goroutines : q # p => ~Open(calls[q], depths[q])
  BY <1>0, OnlyOpen
<1>3. CASE KeyMethod(p)
  <2>1. v.next = "none" /\ d = 1 /\ v.at = "inside"
    BY <1>0, <1>3 DEF KeyMethod, CallOK, DepthOK
  <2>2. [v EXCEPT !.at = "unlock"].next = v.next
    BY <1>0 DEF CallSet
  <2>3. \A q \in Goroutines : ~Open(calls'[q], depths'[q]) /\ ~Open(calls[q], depths[q])
    <3>1. calls'[p] = [v EXCEPT !.at = "unlock"] /\ \A q \in Goroutines : q # p => calls'[q] = calls[q]
      BY Zenon, <1>3, <1>m DEF KeyMethod, Goto
    <3>2. UNCHANGED depths
      BY <1>3 DEF KeyMethod
    <3>3. QED
      BY Zenon, <1>n, <2>1, <2>2, <3>1, <3>2 DEF Open
  <2>4. QED
    BY <1>3, <2>3 DEF KeyMethod, TxInv
<1>4. CASE ResolveActiveKeyID(p)
  <2>1. v.next = "none" /\ d = 1 /\ v.at = "inside"
    BY <1>0, <1>4 DEF ResolveActiveKeyID, CallOK, DepthOK
  <2>2. PICK k : calls' = [calls EXCEPT ![p] = [v EXCEPT !.at = "unlock", !.key = k]]
    <3>1. [v EXCEPT !.at = "unlock"] = [v EXCEPT !.at = "unlock", !.key = v.key]
      BY Zenon, <1>0 DEF CallSet
    <3>2. CASE Goto(p, "unlock")
      BY Zenon, <1>0, <3>1, <3>2 DEF Goto
    <3>3. CASE \E k \in FirstActive(v.wallet) :
                 calls' = [calls EXCEPT ![p].at = "unlock", ![p].key = k]
      BY Zenon, <1>0, <3>3
    <3>4. QED
      BY Zenon, <1>4, <3>2, <3>3 DEF ResolveActiveKeyID
  <2>3. [v EXCEPT !.at = "unlock", !.key = k].next = v.next
    BY <1>0 DEF CallSet
  <2>4. \A q \in Goroutines : ~Open(calls'[q], depths'[q]) /\ ~Open(calls[q], depths[q])
    <3>1. calls'[p].next = "none" /\ \A q \in Goroutines : q # p => calls'[q] = calls[q]
      BY <1>m, <2>1, <2>2, <2>3
    <3>2. UNCHANGED depths
      BY <1>4 DEF ResolveActiveKeyID
    <3>3. QED
      BY <1>n, <2>1, <3>1, <3>2 DEF Open
  <2>5. QED
    BY <1>4, <2>4 DEF ResolveActiveKeyID, TxInv, keyVars
<1>5. CASE Sign(p)
  <2>1. v.next = "none" /\ NoCall.next = "none"
    BY <1>0, <1>5 DEF Sign, CallOK, NoCall
  <2>2. QED
    BY Zenon, <1>5, <1>o, <2>1 DEF Sign, Open, keyVars
<1>6. CASE Snapshot(p)
  <2> DEFINE u == [v EXCEPT !.at = "fn", !.next = "upsert"]
  <2>1. v.next = "none" /\ d = 1 /\ v.at = "inside"
    BY <1>0, <1>6 DEF Snapshot, DepthOK
  <2>2. u.next = "upsert" /\ u.at = "fn"
    BY <1>0 DEF CallSet
  <2>3. calls' = [calls EXCEPT ![p] = u] /\ UNCHANGED <<depths, mappings, ledger, committed>>
    BY Zenon, <1>0, <1>6 DEF Snapshot, keyVars
  <2>4. ledger = Counts(committed)
    BY <1>n, <2>1 DEF TxInv, Open
  <2>5. Partial("upsert", committed) = Counts(committed)
    BY DEF Partial, Counts
  <2>6. calls'[p].next = "upsert" /\ Open(calls'[p], depths'[p])
    BY <1>0, <2>2, <2>3 DEF Open
  <2>7. snaps' = [snaps EXCEPT ![p] = Tables]
    BY <1>6 DEF Snapshot
  <2>8. \A q \in Goroutines : q # p => ~Open(calls'[q], depths'[q])
    BY <1>m, <1>n, <2>1, <2>3
  <2>9. snaps'[p] = [mappings |-> mappings, ledger |-> ledger] /\ DOMAIN snaps' = Goroutines
    BY <2>7 DEF TxInv, Tables
  <2>10. QED
    BY <2>3, <2>4, <2>5, <2>6, <2>8, <2>9 DEF TxInv
<1>7. CASE CallMethod(p)
  <2>1. /\ [v EXCEPT !.at = "lock"].next = v.next /\ [v EXCEPT !.at = "lock"].at = "lock"
    BY <1>0 DEF CallSet
  <2>2. Open([v EXCEPT !.at = "lock"], depths'[p]) <=> Open(v, d)
    BY <1>7, <2>1 DEF Open, CallMethod
  <2>3. QED
    BY Zenon, <1>7, <1>o, <2>1, <2>2 DEF CallMethod, Goto, keyVars
<1>8. CASE Method(p)
  <2>1. d = 2 /\ v.at = "inside" /\ v.next \in {"upsert", "seq", "append"}
    BY <1>0, <1>8 DEF Method, DepthOK
  <2>2. ledger = Partial(v.next, committed) /\ snaps[p] = [mappings |-> mappings, ledger |-> Counts(committed)]
    BY <2>1 DEF TxInv, Open
  <2>3. PICK m \in {"seq", "append", "return"} :
          /\ calls' = [calls EXCEPT ![p] = [v EXCEPT !.at = "unlock", !.next = m]]
          /\ ledger' = Partial(m, committed)
    <3>1. CASE v.next = "upsert"
      BY Zenon, <1>0, <1>8, <2>2, <3>1 DEF Method, Partial
    <3>2. CASE v.next = "seq"
      BY Zenon, <1>0, <1>8, <2>2, <3>2 DEF Method, Partial
    <3>3. CASE v.next = "append"
      BY Zenon, <1>0, <1>8, <2>2, <3>3 DEF Method, Partial
    <3>4. QED
      BY <2>1, <3>1, <3>2, <3>3
  <2>4. UNCHANGED <<depths, mappings, snaps, committed>>
    BY <1>8 DEF Method, keyVars
  <2>5. [v EXCEPT !.at = "unlock", !.next = m].next = m
    BY <1>0 DEF CallSet
  <2>6. calls'[p].next = m /\ Open(calls'[p], depths'[p])
    BY <1>0, <2>1, <2>3, <2>4, <2>5 DEF Open
  <2>7. \A q \in Goroutines : q # p => ~Open(calls'[q], depths'[q])
    BY <1>m, <1>n, <2>1, <2>3, <2>4
  <2>8. QED
    BY Zenon, <2>2, <2>3, <2>4, <2>6, <2>7 DEF TxInv
<1>9. ASSUME v.at = "fn", Goto(p, "unlock"), UNCHANGED <<mappings, depths>>,
             committed' \in Nat, ledger' = Counts(committed'), snaps' = [snaps EXCEPT ![p] = NoSnap]
      PROVE  TxInv'
  <2>1. d = 1
    BY <1>0, <1>9 DEF DepthOK
  <2>2. [v EXCEPT !.at = "unlock"].at = "unlock"
    BY <1>0 DEF CallSet
  <2>3. \A q \in Goroutines : ~Open(calls'[q], depths'[q])
    <3>1. calls'[p].at = "unlock" /\ \A q \in Goroutines : q # p => calls'[q] = calls[q]
      BY Zenon, <1>9, <1>m, <2>2 DEF Goto
    <3>2. QED
      BY <1>9, <1>n, <2>1, <3>1 DEF Open
  <2>4. QED
    BY <1>9, <2>3 DEF TxInv
<1>10. v.at = "fn" => /\ snaps[p] = [mappings |-> mappings, ledger |-> Counts(committed)]
                      /\ ledger = Partial(v.next, committed)
  BY <1>0 DEF TxInv, Open, CallOK
<1>11. CASE Commit(p)
  <2>1. ledger = Counts(committed + 1)
    BY <1>10, <1>11 DEF Commit, Partial, Counts
  <2>2. committed' = committed + 1 /\ committed' \in Nat /\ ledger' = Counts(committed')
    BY <1>11, <2>1 DEF Commit, TxInv
  <2>3. QED
    BY <1>9, <1>11, <2>2 DEF Commit, keyVars
<1>12. CASE Rollback(p)
  <2>1. UNCHANGED mappings /\ ledger' = Counts(committed) /\ UNCHANGED committed
    BY <1>10, <1>12 DEF Rollback, Restore
  <2>2. committed' \in Nat /\ ledger' = Counts(committed')
    BY <2>1 DEF TxInv
  <2>3. QED
    BY <1>9, <1>12, <2>1, <2>2 DEF Rollback
<1>13. QED
  BY <1>1, <1>2, <1>3, <1>4, <1>5, <1>6, <1>7, <1>8, <1>11, <1>12 DEF StoreStep

\* A call that begins: the goroutine is about to take lock(), outside of any transaction.
LEMMA CallKept ==
    ASSUME LockInv, TxInv, NEW p \in Goroutines,
           NEW op \in {"bind", "rotate", "expire", "sign", "tx"},
           NEW w \in Wallets \cup {NoWallet}, NEW k \in KeyIds \cup {NoKey}, Call(p, op, w, k),
           op \in {"bind", "rotate", "sign"} => w \in Wallets,
           op \in {"bind", "rotate"} => k \in KeyIds
    PROVE  LockInv' /\ TxInv'
<1> DEFINE u == [op |-> op, at |-> "lock", next |-> "none", wallet |-> w, key |-> k]
<1>1. CallOK(u)
  BY DEF CallOK, CallSet
<1>2. depths[p] = 0 /\ calls[p].next = "none"
  BY DEF Call, At, LockInv, CallOK, DepthOK
<1>3. DepthOK(u, depths[p])
  BY <1>2 DEF DepthOK
<1>4. calls' = [calls EXCEPT ![p] = u] /\ UNCHANGED <<depths, mu, mappings, ledger, snaps, committed>>
  BY DEF Call, keyVars
<1>5. u.next = "none"
  OBVIOUS
<1> HIDE DEF u
<1>6. LockInv'
  BY Zenon, <1>1, <1>3, <1>4, LockStay
<1>7. calls'[p] = u /\ \A q \in Goroutines : q # p => calls'[q] = calls[q]
  BY <1>4 DEF LockInv
<1>8. TxInv'
  BY <1>2, <1>4, <1>5, <1>7, QuietStep DEF Open
<1>9. QED
  BY <1>6, <1>8

\* Every step is a step of a goroutine inside a call, a call that begins, or the clock.
LEMMA StoreKept == LockInv /\ TxInv /\ [StoreNext]_allStoreVars => LockInv' /\ TxInv'
<1> SUFFICES ASSUME LockInv, TxInv, [StoreNext]_allStoreVars PROVE LockInv' /\ TxInv'
  OBVIOUS
<1>1. CASE UNCHANGED storeVars /\ UNCHANGED mappings
  BY <1>1 DEF storeVars, LockInv, TxInv
<1>2. CASE \E p \in Goroutines : Lock(p) \/ StoreStep(p)
  BY <1>2, LockKept, TxKept
<1>3. ASSUME NEW p \in Goroutines,
             \/ Call(p, "tx", NoWallet, NoKey) \/ Call(p, "expire", NoWallet, NoKey)
             \/ \E w \in Wallets : Call(p, "sign", w, NoKey)
             \/ \E w \in Wallets, k \in KeyIds : Call(p, "bind", w, k) \/ Call(p, "rotate", w, k)
      PROVE  LockInv' /\ TxInv'
  <2>1. CASE Call(p, "tx", NoWallet, NoKey)
    BY <2>1, CallKept
  <2>2. CASE Call(p, "expire", NoWallet, NoKey)
    BY <2>2, CallKept
  <2>3. ASSUME NEW w \in Wallets, Call(p, "sign", w, NoKey) PROVE LockInv' /\ TxInv'
    BY <2>3, CallKept
  <2>4. ASSUME NEW w \in Wallets, NEW k \in KeyIds, Call(p, "bind", w, k) PROVE LockInv' /\ TxInv'
    BY <2>4, CallKept
  <2>5. ASSUME NEW w \in Wallets, NEW k \in KeyIds, Call(p, "rotate", w, k) PROVE LockInv' /\ TxInv'
    BY <2>5, CallKept
  <2>6. QED
    BY <1>3, <2>1, <2>2, <2>3, <2>4, <2>5
<1>4. QED
  BY <1>1, <1>2, <1>3 DEF StoreNext, allStoreVars, keyVars, Tick

-----------------------------------------------------------------------------

\* What a step does to the key mappings: a method of the store does one operation of
\* KeyMapping whole, and every other step, a rollback too, leaves them alone.
LEMMA KeyEffect ==
    ASSUME LockInv, TxInv, [StoreNext]_allStoreVars
    PROVE  \/ \E w \in Wallets, k \in KeyIds :
                 (Bind(w, k) \/ Rotate(w, k)) /\ latest' = [latest EXCEPT ![w] = k]
           \/ (ExpireCooling \/ Tick \/ UNCHANGED keyVars) /\ UNCHANGED latest
<1>1. ASSUME NEW p \in Goroutines, KeyMethod(p)
      PROVE  \/ \E w \in Wallets, k \in KeyIds :
                   (Bind(w, k) \/ Rotate(w, k)) /\ latest' = [latest EXCEPT ![w] = k]
             \/ (ExpireCooling \/ UNCHANGED keyVars) /\ UNCHANGED latest
  <2>1. calls[p].op \in {"bind", "rotate"} => calls[p].wallet \in Wallets /\ calls[p].key \in KeyIds
    BY DEF LockInv, CallOK
  <2>2. QED
    BY <1>1, <2>1 DEF KeyMethod
<1>2. ASSUME NEW p \in Goroutines, Rollback(p)
      PROVE  UNCHANGED keyVars /\ UNCHANGED latest
  <2>1. Open(calls[p], depths[p])
    BY <1>2 DEF Rollback, At, LockInv, CallOK, Open
  <2>2. snaps[p].mappings = mappings
    BY <2>1 DEF TxInv
  <2>3. QED
    BY <1>2, <2>2 DEF Rollback, Restore, keyVars
<1>3. ASSUME NEW p \in Goroutines, Lock(p) \/ StoreStep(p)
      PROVE  KeyMethod(p) \/ Rollback(p) \/ UNCHANGED <<keyVars, latest>>
  BY <1>3 DEF StoreStep, Lock, Unlock, ResolveActiveKeyID, Sign, Snapshot, CallMethod, Method,
     Commit
<1>4. ASSUME NEW p, NEW op, NEW w, NEW k, Call(p, op, w, k) PROVE UNCHANGED <<keyVars, latest>>
  BY <1>4 DEF Call
<1>5. Tick /\ UNCHANGED storeVars => UNCHANGED latest
  BY DEF storeVars
<1>6. UNCHANGED allStoreVars => UNCHANGED <<keyVars, latest>>
  BY DEF allStoreVars, storeVars
<1>7. QED
  BY <1>1, <1>2, <1>3, <1>4, <1>5, <1>6 DEF StoreNext

\* The key last made current is current, and a mapping cools or is retired only after
\* a rotation took its place.
LatestInv ==
    /\ latest \in [Wallets -> KeyIds \cup {NoKey}]
    /\ \A w \in Wallets : latest[w] # NoKey => latest[w] \in Current(w)
    /\ \A w \in Wallets, k \in KeyIds :
          mappings[w][k].state \in {"COOLING", "RETIRED"} => demoted[w][k] >= 0

\* A key that ConstructAndSign resolved has a mapping.
SignInv ==
    \A p \in Goroutines :
        calls[p].op = "sign" /\ calls[p].key # NoKey
            => mappings[calls[p].wallet][calls[p].key].state # "NONE"

StoreInv == LockInv /\ TxInv /\ KeyInv /\ LatestInv /\ SignInv

\* The empty store.
LEMMA StoreInitial == StoreInit => StoreInv
<1> SUFFICES ASSUME StoreInit PROVE StoreInv
  OBVIOUS
<1> USE DEF StoreInit
<1>1. NoCall \in CallSet /\ CallOK(NoCall) /\ NoCall.next = "none" /\ NoCall.at = "idle"
      /\ NoCall.key = NoKey
  BY DEF NoCall, CallSet, CallOK
<1>2. LockInv
  BY <1>1, StoreConstants DEF LockInv, DepthOK
<1>3. TxInv
  BY <1>1 DEF TxInv, Open, Counts, NoLedger
<1>4. KeyInv
  BY KeyInitial
<1>5. LatestInv
  BY DEF LatestInv, KeyInit, NoMapping
<1>6. SignInv
  BY <1>1 DEF SignInv
<1>7. QED
  BY <1>2, <1>3, <1>4, <1>5, <1>6 DEF StoreInv

\* A step of the store is a step of KeyMapping, or a stutter.
LEMMA StoreIsKeyStep ==
    ASSUME LockInv, TxInv, [StoreNext]_allStoreVars PROVE [KeyNext]_keyVars
  BY KeyEffect DEF KeyNext

\* Bind and rotate make their key the current one, and a mapping once there stays.
LEMMA LatestKept ==
    ASSUME StoreInv, [StoreNext]_allStoreVars
    PROVE  /\ LatestInv'
           /\ \A w \in Wallets, k \in KeyIds :
                 mappings[w][k].state # "NONE" => mappings'[w][k].state # "NONE"
<1> USE KeyConstants DEF StoreInv, KeyInv, KeyTypeOK, Mappings, RotationStates
<1>1. ASSUME NEW w \in Wallets, NEW k \in KeyIds, Bind(w, k), latest' = [latest EXCEPT ![w] = k]
      PROVE  /\ LatestInv'
             /\ \A v \in Wallets, j \in KeyIds :
                   mappings[v][j].state # "NONE" => mappings'[v][j].state # "NONE"
  <2>1. \A v \in Wallets, j \in KeyIds :
          mappings'[v][j] = IF v = w /\ j = k THEN CurrentMapping(now) ELSE mappings[v][j]
    BY <1>1 DEF Bind
  <2>2. CurrentMapping(now).state = "CURRENT" /\ UNCHANGED demoted
    BY <1>1 DEF CurrentMapping, Bind
  <2>3. \A v \in Wallets : latest'[v] # NoKey => latest'[v] \in Current(v)'
    BY <1>1, <2>1, <2>2 DEF LatestInv, Current
  <2>4. \A v \in Wallets, j \in KeyIds :
          mappings'[v][j].state \in {"COOLING", "RETIRED"} => demoted'[v][j] >= 0
    BY <2>1, <2>2 DEF LatestInv
  <2>5. \A v \in Wallets, j \in KeyIds : mappings[v][j].state # "NONE" => mappings'[v][j].state # "NONE"
    BY <2>1, <2>2
  <2>6. latest' \in [Wallets -> KeyIds \cup {NoKey}]
    BY <1>1 DEF LatestInv
  <2>7. QED
    BY <2>3, <2>4, <2>5, <2>6 DEF LatestInv
<1>2. ASSUME NEW w \in Wallets, NEW k \in KeyIds, Rotate(w, k), latest' = [latest EXCEPT ![w] = k]
      PROVE  /\ LatestInv'
             /\ \A v \in Wallets, j \in KeyIds :
                   mappings[v][j].state # "NONE" => mappings'[v][j].state # "NONE"
  <2>1. \A v \in Wallets, j \in KeyIds :
          mappings'[v][j] = IF v = w
                            THEN IF j = k THEN CurrentMapping(now)
                                 ELSE IF mappings[v][j].state = "CURRENT" THEN Demoted(mappings[v][j])
                                 ELSE mappings[v][j]
                            ELSE mappings[v][j]
    BY <1>2 DEF Rotate
  <2>2. \A v \in Wallets, j \in KeyIds :
          demoted'[v][j] = IF v = w /\ j \in Current(w) \ {k} THEN now ELSE demoted[v][j]
    BY <1>2 DEF Rotate
  <2>3. CurrentMapping(now).state = "CURRENT"
    BY DEF CurrentMapping
  <2>4. \A v \in Wallets, j \in KeyIds : Demoted(mappings[v][j]).state = "COOLING"
    BY DemotedRow
  <2>5. \A v \in Wallets : latest'[v] # NoKey => latest'[v] \in Current(v)'
    BY <1>2, <2>1, <2>3 DEF LatestInv, Current
  <2>6. ASSUME NEW v \in Wallets, NEW j \in KeyIds,
               mappings'[v][j].state \in {"COOLING", "RETIRED"}
        PROVE  demoted'[v][j] >= 0
    <3>1. CASE v = w /\ j # k /\ mappings[v][j].state = "CURRENT"
      BY <2>2, <3>1 DEF Current
    <3>2. CASE ~(v = w /\ j # k /\ mappings[v][j].state = "CURRENT")
      BY <2>1, <2>2, <2>3, <2>6, <3>2 DEF LatestInv, Current
    <3>3. QED
      BY <3>1, <3>2
  <2>7. \A v \in Wallets, j \in KeyIds : mappings[v][j].state # "NONE" => mappings'[v][j].state # "NONE"
    BY Zenon, <2>1, <2>3, <2>4
  <2>8. latest' \in [Wallets -> KeyIds \cup {NoKey}]
    BY <1>2 DEF LatestInv
  <2>9. QED
    BY <2>5, <2>6, <2>7, <2>8 DEF LatestInv
<1>3. ASSUME ExpireCooling, UNCHANGED latest
      PROVE  /\ LatestInv'
             /\ \A v \in Wallets, j \in KeyIds :
                   mappings[v][j].state # "NONE" => mappings'[v][j].state # "NONE"
  <2>1. \A v \in Wallets, j \in KeyIds :
          \/ mappings'[v][j] = mappings[v][j]
          \/ mappings[v][j].state = "COOLING" /\ mappings'[v][j].state = "RETIRED"
    BY <1>3, RetiredRow DEF ExpireCooling
  <2>2. \A v \in Wallets : latest'[v] # NoKey => latest'[v] \in Current(v)'
    BY <1>3, <2>1 DEF LatestInv, Current
  <2>3. \A v \in Wallets, j \in KeyIds :
          mappings'[v][j].state \in {"COOLING", "RETIRED"} => demoted'[v][j] >= 0
    BY <1>3, <2>1 DEF LatestInv, ExpireCooling
  <2>4. QED
    BY <1>3, <2>1, <2>2, <2>3 DEF LatestInv
<1>4. CASE (Tick \/ UNCHANGED keyVars) /\ UNCHANGED latest
  BY <1>4 DEF LatestInv, Current, Tick, keyVars
<1>5. QED
  BY <1>1, <1>2, <1>3, <1>4, KeyEffect

\* A key that is being signed with was resolved under lock() and keeps its mapping.
LEMMA SignKept ==
    ASSUME StoreInv, [StoreNext]_allStoreVars PROVE SignInv'
<1> SUFFICES ASSUME NEW q \in Goroutines, calls'[q].op = "sign", calls'[q].key # NoKey
             PROVE  mappings'[calls'[q].wallet][calls'[q].key].state # "NONE"
  BY DEF SignInv
<1> USE DEF StoreInv
<1>0. /\ calls \in [Goroutines -> CallSet]
      /\ calls[q] \in CallSet /\ (calls[q].op = "sign" => calls[q].wallet \in Wallets)
  BY DEF LockInv, CallOK
<1>1. CASE calls'[q].op = calls[q].op /\ calls'[q].wallet = calls[q].wallet /\ calls'[q].key = calls[q].key
  <2>1. calls[q].key \in KeyIds /\ calls[q].wallet \in Wallets
    BY <1>0, <1>1 DEF CallSet
  <2>2. mappings[calls[q].wallet][calls[q].key].state # "NONE"
    BY <1>1 DEF SignInv
  <2>3. QED
    BY <1>1, <2>1, <2>2, LatestKept
<1>2. CASE ResolveActiveKeyID(q)
  <2> DEFINE v == calls[q]
  <2>1. CASE Goto(q, "unlock")
    <3>1. calls'[q] = [v EXCEPT !.at = "unlock"]
      BY <1>0, <2>1 DEF Goto
    <3>2. QED
      BY <1>0, <1>1, <3>1 DEF CallSet
  <2>2. ASSUME NEW k \in FirstActive(v.wallet),
               calls' = [calls EXCEPT ![q].at = "unlock", ![q].key = k]
        PROVE  mappings'[calls'[q].wallet][calls'[q].key].state # "NONE"
    <3>1. calls'[q] = [v EXCEPT !.at = "unlock", !.key = k]
      BY <1>0, <2>2
    <3>2. calls'[q].key = k /\ calls'[q].wallet = v.wallet
      BY <1>0, <3>1 DEF CallSet
    <3>3. mappings[v.wallet][k].state # "NONE" /\ UNCHANGED mappings
      BY Zenon, <1>2, <2>2 DEF FirstActive, ResolveActiveKey, ResolveActiveKeyID, keyVars
    <3>4. QED
      BY <3>2, <3>3
  <2>3. QED
    BY <1>2, <2>1, <2>2 DEF ResolveActiveKeyID
<1>3. ASSUME NEW p \in Goroutines, NEW u, calls' = [calls EXCEPT ![p] = u],
             \/ u.op = calls[p].op /\ u.wallet = calls[p].wallet /\ u.key = calls[p].key
             \/ u.key = NoKey \/ u.op # "sign"
      PROVE  mappings'[calls'[q].wallet][calls'[q].key].state # "NONE"
  <2>1. calls'[q] = IF q = p THEN u ELSE calls[q]
    BY <1>0, <1>3
  <2>2. QED
    BY <1>1, <1>3, <2>1
<1>4. ASSUME NEW p \in Goroutines, NEW where, Goto(p, where)
      PROVE  mappings'[calls'[q].wallet][calls'[q].key].state # "NONE"
  <2>1. calls[p] \in CallSet
    BY <1>0
  <2> DEFINE u == [calls[p] EXCEPT !.at = where]
  <2>2. u.op = calls[p].op /\ u.wallet = calls[p].wallet /\ u.key = calls[p].key
    BY <2>1 DEF CallSet
  <2>3. calls' = [calls EXCEPT ![p] = u]
    BY <1>4 DEF Goto
  <2> HIDE DEF u
  <2>4. QED
    BY Zenon, <1>3, <2>2, <2>3
<1>5. ASSUME NEW p \in Goroutines, NEW where, NEW m, calls' = [calls EXCEPT ![p].at = where, ![p].next = m]
      PROVE  mappings'[calls'[q].wallet][calls'[q].key].state # "NONE"
  <2>1. calls[p] \in CallSet
    BY <1>0
  <2> DEFINE u == [calls[p] EXCEPT !.at = where, !.next = m]
  <2>2. u.op = calls[p].op /\ u.wallet = calls[p].wallet /\ u.key = calls[p].key
    BY <2>1 DEF CallSet
  <2>3. calls' = [calls EXCEPT ![p] = u]
    BY Zenon, <1>0, <1>5
  <2> HIDE DEF u
  <2>4. QED
    BY Zenon, <1>3, <2>2, <2>3
<1>6. ASSUME NEW p \in Goroutines, Unlock(p)
      PROVE  mappings'[calls'[q].wallet][calls'[q].key].state # "NONE"
  <2>1. calls[p] \in CallSet /\ NoCall.key = NoKey
    BY <1>0 DEF NoCall
  <2>2. CASE calls' = [calls EXCEPT ![p] = Returned(calls[p])]
    <3>1. \/ Returned(calls[p]).key = NoKey
          \/ /\ Returned(calls[p]).op = calls[p].op /\ Returned(calls[p]).wallet = calls[p].wallet
             /\ Returned(calls[p]).key = calls[p].key
      BY <2>1 DEF Returned, CallSet
    <3>2. QED
      BY Zenon, <1>3, <2>2, <3>1
  <2>3. QED
    BY <1>4, <1>6, <2>2 DEF Unlock
<1>7. ASSUME NEW p \in Goroutines, NEW op, NEW w, NEW k, Call(p, op, w, k), k = NoKey \/ op # "sign"
      PROVE  mappings'[calls'[q].wallet][calls'[q].key].state # "NONE"
  <2> DEFINE u == [op |-> op, at |-> "lock", next |-> "none", wallet |-> w, key |-> k]
  <2>1. u.key = NoKey \/ u.op # "sign"
    BY <1>7
  <2>2. calls' = [calls EXCEPT ![p] = u]
    BY <1>7 DEF Call
  <2> HIDE DEF u
  <2>3. QED
    BY Zenon, <1>3, <2>1, <2>2
<1>8. ASSUME NEW p \in Goroutines, Sign(p)
      PROVE  mappings'[calls'[q].wallet][calls'[q].key].state # "NONE"
  <2>1. NoCall.key = NoKey
    BY DEF NoCall
  <2>2. QED
    BY Zenon, <1>3, <1>8, <2>1 DEF Sign
<1>9. ASSUME NEW p \in Goroutines, ResolveActiveKeyID(p), p # q
      PROVE  mappings'[calls'[q].wallet][calls'[q].key].state # "NONE"
  <2>1. calls'[q] = calls[q]
    BY <1>0, <1>9 DEF ResolveActiveKeyID, Goto
  <2>2. QED
    BY <1>1, <2>1
<1>10. ASSUME NEW p \in Goroutines, Lock(p) \/ StoreStep(p)
       PROVE  mappings'[calls'[q].wallet][calls'[q].key].state # "NONE"
  <2>1. CASE Lock(p) \/ KeyMethod(p) \/ CallMethod(p) \/ Commit(p) \/ Rollback(p)
    BY <1>4, <2>1 DEF Lock, KeyMethod, CallMethod, Commit, Rollback
  <2>2. CASE Snapshot(p) \/ Method(p)
    BY <1>5, <2>2 DEF Snapshot, Method
  <2>3. QED
    BY <1>2, <1>6, <1>8, <1>9, <1>10, <2>1, <2>2 DEF StoreStep
<1>11. CASE UNCHANGED calls
  BY <1>1, <1>11
<1>12. QED
  <2>1. ASSUME NEW p \in Goroutines,
               \/ Call(p, "tx", NoWallet, NoKey) \/ Call(p, "expire", NoWallet, NoKey)
               \/ \E w \in Wallets : Call(p, "sign", w, NoKey)
               \/ \E w \in Wallets, k \in KeyIds : Call(p, "bind", w, k) \/ Call(p, "rotate", w, k)
        PROVE  mappings'[calls'[q].wallet][calls'[q].key].state # "NONE"
    BY <1>7, <2>1
  <2>2. QED
    BY <1>10, <1>11, <2>1 DEF StoreNext, allStoreVars, storeVars

-----------------------------------------------------------------------------

\* The inductive invariant of the store.
LEMMA StoreInvariant == StoreSpec => []StoreInv
<1>1. StoreInv /\ [StoreNext]_allStoreVars => StoreInv'
  BY StoreKept, StoreIsKeyStep, KeyStep, LatestKept, SignKept DEF StoreInv
<1>2. QED
  BY <1>1, StoreInitial, PTL DEF StoreSpec

\* lock, snapshot and restore: whatever goroutines interleave and whichever transactions
\* are rolled back, the in-memory store implements the atomic store of key mappings.
THEOREM StoreIsAtomic == StoreSpec => ImplementsKeyMapping
<1>1. StoreInit => KeyInit
  BY DEF StoreInit
<1>2. StoreInv /\ [StoreNext]_allStoreVars => [KeyNext]_keyVars
  BY StoreIsKeyStep DEF StoreInv
<1>3. QED
  BY <1>1, <1>2, StoreInvariant, PTL DEF StoreSpec, KeySpec, ImplementsKeyMapping

\* lock, snapshot and restore: between transactions the tables hold exactly the writes of
\* those that returned nil, and no rollback undoes a rotation of another goroutine.
THEOREM RollbackIsExact == StoreSpec => []NothingLost
<1>1. StoreInv => NothingLost
  <2> SUFFICES ASSUME StoreInv, mu = Free PROVE
               /\ ledger = Counts(committed)
               /\ \A w \in Wallets : latest[w] # NoKey => Current(w) = {latest[w]}
    BY DEF NothingLost, Counts
  <2>1. \A p \in Goroutines : depths[p] = 0
    BY StoreConstants DEF StoreInv, LockInv
  <2>2. ASSUME NEW p \in Goroutines PROVE ~Open(calls[p], depths[p])
    <3>1. calls[p].at \in {"idle", "lock", "inside", "unlock", "fn", "sign"}
      BY DEF StoreInv, LockInv, CallSet
    <3>2. calls[p].at \in {"idle", "sign"} => calls[p].next = "none"
      BY DEF StoreInv, LockInv, CallOK
    <3>3. DepthOK(calls[p], 0)
      BY <2>1 DEF StoreInv, LockInv
    <3>4. QED
      BY <3>1, <3>2, <3>3 DEF DepthOK, Open
  <2>3. ledger = Counts(committed)
    BY <2>2 DEF StoreInv, TxInv
  <2>4. ASSUME NEW w \in Wallets, latest[w] # NoKey PROVE Current(w) = {latest[w]}
    <3>1. latest[w] \in Current(w) /\ latest[w] \in KeyIds
      BY <2>4 DEF StoreInv, LatestInv
    <3>2. Bound(w)
      BY <3>1 DEF Bound, Current
    <3>3. QED
      BY <3>1, <3>2 DEF StoreInv, KeyInv, OneCurrent
  <2>5. QED
    BY <2>3, <2>4
<1>2. QED
  BY <1>1, StoreInvariant, PTL

\* ConstructAndSign and ExpireCooling: however long it is between resolving a key and
\* signing, and whatever is rotated meanwhile, the key is active or has cooled in full.
THEOREM SigningKeysResolve == StoreSpec => []SigningKeyResolves
<1>1. StoreInv => SigningKeyResolves
  <2> SUFFICES ASSUME StoreInv, NEW p \in Goroutines, At(p, "sign")
               PROVE  LET w == calls[p].wallet k == calls[p].key IN
                      \/ k \in ResolveActiveKey(w)
                      \/ demoted[w][k] >= 0 /\ now > demoted[w][k] + KeyCoolingPeriod
    BY DEF SigningKeyResolves
  <2> DEFINE w == calls[p].wallet
             k == calls[p].key
  <2>1. calls[p].op = "sign" /\ k # NoKey /\ w \in Wallets /\ k \in KeyIds
    BY DEF StoreInv, LockInv, CallOK, CallSet, At
  <2>2. mappings[w][k].state \in {"CURRENT", "COOLING", "RETIRED"}
    BY <2>1 DEF StoreInv, SignInv, KeyInv, KeyTypeOK, Mappings, RotationStates
  <2>3. CASE mappings[w][k].state = "RETIRED"
    <3>1. demoted[w][k] >= 0
      BY <2>1, <2>3 DEF StoreInv, LatestInv
    <3>2. mappings[w][k].activeTo >= demoted[w][k] + KeyCoolingPeriod /\ mappings[w][k].activeTo < now
      BY <2>1, <2>3, <3>1 DEF StoreInv, KeyInv, CoolingInv
    <3>3. /\ mappings[w][k].activeTo \in Int /\ now \in Int /\ demoted[w][k] \in Int
          /\ KeyCoolingPeriod \in Int
      BY <2>1, KeyConstants DEF StoreInv, KeyInv, KeyTypeOK, Mappings
    <3>4. QED
      BY <3>1, <3>2, <3>3
  <2>4. CASE mappings[w][k].state # "RETIRED"
    BY <2>1, <2>2, <2>4 DEF ResolveActiveKey
  <2>5. QED
    BY <2>3, <2>4
<1>2. QED
  BY <1>1, StoreInvariant, PTL
=============================================================================

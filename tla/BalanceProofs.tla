---------------------------- MODULE BalanceProofs ----------------------------
(***************************************************************************)
(* Theorems about Balance, for any events, handlers, faults and reorgs:    *)
(* which block a balance has seen, and what its columns add up to.  Sums   *)
(* over sets are reasoned about by a least counterexample: a set of finite *)
(* sets that is not empty has a member none of whose proper subsets is in  *)
(* it.                                                                     *)
(***************************************************************************)
EXTENDS Balance, FiniteSetTheorems, TLAPS

Heights(s) == {0} \cup {Event[e].height : e \in AppliedTo(s)}

\* The last block of a row is the height of an applied event, and none is higher.
HeightInv ==
    /\ DOMAIN balances = Slots
    /\ \A s \in Slots :
          /\ DOMAIN balances[s] = {"exists", "confirmed", "pending", "locked", "lastBlock"}
          /\ balances[s].lastBlock \in Heights(s)
          /\ \A n \in Heights(s) : n <= balances[s].lastBlock
    /\ applied \subseteq Confirmations
    /\ handler \in [Handlers -> [at : {"idle", "apply"}, event : Confirmations \cup {NoEvent}]]
    /\ \A h \in Handlers : handler[h].at = "apply" => handler[h].event \in Confirmations

\* Heights are block numbers.
LEMMA HeightsNat == applied \subseteq Confirmations => \A s \in Slots : Heights(s) \subseteq Nat
BY BalanceConstants DEF Heights, AppliedTo

\* A handler that goes back to waiting keeps its type.
LEMMA DoneTyped ==
    ASSUME HeightInv, NEW h \in Handlers, Done(h)
    PROVE  /\ handler' \in [Handlers -> [at : {"idle", "apply"}, event : Confirmations \cup {NoEvent}]]
           /\ \A g \in Handlers : handler'[g].at = "apply" => handler'[g].event \in Confirmations
<1>1. Waiting \in [at : {"idle", "apply"}, event : Confirmations \cup {NoEvent}] /\ Waiting.at = "idle"
  BY DEF Waiting
<1>2. QED
  BY <1>1 DEF HeightInv, Done

\* A step that applies no event and moves no last block.
LEMMA HeightsKept ==
    ASSUME HeightInv, UNCHANGED applied, DOMAIN balances' = Slots,
           \A s \in Slots : /\ DOMAIN balances'[s] = DOMAIN balances[s]
                            /\ balances'[s].lastBlock = balances[s].lastBlock,
           handler' \in [Handlers -> [at : {"idle", "apply"}, event : Confirmations \cup {NoEvent}]],
           \A h \in Handlers : handler'[h].at = "apply" => handler'[h].event \in Confirmations
    PROVE  HeightInv'
BY DEF HeightInv, Heights, AppliedTo

\* Applying an event: its height joins those of its slot.
LEMMA HeightsApply ==
    ASSUME HeightInv, NEW h \in Handlers, Apply(h)
    PROVE  HeightInv'
<1>1. PICK e \in Confirmations, t \in Slots, n \in Nat :
        e = handler[h].event /\ t = Event[e].slot /\ n = Event[e].height
  BY BalanceConstants DEF HeightInv, Apply
<1>2. applied' = applied \cup {e} /\ balances' = [balances EXCEPT ![t] = Credited(balances[t], e)]
  BY <1>1 DEF Apply
<1>3. Credited(balances[t], e).lastBlock = MaxHeight(balances[t].lastBlock, n)
      /\ DOMAIN Credited(balances[t], e) = {"exists", "confirmed", "pending", "locked", "lastBlock"}
  BY <1>1 DEF Credited
<1>4. \A s \in Slots : Heights(s)' = IF s = t THEN Heights(s) \cup {n} ELSE Heights(s)
  BY <1>1, <1>2 DEF Heights, AppliedTo
<1>5. \A s \in Slots : balances'[s] = IF s = t THEN Credited(balances[t], e) ELSE balances[s]
  BY <1>1, <1>2 DEF HeightInv
<1>6. ASSUME NEW s \in Slots
      PROVE  /\ DOMAIN balances'[s] = {"exists", "confirmed", "pending", "locked", "lastBlock"}
             /\ balances'[s].lastBlock \in Heights(s)'
             /\ \A m \in Heights(s)' : m <= balances'[s].lastBlock
  <2>1. CASE s # t
    BY <1>4, <1>5, <2>1 DEF HeightInv
  <2>2. CASE s = t
    <3> DEFINE b == balances[s].lastBlock
    <3>1. b \in Heights(s) /\ (\A m \in Heights(s) : m <= b) /\ Heights(s) \subseteq Nat
      BY HeightsNat DEF HeightInv
    <3>2. balances'[s].lastBlock = IF b > n THEN b ELSE n
      BY <1>3, <1>5, <2>2 DEF MaxHeight
    <3>3. Heights(s)' = Heights(s) \cup {n}
      BY <1>4, <2>2
    <3>4. DOMAIN balances'[s] = {"exists", "confirmed", "pending", "locked", "lastBlock"}
      BY <1>3, <1>5, <2>2
    <3> HIDE DEF b
    <3>5. balances'[s].lastBlock \in Heights(s)'
      BY <3>1, <3>2, <3>3
    <3>6. \A m \in Heights(s)' : m <= balances'[s].lastBlock
      BY <1>1, <3>1, <3>2, <3>3
    <3>7. QED
      BY <3>4, <3>5, <3>6
  <2>3. QED
    BY <2>1, <2>2
<1>7. DOMAIN balances' = Slots /\ applied' \subseteq Confirmations
  BY <1>1, <1>2 DEF HeightInv
<1>8. QED
  BY <1>6, <1>7, DoneTyped DEF HeightInv, Apply

\* Every step keeps the heights.
LEMMA HeightsNext == HeightInv /\ [BalanceNext]_balanceVars => HeightInv'
<1> SUFFICES ASSUME HeightInv, [BalanceNext]_balanceVars PROVE HeightInv'
  OBVIOUS
<1>1. ASSUME NEW h \in Handlers, NEW e \in Confirmations, RecordBalanceEvent(h, e) PROVE HeightInv'
  <2>1. \/ UNCHANGED handler
        \/ handler' = [handler EXCEPT ![h] = [at |-> "apply", event |-> e]]
    BY <1>1 DEF RecordBalanceEvent
  <2>2. /\ handler' \in [Handlers -> [at : {"idle", "apply"}, event : Confirmations \cup {NoEvent}]]
        /\ \A g \in Handlers : handler'[g].at = "apply" => handler'[g].event \in Confirmations
    BY <2>1 DEF HeightInv
  <2>3. UNCHANGED <<balances, applied>>
    BY <1>1 DEF RecordBalanceEvent
  <2>4. QED
    BY <2>2, <2>3, HeightsKept DEF HeightInv
<1>2. ASSUME NEW h \in Handlers, ApplyFails(h) \/ BalanceCrash(h) PROVE HeightInv'
  <2>1. Done(h) /\ UNCHANGED <<balances, applied>>
    BY <1>2 DEF ApplyFails, BalanceCrash
  <2>2. QED
    BY <2>1, DoneTyped, HeightsKept DEF HeightInv
<1>3. ASSUME NEW s \in Slots, NEW b, balances' = [balances EXCEPT ![s] = b],
             DOMAIN b = DOMAIN balances[s], b.lastBlock = balances[s].lastBlock,
             UNCHANGED <<applied, handler>>
      PROVE  HeightInv'
  BY <1>3, HeightsKept DEF HeightInv
<1>4. ASSUME NEW s \in Slots, ApplyReorgEvent(s) PROVE HeightInv'
  <2> DEFINE r == balances[s]
             b == [r EXCEPT !.pending = r.pending + r.confirmed, !.confirmed = 0]
  <2>1. DOMAIN b = DOMAIN r /\ b.lastBlock = r.lastBlock
    BY DEF HeightInv
  <2>2. balances' = [balances EXCEPT ![s] = b] /\ UNCHANGED <<applied, handler>>
    BY Zenon, <1>4 DEF ApplyReorgEvent, HeightInv
  <2> HIDE DEF b
  <2>3. QED
    BY Zenon, <1>3, <2>1, <2>2
<1>5. ASSUME NEW s \in Slots, NEW n, AddLocked(s, n) \/ ReleaseLocked(s, n) PROVE HeightInv'
  <2>1. PICK k : balances' = [balances EXCEPT ![s].locked = k] /\ UNCHANGED <<applied, handler>>
    BY <1>5 DEF AddLocked, ReleaseLocked
  <2> DEFINE b == [balances[s] EXCEPT !.locked = k]
  <2>2. DOMAIN b = DOMAIN balances[s] /\ b.lastBlock = balances[s].lastBlock
    BY DEF HeightInv
  <2>3. balances' = [balances EXCEPT ![s] = b]
    BY <2>1
  <2> HIDE DEF b
  <2>4. QED
    BY Zenon, <1>3, <2>1, <2>2, <2>3
<1>6. CASE UNCHANGED balanceVars
  BY <1>6, HeightsKept DEF balanceVars, HeightInv
<1>7. QED
  BY <1>1, <1>2, <1>4, <1>5, <1>6, HeightsApply DEF BalanceNext

\* The heights hold at the start.
LEMMA HeightsInit == BalanceInit => HeightInv
<1> SUFFICES ASSUME BalanceInit PROVE HeightInv
  OBVIOUS
<1>1. Waiting \in [at : {"idle", "apply"}, event : Confirmations \cup {NoEvent}] /\ Waiting.at = "idle"
  BY DEF Waiting
<1>2. \A s \in Slots : Heights(s) = {0}
  BY DEF BalanceInit, Heights, AppliedTo
<1>3. NoBalance.lastBlock = 0 /\ DOMAIN NoBalance = {"exists", "confirmed", "pending", "locked", "lastBlock"}
  BY DEF NoBalance
<1>4. QED
  BY <1>1, <1>2, <1>3 DEF BalanceInit, HeightInv

\* ApplyConfirmationEvent: in whatever order events arrive, are redelivered, fail or are
\* followed by reorgs, LastBlockSeen is the highest block of an applied event.
THEOREM HighestBlockSeen == BalanceSpec => []LastBlockSeen
<1>1. HeightInv => LastBlockSeen
  <2> SUFFICES ASSUME HeightInv, NEW s \in Slots PROVE balances[s].lastBlock = Max(Heights(s))
    BY DEF LastBlockSeen, Heights
  <2> DEFINE b == balances[s].lastBlock
  <2>1. b \in Heights(s) /\ (\A n \in Heights(s) : n <= b) /\ Heights(s) \subseteq Nat
    BY HeightsNat DEF HeightInv
  <2> HIDE DEF b
  <2>2. \A x \in Heights(s) : (\A n \in Heights(s) : x >= n) => x = b
    BY <2>1
  <2>3. \A n \in Heights(s) : b >= n
    BY <2>1
  <2>4. Max(Heights(s)) \in Heights(s) /\ \A n \in Heights(s) : Max(Heights(s)) >= n
    BY <2>1, <2>3 DEF Max
  <2>5. QED
    BY <2>2, <2>4 DEF b
<1>2. QED
  BY <1>1, HeightsInit, HeightsNext, PTL DEF BalanceSpec

-----------------------------------------------------------------------------
(* Sums of amounts *)

\* A set of finite sets that is not empty has a least element.
LEMMA LeastSubset ==
    ASSUME NEW S, IsFiniteSet(S), NEW T, T \subseteq SUBSET S, T # {}
    PROVE  \E x \in T : \A y \in T : y \subseteq x => y = x
<1>1. T \subseteq FiniteSubsetsOf(S)
  BY FS_FiniteSubsetsOfFinite
<1>2. PICK x \in T : \A y \in T : ~ (<<y, x>> \in StrictSubsetOrdering(S))
  BY <1>1, FS_StrictSubsetOrderingWellFounded, WFMin
<1>3. QED
  BY Zenon, <1>2 DEF StrictSubsetOrdering

Total(S) == MapThenSumSet(AmountOf, S)

First(S) == CHOOSE x \in S : TRUE

\* g is the recursive function MapThenSumSet defines on the subsets of S.
SumsUp(g, S) ==
    g = [s \in SUBSET S |-> IF s = {} THEN 0 ELSE AmountOf(First(s)) + g[s \ {First(s)}]]

LEMMA TotalChoice == \A S : Total(S) = (CHOOSE g : SumsUp(g, S))[S]
BY DEF Total, MapThenSumSet, MapThenFoldSet, SumsUp, First

LEMMA FirstIn == \A S : S # {} => First(S) \in S
BY DEF First

LEMMA SumsAgree ==
    ASSUME NEW S, IsFiniteSet(S), NEW g, NEW h, NEW T, SumsUp(g, S), SumsUp(h, T), T \subseteq S
    PROVE  \A s \in SUBSET T : g[s] = h[s]
<1> DEFINE Bad == {s \in SUBSET T : g[s] # h[s]}
<1>1. SUFFICES ASSUME Bad # {} PROVE FALSE
  BY Zenon
<1>2. PICK s \in Bad : \A y \in Bad : y \subseteq s => y = s
  <2>1. Bad \subseteq SUBSET S
    OBVIOUS
  <2> HIDE DEF Bad
  <2>2. QED
    BY <1>1, <2>1, LeastSubset
<1>3. s # {}
  BY <1>2 DEF SumsUp
<1>4. First(s) \in s
  BY <1>3, FirstIn
<1>5. g[s \ {First(s)}] = h[s \ {First(s)}]
  BY <1>2, <1>4
<1>6. QED
  BY Zenon, <1>2, <1>3, <1>5 DEF SumsUp

LEMMA SumExists ==
    ASSUME NEW S, IsFiniteSet(S) PROVE \A s \in SUBSET S : \E g : SumsUp(g, s)
<1> DEFINE Bad == {s \in SUBSET S : ~ \E g : SumsUp(g, s)}
<1>1. SUFFICES ASSUME Bad # {} PROVE FALSE
  OBVIOUS
<1>2. PICK t \in Bad : \A y \in Bad : y \subseteq t => y = t
  <2>1. Bad \subseteq SUBSET S
    OBVIOUS
  <2> HIDE DEF Bad
  <2>2. QED
    BY <1>1, <2>1, LeastSubset
<1> DEFINE sum(s) == CHOOSE g : SumsUp(g, s)
           below(s) == AmountOf(First(s)) + sum(s \ {First(s)})[s \ {First(s)}]
           all == [s \in SUBSET t |-> IF s = {} THEN 0 ELSE below(s)]
<1>3. \A s \in SUBSET t : s # t => SumsUp(sum(s), s)
  <2>1. \A s \in SUBSET t : s # t => s \notin Bad /\ s \in SUBSET S
    BY <1>2
  <2>2. \A s \in SUBSET t : s # t => \E g : SumsUp(g, s)
    BY <2>1
  <2>3. QED
    BY <2>2
<1>4. \A s \in SUBSET t : s # {} => First(s) \in s /\ s \ {First(s)} \in SUBSET t /\ s \ {First(s)} # t
  BY FirstIn
<1>5. ASSUME NEW s \in SUBSET t, s # t PROVE all[s] = sum(s)[s]
  <2> DEFINE r == s \ {First(s)}
  <2>1. SumsUp(sum(s), s)
    BY <1>3, <1>5
  <2>2. CASE s = {}
    BY Zenon, <2>1, <2>2 DEF SumsUp
  <2>3. CASE s # {}
    <3>1. r \in SUBSET t /\ r # t /\ r \subseteq s
      BY <1>4, <2>3
    <3>2. SumsUp(sum(r), r)
      BY Zenon, <1>3, <3>1
    <3>3. IsFiniteSet(s)
      BY <1>2, FS_Subset
    <3> HIDE DEF sum
    <3>4. sum(s)[r] = sum(r)[r]
      BY <2>1, <3>1, <3>2, <3>3, SumsAgree
    <3>5. sum(s)[s] = AmountOf(First(s)) + sum(s)[r]
      BY Zenon, <2>1, <2>3 DEF SumsUp
    <3>6. QED
      BY <2>3, <3>4, <3>5
  <2>4. QED
    BY <2>2, <2>3
<1>6. SumsUp(all, t)
  <2>1. \A s \in SUBSET t : s # {} => all[s \ {First(s)}] = sum(s \ {First(s)})[s \ {First(s)}]
    BY Zenon, <1>4, <1>5
  <2> HIDE DEF sum
  <2>2. all = [s \in SUBSET t |-> IF s = {} THEN 0 ELSE AmountOf(First(s)) + all[s \ {First(s)}]]
    BY Zenon, <2>1
  <2>3. QED
    BY Zenon, <2>2 DEF SumsUp
<1>7. QED
  BY <1>2, <1>6

LEMMA TotalStep ==
    ASSUME NEW S, IsFiniteSet(S)
    PROVE  Total(S) = IF S = {} THEN 0 ELSE AmountOf(First(S)) + Total(S \ {First(S)})
<1> DEFINE sum(s) == CHOOSE g : SumsUp(g, s)
           R == S \ {First(S)}
<1>1. SumsUp(sum(S), S) /\ SumsUp(sum(R), R)
  BY SumExists
<1>2. Total(S) = sum(S)[S] /\ Total(R) = sum(R)[R]
  BY Zenon, TotalChoice
<1> HIDE DEF sum
<1>3. sum(S)[R] = sum(R)[R]
  BY <1>1, SumsAgree
<1>4. sum(S)[S] = IF S = {} THEN 0 ELSE AmountOf(First(S)) + sum(S)[R]
  BY Zenon, <1>1 DEF SumsUp
<1>5. QED
  BY <1>2, <1>3, <1>4

\* Sums of amounts are integers.
LEMMA TotalInt == ASSUME NEW S \in SUBSET Confirmations, IsFiniteSet(S) PROVE Total(S) \in Int
<1> DEFINE Bad == {s \in SUBSET S : Total(s) \notin Int}
<1>1. SUFFICES ASSUME Bad # {} PROVE FALSE
  BY Zenon
<1>2. PICK s \in Bad : \A y \in Bad : y \subseteq s => y = s
  <2>1. Bad \subseteq SUBSET S
    OBVIOUS
  <2> HIDE DEF Bad
  <2>2. QED
    BY <1>1, <2>1, LeastSubset
<1>3. IsFiniteSet(s)
  BY <1>2, FS_Subset
<1>4. s # {} /\ Total(s) = AmountOf(First(s)) + Total(s \ {First(s)})
  BY <1>2, <1>3, TotalStep
<1>5. First(s) \in s
  BY <1>4, FirstIn
<1>6. Total(s \ {First(s)}) \in Int
  BY <1>2, <1>5
<1>7. AmountOf(First(s)) \in Int
  BY <1>2, <1>5, BalanceConstants DEF AmountOf
<1>8. QED
  BY <1>2, <1>4, <1>6, <1>7

\* It does not matter which element is taken first.
LEMMA TotalRemove ==
    ASSUME NEW S \in SUBSET Confirmations, IsFiniteSet(S)
    PROVE  \A x \in S : Total(S) = AmountOf(x) + Total(S \ {x})
<1> DEFINE Bad == {s \in SUBSET S : \E x \in s : Total(s) # AmountOf(x) + Total(s \ {x})}
<1>1. SUFFICES ASSUME Bad # {} PROVE FALSE
  BY Zenon
<1>2. PICK s \in Bad : \A y \in Bad : y \subseteq s => y = s
  <2>1. Bad \subseteq SUBSET S
    OBVIOUS
  <2> HIDE DEF Bad
  <2>2. QED
    BY <1>1, <2>1, LeastSubset
<1>3. PICK x \in s : Total(s) # AmountOf(x) + Total(s \ {x})
  BY <1>2
<1> DEFINE c == First(s)
           both == s \ {x, c}
<1>4. /\ \A t \in SUBSET S : IsFiniteSet(t)
      /\ \A t \in SUBSET S : Total(t) \in Int
      /\ \A y \in S : AmountOf(y) \in Int
  BY FS_Subset, TotalInt, BalanceConstants DEF AmountOf
<1>5. c \in s /\ Total(s) = AmountOf(c) + Total(s \ {c})
  BY <1>2, <1>4, TotalStep, FirstIn
<1>6. c # x
  BY <1>3, <1>5
<1>7. (s \ {c}) \ {x} = both /\ (s \ {x}) \ {c} = both
  OBVIOUS
<1>8. s \ {c} \notin Bad /\ s \ {x} \notin Bad
  BY <1>2, <1>3, <1>5
<1>9. Total(s \ {c}) = AmountOf(x) + Total(both) /\ Total(s \ {x}) = AmountOf(c) + Total(both)
  BY Zenon, <1>2, <1>3, <1>5, <1>6, <1>7, <1>8
<1>10. AmountOf(x) \in Int /\ AmountOf(c) \in Int /\ Total(both) \in Int
  BY <1>2, <1>3, <1>4, <1>5
<1>11. QED
  BY <1>3, <1>5, <1>9, <1>10

\* Adding an event to a set adds its amount to the total.
LEMMA TotalAdd ==
    ASSUME NEW S \in SUBSET Confirmations, IsFiniteSet(S), NEW x \in Confirmations, x \notin S
    PROVE  Total(S \cup {x}) = Total(S) + AmountOf(x)
<1>1. IsFiniteSet(S \cup {x}) /\ S \cup {x} \in SUBSET Confirmations /\ (S \cup {x}) \ {x} = S
  BY FS_AddElement
<1>2. Total(S \cup {x}) = AmountOf(x) + Total(S)
  BY <1>1, TotalRemove
<1>3. Total(S) \in Int /\ AmountOf(x) \in Int
  BY TotalInt, BalanceConstants DEF AmountOf
<1>4. QED
  BY <1>2, <1>3

-----------------------------------------------------------------------------
(* What the columns add up to *)

Counted(s) == {e \in AppliedTo(s) : IsConfirmed(e)}

\* An event is applied by the one handler that recorded it, and once.
HandlingInv ==
    /\ applied \subseteq recorded /\ recorded \subseteq Confirmations /\ IsFiniteSet(applied)
    /\ \A h \in Handlers : handler[h].at = "apply" => handler[h].event \in recorded \ applied
    /\ \A g, h \in Handlers :
          handler[g].at = "apply" /\ handler[h].at = "apply" /\ handler[g].event = handler[h].event
              => g = h

\* A balance is the amounts of what was applied to it, the confirmed part of it
\* those of some confirmed events.
CreditInv ==
    \A s \in Slots :
        /\ balances[s].confirmed \in Int /\ balances[s].pending \in Int
        /\ balances[s].confirmed + balances[s].pending = Total(AppliedTo(s))
        /\ \E part \in SUBSET Counted(s) : balances[s].confirmed = Total(part)

\* Every step keeps each event with one handler.
LEMMA HandlingNext == HeightInv /\ HandlingInv /\ [BalanceNext]_balanceVars => HandlingInv'
<1> SUFFICES ASSUME HeightInv, HandlingInv, [BalanceNext]_balanceVars PROVE HandlingInv'
  OBVIOUS
<1>1. ASSUME NEW h \in Handlers, NEW e \in Confirmations, RecordBalanceEvent(h, e) PROVE HandlingInv'
  <2>1. CASE e \in recorded
    BY <1>1, <2>1 DEF RecordBalanceEvent, HandlingInv
  <2>2. CASE e \notin recorded
    <3>1. /\ recorded' = recorded \cup {e} /\ UNCHANGED applied
          /\ handler' = [handler EXCEPT ![h] = [at |-> "apply", event |-> e]]
      BY <1>1, <2>2 DEF RecordBalanceEvent
    <3>2. \A g \in Handlers : handler'[g] = IF g = h THEN [at |-> "apply", event |-> e] ELSE handler[g]
      BY <3>1 DEF HeightInv
    <3>3. QED
      BY <2>2, <3>1, <3>2 DEF HandlingInv
  <2>3. QED
    BY <2>1, <2>2
<1>2. ASSUME NEW h \in Handlers, Done(h) PROVE \A g \in Handlers : handler'[g] = IF g = h THEN Waiting ELSE handler[g]
  BY <1>2 DEF Done, HeightInv
<1>3. Waiting.at = "idle"
  BY DEF Waiting
<1>4. ASSUME NEW h \in Handlers, Apply(h) PROVE HandlingInv'
  <2>1. PICK e \in Confirmations : e = handler[h].event
    BY <1>4 DEF HeightInv, Apply
  <2>2. handler[h].at = "apply" /\ applied' = applied \cup {e} /\ UNCHANGED recorded
    BY <1>4, <2>1 DEF Apply
  <2>3. \A g \in Handlers : handler'[g] = IF g = h THEN Waiting ELSE handler[g]
    BY <1>2, <1>4 DEF Apply
  <2>4. IsFiniteSet(applied')
    BY <2>2, FS_AddElement DEF HandlingInv
  <2>5. QED
    BY <1>3, <2>1, <2>2, <2>3, <2>4 DEF HandlingInv
<1>5. ASSUME NEW h \in Handlers, ApplyFails(h) \/ BalanceCrash(h) PROVE HandlingInv'
  <2>1. UNCHANGED <<recorded, applied>> /\ \A g \in Handlers : handler'[g] = IF g = h THEN Waiting ELSE handler[g]
    BY <1>2, <1>5 DEF ApplyFails, BalanceCrash
  <2>2. QED
    BY <1>3, <2>1 DEF HandlingInv
<1>6. ASSUME UNCHANGED <<recorded, applied, handler>> PROVE HandlingInv'
  BY <1>6 DEF HandlingInv
<1>7. ASSUME NEW s \in Slots, NEW n, ApplyReorgEvent(s) \/ AddLocked(s, n) \/ ReleaseLocked(s, n) PROVE HandlingInv'
  BY <1>6, <1>7 DEF ApplyReorgEvent, AddLocked, ReleaseLocked
<1>8. QED
  BY <1>1, <1>4, <1>5, <1>6, <1>7 DEF BalanceNext, balanceVars

\* What was applied to a slot is a finite set of events.
LEMMA AppliedFinite ==
    HandlingInv => \A s \in Slots : \A part \in SUBSET AppliedTo(s) :
                      part \in SUBSET Confirmations /\ IsFiniteSet(part)
<1> SUFFICES ASSUME HandlingInv, NEW s \in Slots, NEW part \in SUBSET AppliedTo(s)
             PROVE  part \in SUBSET Confirmations /\ IsFiniteSet(part)
  OBVIOUS
<1>1. part \in SUBSET applied
  BY DEF AppliedTo
<1>2. QED
  BY <1>1, FS_Subset DEF HandlingInv

\* An amount that is applied goes to the confirmed or to the pending column of its slot.
LEMMA CreditsApply ==
    ASSUME HeightInv, HandlingInv, CreditInv, NEW h \in Handlers, Apply(h)
    PROVE  CreditInv'
<1>1. PICK e \in Confirmations, t \in Slots, n \in Int :
        e = handler[h].event /\ t = Event[e].slot /\ n = AmountOf(e)
  BY BalanceConstants DEF HeightInv, Apply, AmountOf
<1>2. applied' = applied \cup {e} /\ balances' = [balances EXCEPT ![t] = Credited(balances[t], e)]
  BY <1>1 DEF Apply
<1>3. e \notin applied
  BY <1>1 DEF Apply, HandlingInv
<1>4. \A s \in Slots : balances'[s] = IF s = t THEN Credited(balances[t], e) ELSE balances[s]
  BY <1>1, <1>2 DEF HeightInv
<1>5. \A s \in Slots : AppliedTo(s)' = IF s = t THEN AppliedTo(s) \cup {e} ELSE AppliedTo(s)
  BY <1>1, <1>2 DEF AppliedTo
<1>6. \A s \in Slots : Counted(s)' = IF s = t /\ IsConfirmed(e) THEN Counted(s) \cup {e} ELSE Counted(s)
  BY <1>5 DEF Counted
<1>7. /\ Credited(balances[t], e).confirmed = balances[t].confirmed + IF IsConfirmed(e) THEN n ELSE 0
      /\ Credited(balances[t], e).pending = balances[t].pending + IF IsConfirmed(e) THEN 0 ELSE n
  BY <1>1 DEF Credited, AmountOf
<1>8. ASSUME NEW s \in Slots
      PROVE  /\ balances'[s].confirmed \in Int /\ balances'[s].pending \in Int
             /\ balances'[s].confirmed + balances'[s].pending = Total(AppliedTo(s)')
             /\ \E part \in SUBSET Counted(s)' : balances'[s].confirmed = Total(part)
  <2>1. CASE s # t
    BY <1>4, <1>5, <1>6, <2>1 DEF CreditInv
  <2>2. CASE s = t
    <3> DEFINE c == balances[s].confirmed
               p == balances[s].pending
    <3>1. PICK part \in SUBSET Counted(s) : c = Total(part)
      BY DEF CreditInv
    <3>2. c \in Int /\ p \in Int /\ c + p = Total(AppliedTo(s))
      BY DEF CreditInv
    <3>3. e \notin AppliedTo(s) /\ e \notin part /\ part \in SUBSET AppliedTo(s)
      BY <1>3, <3>1 DEF AppliedTo, Counted
    <3>4. /\ AppliedTo(s) \in SUBSET Confirmations /\ IsFiniteSet(AppliedTo(s))
          /\ part \in SUBSET Confirmations /\ IsFiniteSet(part)
      BY <3>3, AppliedFinite
    <3>5. Total(AppliedTo(s)') = Total(AppliedTo(s)) + n
      BY <1>1, <1>5, <2>2, <3>3, <3>4, TotalAdd
    <3>6. /\ balances'[s].confirmed = c + IF IsConfirmed(e) THEN n ELSE 0
          /\ balances'[s].pending = p + IF IsConfirmed(e) THEN 0 ELSE n
      BY <1>4, <1>7, <2>2
    <3> HIDE DEF c, p
    <3>7. /\ balances'[s].confirmed \in Int /\ balances'[s].pending \in Int
          /\ balances'[s].confirmed + balances'[s].pending = Total(AppliedTo(s)')
      BY <3>2, <3>5, <3>6
    <3>8. CASE IsConfirmed(e)
      <4>1. Total(part \cup {e}) = c + n
        BY <1>1, <3>1, <3>3, <3>4, TotalAdd
      <4>2. part \cup {e} \in SUBSET Counted(s)'
        BY <1>6, <2>2, <3>1, <3>8
      <4>3. QED
        BY <3>6, <3>7, <3>8, <4>1, <4>2
    <3>9. CASE ~IsConfirmed(e)
      <4>1. Counted(s)' = Counted(s) /\ balances'[s].confirmed = c
        BY <1>6, <3>2, <3>6, <3>9
      <4>2. QED
        BY <3>1, <3>7, <4>1
    <3>10. QED
      BY <3>8, <3>9
  <2>3. QED
    BY <2>1, <2>2
<1>9. QED
  BY <1>8 DEF CreditInv

\* Every step keeps the sums.
LEMMA CreditNext ==
    HeightInv /\ HandlingInv /\ CreditInv /\ [BalanceNext]_balanceVars => CreditInv'
<1> SUFFICES ASSUME HeightInv, HandlingInv, CreditInv, [BalanceNext]_balanceVars PROVE CreditInv'
  OBVIOUS
<1>1. ASSUME UNCHANGED applied,
             \A s \in Slots : /\ balances'[s].confirmed = balances[s].confirmed
                              /\ balances'[s].pending = balances[s].pending
      PROVE  CreditInv'
  BY <1>1 DEF CreditInv, Counted, AppliedTo
<1>2. ASSUME NEW s \in Slots, ApplyReorgEvent(s) PROVE CreditInv'
  <2> DEFINE c == balances[s].confirmed
             p == balances[s].pending
  <2>1. /\ UNCHANGED applied
        /\ \A r \in Slots : r # s => balances'[r] = balances[r]
        /\ balances'[s].confirmed = 0 /\ balances'[s].pending = p + c
    BY <1>2 DEF ApplyReorgEvent, HeightInv
  <2>2. Total({}) = 0 /\ {} \in SUBSET Counted(s)
    BY FS_EmptySet, TotalStep
  <2>3. c \in Int /\ p \in Int /\ c + p = Total(AppliedTo(s))
    BY DEF CreditInv
  <2>4. \A r \in Slots : AppliedTo(r)' = AppliedTo(r) /\ Counted(r)' = Counted(r)
    BY <2>1 DEF AppliedTo, Counted
  <2> HIDE DEF c, p
  <2>5. 0 \in Int /\ p + c \in Int /\ 0 + (p + c) = Total(AppliedTo(s))
    BY <2>3
  <2>6. QED
    BY <2>1, <2>2, <2>4, <2>5 DEF CreditInv
<1>3. ASSUME NEW s \in Slots, NEW n, AddLocked(s, n) \/ ReleaseLocked(s, n) PROVE CreditInv'
  <2>1. PICK k : balances' = [balances EXCEPT ![s].locked = k] /\ UNCHANGED applied
    BY <1>3 DEF AddLocked, ReleaseLocked
  <2>2. QED
    BY <1>1, <2>1 DEF HeightInv
<1>4. ASSUME NEW h \in Handlers, NEW e, RecordBalanceEvent(h, e) \/ ApplyFails(h) \/ BalanceCrash(h)
      PROVE  CreditInv'
  BY <1>1, <1>4 DEF RecordBalanceEvent, ApplyFails, BalanceCrash
<1>5. CASE UNCHANGED balanceVars
  BY <1>1, <1>5 DEF balanceVars
<1>6. QED
  BY <1>2, <1>3, <1>4, <1>5, CreditsApply DEF BalanceNext

\* Heights, handling and sums together are inductive.
LEMMA CreditsCorrect == BalanceSpec => [](HeightInv /\ HandlingInv /\ CreditInv)
<1>1. BalanceInit => HandlingInv
  BY FS_EmptySet DEF BalanceInit, HandlingInv, Waiting
<1>2. BalanceInit => CreditInv
  <2> SUFFICES ASSUME BalanceInit, NEW s \in Slots
               PROVE  /\ balances[s].confirmed \in Int /\ balances[s].pending \in Int
                      /\ balances[s].confirmed + balances[s].pending = Total(AppliedTo(s))
                      /\ \E part \in SUBSET Counted(s) : balances[s].confirmed = Total(part)
    BY DEF CreditInv
  <2>1. AppliedTo(s) = {} /\ Total({}) = 0
    BY FS_EmptySet, TotalStep DEF BalanceInit, AppliedTo
  <2>2. balances[s].confirmed = 0 /\ balances[s].pending = 0
    BY DEF BalanceInit, NoBalance
  <2>3. QED
    BY <2>1, <2>2
<1>3. QED
  BY <1>1, <1>2, HeightsInit, HeightsNext, HandlingNext, CreditNext, PTL DEF BalanceSpec

\* ApplyConfirmationEvent and ApplyReorgEvent: however often events are delivered, whatever
\* fails or dies between recording and applying, a balance is the sum of the amounts
\* of events applied to it, none twice, and no transfer they report is missing from it.
THEOREM NoTransferLost == BalanceSpec => []TransfersCounted
<1>1. CreditInv => TransfersCounted
  <2> SUFFICES ASSUME CreditInv, NEW s \in Slots
               PROVE  \E counted \in SUBSET AppliedTo(s) :
                        /\ balances[s].confirmed + balances[s].pending
                             = MapThenSumSet(AmountOf, counted)
                        /\ \A e \in AppliedTo(s) :
                              \E f \in counted : Event[f].transfer = Event[e].transfer
    BY Zenon DEF TransfersCounted
  <2>1. balances[s].confirmed + balances[s].pending = MapThenSumSet(AmountOf, AppliedTo(s))
    BY DEF CreditInv, Total
  <2>2. WITNESS AppliedTo(s) \in SUBSET AppliedTo(s)
  <2>3. QED
    BY Zenon, <2>1
<1>2. QED
  BY <1>1, CreditsCorrect, PTL

\* isConfirmed: the confirmed column only ever holds amounts of events that were deep
\* enough, or finalized, when they arrived.
THEOREM ConfirmedIsCovered == BalanceSpec => []ConfirmedCovered
<1>1. CreditInv => ConfirmedCovered
  <2> SUFFICES ASSUME CreditInv, NEW s \in Slots
               PROVE  balances[s].confirmed \in
                        {MapThenSumSet(AmountOf, part) : part \in SUBSET
                            {e \in AppliedTo(s) :
                                \/ s \in FinalizedSlots /\ Event[e].final
                                \/ s \notin FinalizedSlots /\ Event[e].confs >= Threshold[s]}}
    BY DEF ConfirmedCovered
  <2>1. Counted(s) = {e \in AppliedTo(s) :
                        \/ s \in FinalizedSlots /\ Event[e].final
                        \/ s \notin FinalizedSlots /\ Event[e].confs >= Threshold[s]}
    BY DEF Counted, AppliedTo, IsConfirmed
  <2>2. \E part \in SUBSET Counted(s) : balances[s].confirmed = MapThenSumSet(AmountOf, part)
    BY DEF CreditInv, Total
  <2>3. QED
    BY <2>1, <2>2
<1>2. QED
  BY <1>1, CreditsCorrect, PTL
=============================================================================

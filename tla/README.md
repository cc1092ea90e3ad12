# Wallet management: a TLA+ verification project

TLA+ models of the wallet-management service, TLC runs over small instances, and
TLAPS proofs. Paths are relative to `src/`. `PROJECT.json` holds the index: which
definition models which lines, which run checks which property, the findings and
the hazards each property is aimed at.

## The system

A Go service that owns custody wallets: their receive addresses, balances,
Bitcoin outputs, EVM nonces and keys, and the withdrawals that spend from them.

| Part | Code | State it owns | Operations that change it |
|---|---|---|---|
| withdrawal saga | `internal/withdrawal/withdrawal.go` | `withdrawal_requests` | Create, ConstructAndSign, Broadcast, Confirm, Fail, OnReorg |
| transaction builder | `internal/withdrawal/txbuilder.go` | none | pure encoding |
| nonce manager | `internal/nonce` | `nonces` | ReserveNonce, CommitNonce, RollbackNonce |
| UTXO manager | `internal/utxo` | `utxos` | SelectForAmount, Unlock, MarkSpent, RestoreOnReorg, TrackUTXO, PruneFinalized |
| key mappings | `internal/keymapping` | `key_mappings` | Bind, Rotate, ExpireCooling |
| balance tracker | `internal/balance` | `balances`, `balance_events` | ApplyConfirmationEvent, ApplyReorgEvent, AddLocked, ReleaseLocked |
| funding requests | `internal/funding` | `funding_requests` | EvaluateAndRequest, ManualRequest, MarkApproved, MarkSettled, MarkRejected |
| wallets, addresses | `internal/wallet`, `internal/domain` | `wallets`, `addresses` | Create, SetState, DeriveAddress (CurrentOrRotate, ForceRotate) |
| audit outbox | `internal/audit` | `audit_outbox`, `audit_seq` | Emit, Drain |
| locks | `internal/lock` | Redis keys or a map | Acquire, Release |
| storage | `internal/storage/{postgres,memstore}` | all tables | one method per statement above |
| APIs and wiring | `internal/api`, `cmd/wallet-management` | none | handlers call the services |
| clients | `internal/{policy,clients,grpcclient}` | none | policy, signer, gateway calls |
| derivers, cache, config, otel, migrations, pb | as named | none, or set once | none |

The saga calls the nonce and UTXO managers, the key mappings, the policy engine,
the MPC signer and the blockchain gateway. The gateway calls back with
confirmations and reorgs, of withdrawals or of balances. A fall of a confirmed
balance triggers a funding evaluation. Every service emits audit events, which a
background drainer publishes. What is hard to test is in the order of these
steps: handlers run concurrently, each of several store statements, most of them
without a transaction, and many errors are ignored on purpose. `PROJECT.json`
lists those places under `hazards`.

Several operations have no caller in the repository besides tests (the driver of
the saga, the output tracker, the Treasury callbacks, ExpireCooling). They are
modelled as what they are: operations that outside actors may call.

## Modules

| Module | Models | Extended by |
|---|---|---|
| `NonceStore` | the nonce row and the three store operations on it | `Withdrawal` |
| `UtxoStore` | lock states of outputs; lock, spend, restore, prune, and the row-by-row loops | `Withdrawal` |
| `CoinSelection` | which sets the greedy selection can return | `Withdrawal` |
| `Withdrawal` | the saga, composed with the three above | `MCWithdrawal`, `WithdrawalProofs`, `PayoutProofs`, `OutputProofs`, `LifecycleProofs` |
| `WithdrawalLifecycle` | abstract: what the service promises about one withdrawal | instantiated by `Withdrawal` |
| `KeyMapping` | key mappings against a clock | `MemStore`, `StoreProofs` |
| `MemStore` | the in-memory store under goroutines: mutex, snapshots, rollback, with the key mappings and a balance as its tables | `StoreProofs` |
| `Funding` | funding requests, triggers and Treasury | `HotWallet`, `OutboundProofs` |
| `Balance` | balances and event deduplication | `MCBalance`, `BalanceProofs`; instantiated by `HotWallet` |
| `HotWallet` | `Balance` and `Funding` joined by the decrease callback of `main.go` | `MCHotWallet`, `OutboundProofs` |
| `AddressRotation` | wallet states, addresses, both lockers | `MCAddressRotation`, `RotationProofs` |
| `AuditOutbox` | emitters, outbox, drainers, start and shutdown of replicas | `MCAuditOutbox`, `OutboundProofs` |

Every module whose name ends in `Proofs` holds theorems and their lemmas. There are
three refinements: `Withdrawal` implements `WithdrawalLifecycle`, `MemStore`
implements `KeyMapping`, `HotWallet` implements `Funding`.

### Conventions

*Steps.* A handler is a caller with a program counter. Every access to the store
is a step; computation and outside calls between two accesses belong to the step
after them. A store transaction is one step: Postgres runs `InTx` SERIALIZABLE, and
`MemStore` takes the memory store's mutex and snapshots apart to show that its
methods and transactions are atomic as well. A call that returns before its first write
changes nothing and is not started. Two calls that nothing separates in the code
are never separate actions.

*Backends.* `Backend` selects the store. They differ where it matters: Postgres
enforces the partial unique indexes on every write, loops over outputs statement
by statement and can fail or crash in between; the memory store checks fewer
constraints, and fails only on its own checks. An `ASSUME` rules out store faults
and crashes of a memory store, which loses everything with the process. The runs of
`Withdrawal` are on Postgres, which is what `main.go` wires; of its theorems only
`OneInFlight` is about Postgres alone.

*Faults* are a constant set, and each run names the ones it lets happen. For the
saga: `lock` the nonce lock is not obtained; `store` a write whose failure the
code compensates; `build`, `sign`; `reject` the gateway refuses; `lostack` the
gateway accepts and the call fails; `lostwrite` a write whose error the code
ignores, or returns without compensation; `crash` a caller dies.

*Two text formats of the database* are constants, as they are facts about
Postgres and not about the code. `AmountsParse`: a NUMERIC(38,18) column is read
back with 18 decimals, which the builders' integer parsers refuse. `EmptyIsZero`:
an empty string is no NUMERIC. As deployed on Postgres both are FALSE. The passing
Postgres runs set them to TRUE, to see what the rest of the code does. With the
`build` fault, and with the `store` fault of `Balance`, they also contain the runs
in which every build, or every first write of a balance, fails. `happy_path` has
`AmountsParse` FALSE, `balance_lost` has `EmptyIsZero` FALSE.

*History variables.* `approved` (policy said yes), `accepted` (transactions the
gateway took), `applied`, `acked` (balance events), `treasury` and `failed`
(funding requests that arrived, or whose caller saw an error or died), `log` (audit
events the sink received), `demoted` (when a key was rotated out), `latest` and
`committed` (keys made current, transactions that returned nil), `asks` and `lost`
(which event a funding goroutine runs for, and those whose goroutine failed or
died). The `reason` of a funding call (automatic, or an operator's) is part of the
request; nothing branches on it. The `transfer` of a balance event says which events
report the same deposit or withdrawal. No action of the code reads any of
these; Treasury and the audit log are outside parties. `due` stands for goroutines that were started and have not run yet.

### Withdrawal

`wr` is the table, `nonces` and `utxos` those of the stores, `inflight` the
payment keys the memory store holds, `calls` the callers. Create is
`StartCreate`, `Insert`, `CheckWhitelist`; ConstructAndSign is `StartConstruct`,
then `ReserveNonce` and `SaveNonce`, or `ListFree`, `LockSelected`,
`SaveOutpoints`, then `SignTx`, `MarkSigned`; Broadcast is `StartBroadcast`,
`Submit`, `Commit`, `MarkBroadcast`; every error path goes through
`StartRollback`, `Rollback` and, where the code does so, `MarkFailed`. `Rollback`,
`Commit` and `Restore` run over their rows in as many steps as the backend takes.
`OnReorg` is the gRPC handler: the withdrawal's part, then the balance service's
restore of the same outputs. A statement of either restore that fails (`lostwrite`)
ends the handler with the rows written so far.

`Exclusive` says that the orchestrator, which is outside the repository, runs at
most one of Create, ConstructAndSign, Broadcast and Fail per withdrawal at a time.
The code has no guard of its own. Confirm and OnReorg overlap with anything.

### The other components

* `KeyMapping`: `Bind`, `Rotate`, `ExpireCooling` are one transaction each; `Tick`
  is the clock.
* `MemStore`: a goroutine makes one call at a time. `Lock` and `Unlock` count the
  depth as `lock()` does: a method inside `InTx` takes the lock its goroutine
  already holds. `Snapshot` copies every table, `CallMethod` and `Method` are the
  writes of the function given to `InTx` (the balance, the audit number, the audit
  row), which may return an error between any two of them; `Rollback` puts the copy
  back. A `sign` call is ConstructAndSign as far as keys go: it resolves one and
  signs with it after any number of rotations by others.
* `Funding`: a slot is a (wallet, asset) pair. A trigger reads, looks for an open
  request, inserts, and calls Treasury, in four steps; `StoreFails` is an error of
  one of the statements. The automatic trigger enters with the reason "auto", the
  operator's with "manual", so that one is never taken for the other.
* `Balance`: `RecordBalanceEvent` is its own statement, `Apply` the transaction.
  Any event may be redelivered at any time.
* `HotWallet`: a slot is low because of what `Balance` left in its row. A confirmed
  decrease puts its event in `due`: the goroutine that `OnConfirmedDecrease` starts
  on a context of its own. `Evaluate` is that goroutine up to the comparison with
  the minimum; what follows is `Funding`'s. The store can fail it or the replica
  die at each step, which nothing repeats.
* `AddressRotation`: one action per statement of `CurrentOrRotate`, `ForceRotate`,
  `rotate`, `deriveNewLocked` and `deriveNew`. A
  wallet gets its chain when it is created. An address is its chain and index;
  Solana has one, index 0, and goes on as if it had none when listing addresses fails.
  Chains are kept apart: the EVM chains derive from one key, so the same index gives
  the same address on each of them (`internal/deriver/evm.go:53`).
  The age and receive-count tests of `shouldRotate` are a free choice. Redis locks
  may expire at any time, and `Release` is a get and a delete.
* `AuditOutbox`: `Emit` takes a number and appends a row in two steps, after the
  change, or with it inside the transaction for balance events. A failing sink
  may have taken any part of its batch. A replica is `up`, then runs the deferred
  calls of `run()` one by one (`sinkClosed`, `cancelled`, `down`) while its drainer
  and its handlers still go on, and may be started again.

## Runs

Passing runs, which together fire every action:

| Run | Checks | Instance |
|---|---|---|
| `evm_clean` | NonceUnique, CommitCovers, PendingInCreate, LifecycleSpec | three EVM withdrawals, two callers; failures the saga compensates, reorgs, REST allocations, wallets paused and retired |
| `btc_clean` | OutpointExclusive, NoLeakedLock, BroadcastSpent | three Bitcoin withdrawals, three callers, selections that overlap; compensated failures, new and pruned outputs |
| `saga_faults` | TypeOK, ApprovedOnly, SinglePayout, DedupInflight | two requests for one payment; every operation but wallet state changes, lost answers, lost writes, crashes |
| `key_rotation` | OneCurrent, CoolingResolves, NothingLost, SigningKeyResolves, CallsReturn, ImplementsKeyMapping | `MemStore`: two goroutines, two keys of a wallet rotated back and forth, a transaction that commits or rolls back at any point |
| `funding` | OneOpen, RequestedIsSent, DecreaseNoticed, ImplementsFunding | `HotWallet`: a deposit and a withdrawal of a hot wallet, a reorg, overlapping triggers, two requests; failing store and Treasury calls, crashes, callbacks in any order |
| `audit` | DeliveredInLog, SeqUnique, EventuallyDelivered | three emitters, two replicas that shut down, crash and start again; failing store and sink |
| `balance` | TransfersCounted, LastBlockSeen, ConfirmedCovered | two handlers, six events, redelivery, aborts, crashes, a reorg |
| `rotation` | OneActive, AddressUnique | two wallets, one chain or two, Postgres and Redis; expiring locks, failing statements, crashes, state changes |

What they show. On the reservation side: whatever order withdrawals reserve, fail
and broadcast in, a nonce goes out once, the broadcast nonce covers what went out,
an output is in one transaction, and a lock always has a withdrawal that will give
it back. `LifecycleSpec` says that the saga, seen through the state column and the
gateway, is the small machine of `WithdrawalLifecycle`. `PendingInCreate` says that a
request is PENDING only while the Create that inserted it still runs; as goroutines
make progress, it is decided. With every fault the code
can meet, what survives is that payouts are approved and not repeated. These are
different runs because the faults differ: after a lost answer, a lost write, a
crash, or Fail, the code may give back a nonce or an output that is in use, or keep
one that is not, so the properties of the first two runs are stated without them;
`btc_clean` also leaves out reorgs, which free outputs of broadcast withdrawals.

`key_rotation` shows that callers of the memory store cannot tell it from an atomic
one, that a rollback undoes what its own transaction wrote and nothing else, that
no goroutine waits for itself, and that a key resolved for signing stays usable
until its cooling period is over. `funding` shows that a fall of a hot wallet below
its minimum is noticed whoever wins the race to ask, unless the goroutine itself
fails; that exception is real, since nothing repeats it. Through `ImplementsFunding` it
also shows that a request made by itself is for a hot wallet below its minimum: in the
run a reorg and a late deposit lift the balance between the decrease and the evaluation.
That a cold wallet is left alone is shown by the theorem, for all events; the run has no
decrease of one. `balance` shows that redelivery, overlap and reorgs neither double an
event nor lose one; it does not say that a deposit seen and then confirmed counts once,
which the code does not do (see the divergences). `audit` shows that closing
the sink under a running drainer loses nothing and that rows left behind by a
replica are delivered by any replica that runs.

Runs that end in a counterexample show a place where the code does not do what
the repository says of it; each quotes its line in `findings`:

| Run | Property | Counterexample |
|---|---|---|
| `happy_path` | HappyPath | an amount read back from Postgres has 18 decimals and does not parse: an approved withdrawal is reserved, refused by the builder and rolled back, again and again, although nothing fails |
| `nonce_reuse` | NonceUnique | a failed build gives the nonce back but leaves it in the row; Fail gives it back again, with another owner in between |
| `balance_lost` | AckedApplied | the first event of a balance is recorded, its transaction aborts on the empty `locked`, and the redelivery is answered with success |
| `rotation_atomic` | KeepsActive | two wallets of a chain take the same index; the insert that is refused leaves its wallet without an active address |

### Divergences

Places where the model, read next to the documents, does something else than they
say, and which no run checks: the behaviour is plain in the actions named.

| Code | Statement | What the code does |
|---|---|---|
| `storage/postgres/postgres.go:429` | PROJECT_PLAN.md:258 | only the last nonce can be returned, so a failure of an earlier withdrawal leaves a gap (`RollbackPendingNonce`) |
| `withdrawal/withdrawal.go:291` | the comment at :281 | Fail of a signed Bitcoin withdrawal keeps its outputs locked (`Fail`) |
| `withdrawal/withdrawal.go:312` | PROJECT_PLAN.md:259 | a reorg frees the outputs of a withdrawal that is still BROADCAST (`OnReorg`) |
| `withdrawal/withdrawal.go:317` | schema.sql:99 | in memory a demotion can put two equal payments in flight (`OnReorg`) |
| `storage/memstore/memstore.go:749` | PROJECT_PLAN.md:394 | a key resolves after its cooling period until ExpireCooling is called, which nothing schedules (`ResolveActiveKey`) |
| `funding/funding.go:158` | the dedup check at :111 | a request whose Treasury call failed is not retried and suppresses later ones (`RequestFunding`) |
| `funding/funding.go:174` | PROJECT_PLAN.md:299 | callbacks write their state over any other (`Mark`) |
| `audit/audit.go:155` | PROJECT_PLAN.md:433 | a number is taken before its row is there, so a later number can be delivered first (`Emit`) |
| `wallet/service.go:104` | PROJECT_PLAN.md:430 | a crash between change and Emit leaves no audit event (`AuditCrash`) |
| `balance/balance.go:83` | the comment at :85 | a crash after the event was recorded loses it like the abort of `balance_lost` (`BalanceCrash`) |
| `balance/balance.go:105` | the comment at :74, PROJECT_PLAN.md:196 and 215 | pending is not taken down when the same deposit is confirmed, so a deposit of 4 seen and then deep totals 8 (`Credited`) |
| `balance/balance.go:158` | PROJECT_PLAN.md:216 | a reorg demotes the value of all blocks (`ApplyReorgEvent`) |
| `balance/balance.go:169` | PROJECT_PLAN.md:284 | a decrease by a reorg is not reported to funding |
| `wallet/rotation.go:66` | the comment at :57 | ForceRotate deprecates an address read before it had the lock, and may fail |
| `wallet/rotation.go:140` | PROJECT_PLAN.md:124 | in memory two wallets of a chain can get one address (`InsertAdmits`) |
| `wallet/rotation.go:148` | PROJECT_PLAN.md:138 | a Solana rotation derives the same address, which the index refuses |
| `wallet/rotation.go:41` | PROJECT_PLAN.md:177 | a wallet retired after the check still gets an address |
| `wallet/service.go:97` | PROJECT_PLAN.md:106 | two SetState calls: a retired wallet becomes active again |

### Bounds

* Three withdrawals of a wallet: two that conflict and a third that takes what
  they free. A duplicate nonce by a double rollback needs all three.
* Outputs of 2, 1 and 1 units for withdrawals of 2: a selection is one output or
  two, two selections can overlap in part, and a loop over outputs can stop
  halfway.
* `MaxNonce` ends reservations; REST allocations use the same counter. It is at
  least the number of withdrawals wherever nonces are the subject.
* Two callers are enough for a race; `btc_clean` has a third, which lists outputs
  while one of the others gives them back.
* Balance events: a deposit below and at its threshold, one in a later block, a
  negative one, and a Solana deposit before and after it is finalized. The amounts
  4, 8, -1 and 2 make different sets of events of a slot have different sums,
  but for the two events of a deposit, which carry the same amount by nature.
* `Retries` is 2 for 20, `BatchLimit` 2 for 100 and for three events: the limits
  are reached.
* `MaxRows`: no derivation starts once there are two addresses. Calls under way
  still insert, so a first derivation, a rotation and a concurrent one all happen.
* Time runs to 3 with a cooling period of 1, so that a key can be rotated
  out, back and out again and expire. `MaxTx`: no transaction starts once one has
  committed; rolled back ones are not counted and repeat without limit.
* Two funding requests: one for the operator, one for the goroutine. `IdsLeft`
  keeps an id for every goroutine that may still ask, as ids are never short in the
  code. The deposit of 3 and the decrease of 2 cross the minimum of 2
  in both directions.
* Deadlock is not checked where runs end because all withdrawals, requests or
  events have been used; the progress properties say what must still happen.
* Symmetry is over callers and over wallets or withdrawals that are alike, never in
  a run with liveness. `evm_clean` checks `LifecycleSpec`, which is `Init` and a box
  of steps.

### Fairness

* `Withdrawal.Fairness`, of `happy_path` only: a goroutine that can step does (weak), and
  the orchestrator and the gateway, which are outside the repository, retry a ready
  withdrawal until it is taken up (strong). No passing run rests on it. It makes the
  counterexample stronger: even with callers that do all they can, no withdrawal is
  signed. With `AmountsParse` TRUE the same instance has no counterexample.
* `HotFairness`: goroutines step (weak, on `Request`). A goroutine that is due gets
  a place among the model's callers (strong, on `Evaluate`): in the code every
  goroutine has its own.
* `StoreFairness`: goroutines step (weak). A goroutine that waits for the mutex gets
  it (strong, on `Lock`): `sync.Mutex` hands itself to a waiter after a millisecond.
* `AuditFairness`: Drain goes on once begun and a replica that is not up moves on to
  its restart (weak); the ticker of `Start` fires while the replica is up, and
  neither the sink nor the store fails for ever (strong).

## Proofs

All for arbitrary constants under the named assumptions `ConstantTypes`,
`KeyConstants` and those of the modules they come from.

* `WithdrawalProofs!TypeCorrect`: `Spec => []TypeOK`. The one conjunct that is not
  routine is that `pending` stays a natural number: a failed Bitcoin selection
  calls `RollbackNonce` with -1, and Bitcoin wallets can have a nonce row, by the
  REST allocation. The invariant `TypeInv` adds that such a row has `pending > 0`,
  which the rollback to -1 would need to be 0, and where each operation can be.
* `WithdrawalProofs!PayoutsApproved`: `Spec => []ApprovedOnly`, with no assumption on
  concurrency or faults. `ApprovalInv` says that every withdrawal past PENDING by
  way of approval, and every call that works on one, is in `approved`, also when
  a FAILED or a demoted row is written over it.
* `PayoutProofs!PaidOnce`: `Exclusive` implies `Spec => []SinglePayout`. `PayoutInv`
  says that drivers of a withdrawal exclude each other, that the state of the row
  fits the operation under way, and that once paid the row is in a state from which
  ConstructAndSign does not start, so the signed bytes are fixed. Exclusion is
  needed: two overlapping ConstructAndSign calls sign two transactions.
  Both theorems go through summaries of a step (`CallEffect`, `RowEffect`,
  `HistoryEffect`), proved once per action.
* `PayoutProofs!OneInFlight`: on Postgres `Spec => []DedupInflight`, with any faults
  and any overlap. It is inductive as it stands: `IndexGuards` shows that each
  write which brings a row in flight is one the unique index admits.
* `PayoutProofs!PendingIsDecided`: without lost writes and crashes
  `Spec => []PendingInCreate`, for any overlap. `PendingInv` puts the Create at the write
  of the decision; by `OneInFlight` the index cannot refuse that write, as the row is in
  flight already.
* `LifecycleProofs!SagaImplementsLifecycle`: `Compensated` (operations on a withdrawal
  exclude each other, only the faults of `CleanFaults`) and no `Fail`, which looks at no
  state, imply `Spec => LifecycleSpec`, with any number of reorgs. `FitInv`, of
  `PayoutProofs`, says that the outputs a call carries, those of the row and those in the
  signed bytes are the same wherever two of them are used together, that Broadcast finds
  its row SIGNED to its end, and that a row in BROADCAST has been paid. `LifeInv` adds
  that a SIGNED withdrawal which has paid has a Broadcast about to record it, so the one
  that marks it FAILED has not, and that a reorg which read CONFIRMED still finds its row
  BROADCAST or CONFIRMED when it demotes it. On Postgres this uses `OneInFlight`: no
  state write of the saga is then refused by the index.
* `LifecycleProofs!NoncesUnique` and `CommitsCover`: under the same assumptions
  `Spec => []NonceUnique` and `[]CommitCovers`. The counter itself says little: a rollback
  takes `pending` back, so the same number is handed out again. `NonceInv` gives each
  nonce to the withdrawal that uses it (`Uses`: the call that reserved it and has not
  given it back, then the signed bytes of the row unless a call is about to mark it
  FAILED). A used nonce is below `pending` and has one user; `RollbackPendingNonce`
  only takes back the last one, whose user is the caller, who then uses none; and
  what was paid is in use, so it is not handed out again. For `CommitCovers` it adds that
  the broadcast nonce is 0 or just past that of an accepted transaction, which is why no
  rollback goes below it. `UsesApartStep`, `NonceFitsStep`, `RowNonceStep`, `PaidStep` and
  `BroadcastSentStep` prove one conjunct each. `Fail` is excluded because it rolls back
  without looking at the state; `nonce_reuse` shows the outcome.
* `OutputProofs!OutputsExclusive`, `SentOutputsSpent` and `LocksReturned`: `Compensated`
  and no reorgs, which free the outputs of a paid withdrawal, imply
  `Spec => []OutpointExclusive` and `[]BroadcastSpent`, and without `Fail`, which
  unlocks nothing, also `[]NoLeakedLock`. `OutputInv` gives each output to the
  withdrawal that holds it (the call under way, or else its SIGNED row): one holder,
  held outputs are locked, and an output of a transaction that went out is spent,
  pruned, or still held by the Broadcast that is about to mark it. `LockEffects`
  proves, action by action, that a step only locks free outputs and only releases or
  spends those its own withdrawal holds.
* `StoreProofs!AlwaysOneCurrent` and `CoolingHonoured`: `KeySpec => []OneCurrent` and
  `[]CoolingResolves`. `KeyInv` relates the time a key was rotated out to its
  `active_to` and state: the row is current again, or ends a full period later, and
  is retired only after that.
* `StoreProofs!StoreIsAtomic`: `StoreSpec => ImplementsKeyMapping`, so the theorems
  on `KeySpec` hold of the memory store. `RollbackIsExact` and `SigningKeysResolve`:
  `[]NothingLost` and `[]SigningKeyResolves`. `StoreInv` says who is inside the
  mutex and how deep (`LockInv`), that while a transaction is open the mappings are
  those of its snapshot and the ledger is ahead of it by exactly the writes already
  made (`TxInv`), which makes a restore a stuttering step of `KeyMapping`, and that
  the key last made current still is.
* `OutboundProofs!NumbersUnique` and `NothingDropped`: `AuditSpec => []SeqUnique` and
  `[]DeliveredInLog`. `AuditInv` adds that every number taken is at most the
  wallet's counter and taken once, also while its row is not there yet, and that
  a drainer only marks rows its sink took.
* `OutboundProofs!OneOpenRequest`: `FundingSpec => []OneOpen`, where `FundingInv` only
  adds types: the unique index decides the race. `HotImplementsFunding` and
  `HotOneOpen` carry this over to `HotWallet`; what is needed there is that `low`
  always is what the balances say. As the reason tells an automatic call from an
  operator's, the refinement includes that only hot wallets below the minimum ask.
* `RotationProofs!OneActiveAddress` and `AddressesApart`: `RotationSpec => []OneActive`,
  and `[]AddressUnique` on Postgres, for either locker and with locks that expire at
  any time: what the store refuses to insert suffices, the locks are not needed for
  these two.
* `BalanceProofs!HighestBlockSeen`: `BalanceSpec => []LastBlockSeen`. `HeightInv` says
  that the height of a row is 0 or that of an applied event, and at least that of each.
* `BalanceProofs!NoTransferLost` and `ConfirmedIsCovered`: `BalanceSpec => []TransfersCounted`
  and `[]ConfirmedCovered`. `HandlingInv` says that an event being applied is recorded,
  not yet applied and with one handler; `CreditInv` that the columns are the sum of all
  applied events, which is more than `TransfersCounted` asks, and that
  the confirmed one is the sum of some confirmed events. The facts about sums over sets
  that this needs (adding a new event adds its amount) are proved without an induction
  rule, by a least counterexample: strict inclusion is well-founded on the finite sets.

Leaves that only match facts and definitions name `Zenon`, the prover that settles them
fastest; the others, with arithmetic and records, are left to SMT.

Only model-checked: the liveness properties (`CallsReturn`, `RequestedIsSent`,
`DecreaseNoticed`, `EventuallyDelivered`). They rest on fairness, hence on ENABLED, which the prover does not handle. Every safety invariant and
refinement of the passing runs is proved.

## Not modelled

* Byte layouts (RLP, PSBT, Solana messages, audit envelope), address cryptography
  and its cache (a cache of a pure function): no state, and nothing to interleave.
* HTTP and gRPC transport, routing, configuration, telemetry, generated code,
  queries that only list, and two store methods no service calls (`UpsertNonce`,
  `IncrementReceiveCount`).
* The migration runner: idempotent DDL, run before the server starts; its failure
  is logged and nothing else.
* The lock protocol of the nonce manager. `IncrementPendingNonce` is one atomic
  statement, so the lock and its retries only decide whether `ReserveNonce` gives
  up, which is the fault `lock`. The lockers themselves are in `AddressRotation`.
* Nested `InTx`: no function given to it calls it again.
* The audit emitter without a sink, which is the development mode without Kafka.
* The arithmetic of `CoinSelection` as a loop: the module says which sets it can
  return, in one definition.

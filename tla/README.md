# Verification of trade-ops

trade-ops is a single Node.js process with one SQLite database.  It opens hedged
positions on two exchanges - buy spot on one, short the perpetual on the other -
and, beside that, keeps the history of funding rates up to date.  The part that
can lose money is the hedge engine: it sends orders whose answers may never
arrive, it may be killed between any two of its steps, and it has to conclude
from what the exchanges say later.  This directory specifies the system in TLA+:
the hedge engine, the preflight that decides what is traded, the strategy
database, the synchronisation of funding history and the life of the process
around them.  TLC checks small instances; TLAPS proves most of the safety for every value of
the constants.

Source paths below are relative to `src/src/`.

## 1. Inventory

| Component | State it keeps | Operations | What is hard |
| --- | --- | --- | --- |
| `strategy/hedge-coordinator.ts` | none beyond its locals across awaits | `confirmAndExecute`: claim, reconcile, settings guard, plan, submit, reconcile again, hedge the residual | six awaits with database writes in between; an order is on the wire before anything is known about it |
| `strategy/hedge-reconciliation.ts` | none | `run`: topology, evidence, decision, transition | the decision must be right for every combination of order statuses, fills and dispositions, on rows that may have moved |
| `strategy/hedge-reconciliation-evidence.ts` | none | `collect`: one lookup per order, validate, attach | late, missing, older or contradictory answers |
| `strategy/strategy-operation-owner.ts` | in-memory set of owned strategies | acquire, release | the only mutual exclusion between requests, queued runs and the monitor |
| `strategy/confirmation-service.ts` | none | `confirm`: read, preflight again, commit or invalidate | a long await between the read and the conditional write |
| `strategy/order-monitor.ts` | running round, timer | periodic recovery of `EXECUTING` and `WAITING_HEDGE` strategies | runs beside confirmations; the only way forward after a restart |
| `strategy/preflight-service.ts` | none | `runOrdered`: eight requests with a check after each | the exchanges change between two requests and between preflight and confirmation |
| `domain/quantity-normalizer.ts` | none | one quantity for two markets | two steps, a contract size, minima and maxima must all hold at once |
| `storage/sqlite-strategy-repository.ts`, `schema.ts` | strategies, orders, order events; a poison flag in memory | conditional writes, snapshot validation, schema migration | writes whose outcome cannot be verified; rows that must stay readable; a migration that may stop anywhere |
| `storage/sqlite-process-owner.ts` | exclusive database lock | claim | two processes on one database |
| `exchanges/*` | cached market lists | `createOrder`, `fetchOrder`, `findOrderByClientId`, rules, settings | which failures prove that no order exists; arithmetic of its own; normalising raw answers |
| `http/server.ts` | set of queued strategies, background tasks | preflight, confirm, read, `onClose` | the queue decouples the answer from the execution |
| `storage/sqlite-funding-rate-repository.ts` | per market: coverage and incremental task, generation, cursor, history | discovery, start/resume/commit/complete/fail of tasks | leases that outlive the state they were given for; a row with some twenty fields that must agree |
| `funding-rates/*` | worker queues, task keys, page cursors | discovery, page tasks, retries, stop | requeueing, interruption, convergence of scans, starvation |
| `main.ts`, `operations/runtime-status.ts` | composition; reported phase | start, signals, stop | order of stopping while work is in flight |
| `errors`, `logging`, `config`, `public` | texts | redaction, parsing, rendering | no protocol state |

How they interact: the HTTP handler calls the confirmation service, which repeats the
preflight and commits the strategy through the repository; it then queues
`confirmAndExecute`, which the monitor's rounds call as well.  Both are kept apart by
the operation owner in memory.  The coordinator runs the reconciliation before and
after each batch of orders; both write through the repository and talk to the
exchanges through the gateways.  The funding service owns one worker per exchange, each a
single root loop over its queues; the workers share nothing but the database.  `main`
composes all of it after the process owner has claimed the file, and closes it in
the order synchronisation, monitor, server (which waits for requests and background
executions), database.

What makes each of the stateful parts correct:

* **coordinator, reconciliation, evidence** - no role is ever submitted twice;
  nothing is hedged twice or on the wrong leg or for the wrong quantity; a
  conclusion (`HEDGED`, `FAILED`, `HEDGE_INCOMPLETE`) is true of the exchanges and
  final; a strategy does not stay undecided without a reason.
* **ownership, confirmation, queue** - one operation at a time per strategy, no
  execution without a committed confirmation, ownership always given back.
* **preflight, sizing, gateway** - the quantity is the largest both markets can trade,
  what was confirmed was true after the user said so, and the three places that
  check an order's size agree.
* **repository** - persisted evidence never regresses and never exceeds the truth;
  after a write with unknown outcome nothing is decided on the row; a migration
  leaves one whole generation with every record.
* **monitor** - whatever was cut short is taken up again, for every strategy.
* **funding repository and workers** - a page is only committed under the current
  lease, a market's history is complete up to what it claims, every running task of
  the database is held by exactly one task of the worker, and every settlement is stored
  in the end.
* **process owner, main** - one process per database; nothing uses the database
  after it is closed; a shutdown ends; what is reported is true.

`PROJECT.json` lists the hazards behind these, each with its line, and the
properties that cover it or the reason why none does.

## 2. Plan and status

The order was: what can lose money first, then what keeps it alive, then the history.

1. **Hedge engine**: `HedgeDecision`, `HedgeExecution`, `HedgePromise`, safety, refinement and liveness; all
   safety properties and the refinement proved.
2. **Funding**: `FundingRows`, `FundingWorker`, `FundingPromise`; safety, refinement on both
   kinds of paging, liveness; all safety properties and the refinement proved.
3. **ServiceLifecycle**: processes, lock, start and stop; safety proved.
4. **StrategyStore**: migration, confirmation transaction, wall clock; safety proved.
5. **Preflight** and **OrderSizing**: drift, sizing and the gateway's arithmetic; all properties proved.

Every safety property of the runs is a theorem.  Left, in the order of their worth: the Bitget theorems
for one incomplete page per walk instead of one in all, and a model of the normalisation of raw order
answers.

## 3. Modules

| Module | Role |
| --- | --- |
| `HedgeDecision` | the pure rules: legal role sets, acceptance of snapshots, the decision tree.  No variables |
| `HedgeExecution` | the state machine of one strategy: database rows, two exchanges, the confirmation requests and the two callers of `confirmAndExecute` |
| `HedgePromise` | the abstract specification: what the engine promises in terms of the exchanges alone |
| `FundingRows` | one row of `funding_rate_sync_state`: what a read accepts and every transaction, as operators from a row to a row |
| `FundingWorker` | the worker of one exchange over the rows of its markets: queues, leases, pages, discovery, recovery, stop |
| `FundingPromise` | the abstract specification: what the stored history promises its readers, without tasks or leases |
| `ServiceLifecycle` | processes on one database file: composition, workers, requests, background executions, rounds, shutdown |
| `StrategyStore` | the strategy database across starts: migration, confirmation transaction, wall clock, recovery read |
| `OrderSizing` | the arithmetic of a listing and an order, over integers in units of the smallest decimal place |
| `Preflight` | preflights and confirmations of several strategies over exchanges that change |
| `MC*` | the instances TLC checks, with their `.cfg` files |
| `*Proofs` | the theorems, see section 5 |

`FundingWorker` EXTENDS `FundingRows` and `Preflight` EXTENDS `OrderSizing`.  The components meet at
interfaces rather than in one product: `ServiceLifecycle` sees of a strategy only
whether the monitor still recovers it and takes from `HedgeExecution` that a visit ends;
`HedgeExecution` sees of a confirmation that it passes or drifts, which `Preflight` spells out,
and that its write succeeds, fails or is uncertain, which `StrategyStore` spells out.

### HedgeExecution

A step is the code between two awaits; Node runs one continuation at a time, so
that code is atomic.  `job[r]` is one `confirmAndExecute` in progress: `pc` names the
await it is suspended at, the other fields are its locals.

| `pc` | Suspended at |
| --- | --- |
| `ready` | queued by the HTTP handler (`setImmediate`) or next in a monitor round |
| `lookup` | `gateway.fetchOrder` / `findOrderByClientId`, one order after the other (`collect`) |
| `decide` | the end of `collect`; the continuation in `run` reads the rows again and decides |
| `authorize` | `loadMarket` and `quantizePrice` in `authorizeGtc` |
| `guard_market`, `guard_gtc` | `newSubmissionAllowed` before the market orders, before the hedging order |
| `price_gtc` | `quantizePrice` in `planAuthorizedGtc` |
| `submitting` | `Promise.allSettled` over `submitNew`; `sub[role]` is each submission's own progress |

`phase` counts the up to three reconciliations of one `confirmAndExecute`.
`RunnerStep` has one action per continuation; `RunAborts` stands for the rejected
awaits and unusable answers that end a run at any of these points, always through
the `finally` that releases the operation.  `RequestStep` is the confirmation
service behind the HTTP route, `MonitorTick` one round as seen by this strategy.

The exchanges (`ex`) are external: a request on the wire is accepted or lost at any
time, also after the caller gave up; an order fills step by step and ends once.
`sends` counts the remote `createOrder` calls and exists only for the properties.

Quantities are counted in base steps.  A row keeps its status, fill, whether an
average price is known, its submission disposition and failure code; identifiers,
symbols, prices and timestamps are left out.  An answer that names another order
or other terms than requested is one of the unusable answers of `LookupUnavailable`.
The failures of the exact decimal arithmetic end a run without a write, as
`RunAborts` does.  Two adjacent awaits with nothing but local checks in between
(`loadMarket` and `quantizePrice`) are one suspension.

`poisoned` is the repository's refusal of every call after a confirmation whose
outcome could not be verified; `PoisonedElsewhere` is the same caused by another
strategy, since the repository is shared.  `Crash` loses locks, queue and runs
and keeps database, exchanges and wire.  `Heal` ends all faults for good and is
enabled only where `Heals` is TRUE.

Assumptions about the exchanges: an order that ended keeps its status and fill, and
a snapshot with a terminal status is complete (the engine relies on this: a
concluded strategy is never looked up again); a lagging answer shows an earlier
fill, as open or unknown, and a lookup may also fail or not know the order although it
exists, until `Heal`; a client order id is accepted once.  A poisoned repository is only
cleared by a restart.

### FundingRows and FundingWorker

`FundingRows` has one operator per transaction of the repository: `Observe` (discovery),
`StartCoverage`, `ResumeCoverage`, `CommitCoverage`, `CompleteCoverage`, `FailCoverage`,
`StartIncremental`, `Widen`, `FinishIncremental`; `Readable` is `validateStateRow`, and
`AllowsCoverage`, `AllowsIncremental`, `HoldsCoverage`, `HoldsIncremental` are the refusals and lease checks.

`FundingWorker` is the root loop of `funding-rate-exchange-worker.ts` with the page tasks of
`funding-rate-market-sync.ts`.  One request is on the wire at a time (`current`); `TakeTask` is
`dequeue` up to the request, each of `CoveragePage`, `CoverageEmptyPage`, `CoverageFails`,
`IncrementalPage`, `IncrementalEnds`, `IncrementalFails`, `DiscoveryApplied`, `DiscoveryFails` is
an answer with everything the loop does before its next await, including `ContinueRoot` - the
requeueing and `schedulePersistedWork`.  `Start` is the recovery of interrupted tasks.
`Fatal` is an answer that cannot be written: of a page not even its failure, of a discovery its observations.
Settlements are numbered and a number is also their time.

* OKX pages by a time (`after`), Bitget by a page number, so that a settlement between two
  requests shifts all later Bitget pages; Bitget's coverage pages may also lack records
  (`MaxGlitches`).  OKX pages that lack records, records dropped from the visible history and
  corrected records are left out.
* Retries inside a request appear as its final success or failure; a malformed or rejected page is
  a fault; a discovery that misses a known market or changes its symbol is one that fails.
* Intervals that pass with nothing new to find are left out, they repeat the attempt before.
* A stop that arrives between the commit of the last incremental page and the completion
  is a finer interleaving than the code has, kept because it is harmless.
* Where the repository would throw on a lease, the model would start it all the same;
  `WorkerIsNeverRefused` shows that this does not happen.

### ServiceLifecycle

`proc[p]` is one process: `boot` its progress through `composeService` and `startService`, `stop` what
`closeResources` waits for, `http` the server, `sync` and `worker` the funding service, `round`
the strategies a monitor round has still to visit, `requests` and `background` what the server has
in flight, `phase` and `funding` what `/health` and `/status` report.  `lock` belongs to the operating
system: it is given back by `database.close` or by the death of the process.  `Listening` is the
callback of listen, which looks whether a signal came meanwhile; `Drained` is the
`onClose` hook.  Fastify is external: it answers requests in flight before it
calls the hook.  A worker that failed, or a `monitor.stop`, `server.close` or `database.close` that throws
(`MayFail`), is remembered as a failed cleanup step: the later steps are taken nevertheless and the phase
stays `STOPPING`.  A `database.close` that throws leaves the database open and the lock held until the process
ends (`Exit`).  Which of the startup boundaries failed is left out: a failed construction closes what was open.

### StrategyStore

`disk` is what is committed, `work` the private copy inside a transaction, `conn` the
connection with the statements of a migration still to run.  `Open`, `RunStatement`, `CommitMigration`,
`RestoreForeignKeys` and `PreparationFails` are `prepareStrategySchema`; `Whole` is the
classification of a database and its verification.  `Confirm`, `ConfirmationRefused`, `ConfirmationFails` and
`ConfirmationBarred` are the confirmation transaction and `runConfirmationOperation`: a failed COMMIT leaves
nothing, the commit after all, or an open transaction (`Leftovers`).  SQLite is external: a
crash discards an open transaction, DROP TABLE with foreign keys on fails while a row
is referred to.  Only the death of the process is modelled, not of the disk.  The
funding schema is prepared by an idempotent transaction of its own and is left out; planning
and sending an order are one step here and apart in `HedgeExecution`.

### Preflight and OrderSizing

`run[s].step` is the request a run waits for, one action per answer with all checks that
follow it up to the next request.  `world` is what the exchanges would answer now and
changes one part at a time; `cache` is the market list each adapter loaded last, which
orders are prepared from.  One price stands for both tickers.  `OrderSizing` has
the listing rules, `normalizeCommonBaseQuantity`, `prepareCreateOrder` and the hedging order of
`authorizeGtc`; that the exchange library truncates amounts and rounds prices to the nearest step is
taken from how the gateway uses it.  Limits on the size of decimals and on
resources are left out.

## 4. What is checked

Every constant below is in the `.cfg` files.  `CHECK_DEADLOCK FALSE` stands only in the hedge,
preflight and store runs, where the system may rest: a concluded strategy, a poisoned repository, a
finished comparison.

| Run | Instance | Properties |
| --- | --- | --- |
| `hedge_concurrent` | `CONCURRENT`, quantity 2, one request, one restart | `TypeOK`, `AtMostOneSubmission`, `NotSubmittedIsTrue`, `EvidenceIsTrue`, `FailedMeansFlat`, `HedgedMeansBalanced` |
| `hedge_promise` | `CONCURRENT`, quantity 2, no restart | `PromiseKept`, `HedgingNeverAddsExposure` |
| `hedge_sequential` | `CONTRACT_FIRST` and `SPOT_FIRST`, two requests, with and without average prices, one restart | `OneOperation`, `ExecutionIsConfirmed`, `ConclusionIsFinal`, `PromiseKept` |
| `hedge_liveness` | `CONTRACT_FIRST`, one restart, faults end | `EventuallyConcluded`, `OwnershipIsReleased` |
| `funding_okx` | one OKX market, 3 settlements, closing and return, a fault, a restart | `RowsReadable`, `WorkerIsNeverRefused`, `AnswerIsNeverStale`, `PromiseKept` |
| `funding_bitget` | one Bitget market, 3 settlements, pages of 2, one incomplete page, one flip, a fault, a restart | `TypeOK`, `ProofIsTrue`, `OneTaskPerLease` |
| `funding_liveness` | one OKX market, 4 settlements, a closing, a restart | `EverySettlementIsStored`, `EveryCategoryIsServed` |
| `service` | two processes, one strategy, two signals, a crash, a construction or cleanup step that fails | `TypeOK`, `NobodyUsesAClosedDatabase`, `OneProcessWorks`, `PhaseIsTrue`, `FundingStatusIsTrue`, `ShutdownEnds`, `ConfirmedIsConcluded` |
| `preflight_drift` | two strategies, exchanges that change twice | `TypeOK`, `ConfirmedIsFresh` |
| `preflight_sizing` | one strategy, 24 spot and 64 contract listings, two prices, two average prices | `QuantityIsTheLargestTradable`, `ConfirmedCanBeOrdered`, `HedgingOrderIsNotRefused` |
| `store` | two strategies, every old database, a fault, two crashes, a clock set back once | `TypeOK`, `DatabaseIsWhole`, `MigrationKeepsRecords`, `SubmittedIsDurable`, `AnswerIsTrue` |
| `store_recovery` | two strategies, a clock set back once | `RecoveryIsIsolated` (violated, see Finding) |

What they say:

* `AtMostOneSubmission` - the remote `createOrder` of a role is called at most once,
  through failures, monitor rounds and restarts.  `NotSubmittedIsTrue` - a row marked
  "definitely not submitted" was never sent and never will be.
* `EvidenceIsTrue` - rows never show more than the exchange holds; a terminal row
  shows exactly what it ended with.
* `FailedMeansFlat`, `HedgedMeansBalanced` - what the operator reads is true: no
  position and nothing that can create one; equal positive positions that
  nothing can move.
* `PromiseKept` (hedge) - the order protocol seen from the exchanges: a hedging order
  is only sent when no market order can trade any more, once, on the leg that
  traded less, for exactly the difference.  `HedgingNeverAddsExposure` - from then on
  every trade shrinks the difference between the legs.
* `OneOperation`, `ExecutionIsConfirmed`, `ConclusionIsFinal` - mutual exclusion, no
  execution that bypasses the confirmation (the claim in `confirmAndExecuteOwned`
  is never exercised), nothing touched after a conclusion.
* `EventuallyConcluded` - a confirmed strategy ends, except where the code
  deliberately waits: an uncertain submission the exchange never knew, a resting
  hedging order, a poisoned repository.  `OwnershipIsReleased` - no operation is owned
  for ever.
* `RowsReadable`, `WorkerIsNeverRefused` - no sequence of transactions leaves a row that
  the next read throws on, or one whose recovery the repository refuses: either would end
  the worker at every start.
* `AnswerIsNeverStale` - a page asked for under a valid lease is answered under one, though
  discoveries, failures and stops supersede leases.
* `ProofIsTrue` - "complete up to the cutoff" is true of the stored history; `PromiseKept`
  (funding) - and is never taken back, history only grows, and a market that came back is read
  incrementally only after a new proof.
* `OneTaskPerLease` - a market marked as running has exactly one task of the worker.
* `EverySettlementIsStored` - an interrupted incremental walk leaves a gap above which the next walk
  freezes its boundary; the periodic coverage closes it, and for a market that closed its final walk.
  `EveryCategoryIsServed` - no queue starves.
* `NobodyUsesAClosedDatabase`, `OneProcessWorks`, `PhaseIsTrue`, `FundingStatusIsTrue`, `ShutdownEnds`,
  `ConfirmedIsConcluded` - start and stop: nothing under way when the database closes, one
  process on it, true reports, shutdowns that end, and strategies concluded through all of it.
* `ConfirmedIsFresh` - each listing and the settings a confirmed strategy shows were true after
  the user confirmed, though they are read one after the other.  That they were true together, or that
  the balance still suffices for two strategies at once, the code does not promise.
* `QuantityIsTheLargestTradable`, `ConfirmedCanBeOrdered` - the stored quantity against a reference
  definition, and that the gateway's own arithmetic neither refuses nor changes it.
* `HedgingOrderIsNotRefused` - for every pair of fills the reconciliation gives a residual up exactly
  when the gateway would refuse it or it is no whole number of contracts, a rule only the
  reconciliation has.
* `DatabaseIsWhole`, `MigrationKeepsRecords` - what is committed is one generation of the schema with
  every record, wherever a migration stops; an order version 1 had not seen stays uncertain.
  `SubmittedIsDurable`, `AnswerIsTrue` - no order on
  a confirmation a crash could undo, and answers that are true of the disk.

**Finding.**  `store_recovery` finds `RecoveryIsIsolated` violated.  Every state change stamps `updated_at` with
the wall clock, a read refuses a row with `updated_at` before `created_at`, and a recovery
round maps all rows before it visits the first strategy.  Where the clock went back by more
than a strategy's age, its change to `WAITING_HEDGE` leaves a row that makes every
later round fail before any strategy is visited, although a test and a plan of the
repository say that failures are isolated.  Confirmations compare the clock and are not
affected (`ConfirmationAlwaysStaysReadable`).

**Bounds.**

* Hedge: quantity 2 gives every relation between two fills - none, partial, full,
  equal, either leg larger - and a hedging order that fills in two steps.  One restart
  separates a first life that leaves anything half done from a second that has to
  cope with it; the second starts in every state the first can leave.  One request suffices for execution;
  two compete in `hedge_sequential`.  `hedge_promise` has no restart to stay small; the
  restarts are in `hedge_sequential` against the same promise, and the proof has no such bound.
* Funding: three settlements with pages of one (OKX) or two (Bitget) give walks of
  several pages with a settlement in the middle; four are needed for an interrupted incremental walk to jump
  over one.  Two flips are a closing and a return.  Markets meet only in the queues, which the
  proofs cover for any number of them; one market already fills all four categories.
* Service: two processes are needed to contend for the lock, two signals to signal both or one twice.
* Store: two strategies, so that one can be skipped; two crashes, so that one can hit the
  recovery from another.
* Preflight: two strategies for the shared market lists; the grid of listings has steps that divide each other and
  coprime ones, limits off the common step, present and absent limits, and prices off the price step.

**Fairness.**

* Hedge: weak fairness for every runner - Node runs each due
  continuation, and the exchange library sets a timeout on its requests - and for the monitor,
  whose timer is an interval that goes on after a failed round.  A request on the wire arrives or
  is lost, a market order ends, and the faults end.  Nothing is assumed about a
  hedging order (it may rest), about clients or about restarts.
* Funding: weak fairness for the root loop, the discovery timer, the intervals and the start of a
  new process.  Faults are bounded, so requests succeed in the end.
* Service: weak fairness for the steps a process takes by itself, for answers, for the timer and for the
  launch of a process.  A visit that may conclude a strategy does so if it is repeated for ever
  (strong fairness): `hedge_liveness` shows that much for one strategy.

**Mutants.**  Each property has one in `PROJECT.json`: a plausible mistake in the code's
place - a forgotten status, a retry, a swapped leg, a lock not given back, a round taken as proof - under
which TLC finds the property violated.  The mutated forms stand above the
definitions they replace, marked "Mutant".

## 5. What is proved

The proofs use only the named assumptions of the modules (and that model values such as `NoOrder` or
`NoTask` are none of the things they stand beside) and hold for every value of the constants.  Each
invariance proof has one step per action of `Next`.

**Hedge** (`HedgeExecutionProofs`, `HedgeOutcomeProofs`).  Three nested invariants:

* `TypeInv`: `TypeOK` is not inductive, since `PlanGtc` writes the quantity in the runner's
  locals and lookups update rows that must exist; it adds that a job's roles to look up or to
  submit have rows.  Gives `TypeCorrect`.
* `SubmissionInv == TypeInv /\ Ownership /\ ExecutionIsConfirmed /\ SubmissionsKnown`.
  `Ownership` ties the lock to the one busy actor, which makes the rows a
  runner planned its own; `SubmissionsKnown` says that only a run at `submitting` has submissions in
  progress, that an order still being prepared has neither been sent nor written off, and that a
  sent order has its row, which keeps any later run from planning the role again.  Gives
  `OneOperationHolds`, `ExecutionIsConfirmedHolds`, `AtMostOneSubmissionHolds`, `NotSubmittedIsTrueHolds`.
* `OutcomeInv`: `SubmissionInv` with `EvidenceKnown` (a row is never ahead of its exchange and exact
  once ended), `TableKnown` (a hedging order is only planned over ended market orders, on the
  smaller leg, for exactly the residual), `RunsKnown` (what a runner may still rely on at each
  `pc`, the residual it carries through three awaits among it) and the two conclusions.  Gives `EvidenceIsTrueHolds`,
  `FailedMeansFlatHolds`, `HedgedMeansBalancedHolds`, `ConclusionIsFinalHolds`, `HedgingNeverAddsExposureHolds` and,
  by mapping every step to a step of `HedgePromise` or a stutter, `HedgePromiseIsKept`.

On the way it turns out that the engine's own check of a hedging order's structure
(`GtcStructureValid`) never fails: the branch behind it is a safeguard.

**Service** (`ServiceLifecycleProofs`).  `ServiceInv`: every process is `Orderly` - it has nothing before it is
composed, the funding status fits its workers, each stage of the shutdown has what the earlier ones
waited for behind it, the phase fits - and `Owns` the lock as long as it is
past the claim with its database open.  Gives the type invariant and four safety properties.

**Store** (`StrategyStoreProofs`).  `StoreInv` says with `Midway` what the private copy holds before each of the
remaining statements of a migration, and with `Sound`, per strategy, how the committed
row fits what a confirmation has read, what it was answered and what was sent.  Gives the type
invariant, the four properties of run `store` and `ConfirmationAlwaysStaysReadable`.

**Funding** (`FundingWorkerProofs`, `FundingLeaseProofs`, `FundingPromiseProofs`, each on top of the one
before).  One lemma per row transaction shows that a `GoodRow`, readable with leases that hold together,
stays one.  `FundingInv == TypeOK /\ GoodMarkets /\ TasksGood /\ Idle`: `Timely` bounds what a row claims by
the last settlement, `Stored` says that on OKX the proof and the part a walk has behind it are in
the history, and every task in a queue or on the wire that still holds its lease agrees with
its row (`Walked`).  `InOrder` is a CHOOSE, so that a list of the tasks exists is
proved first, by a smallest counterexample (`ListExists`).  Gives type correctness, `RowsAreAlwaysReadable`,
`WorkerIsNeverRefusedHolds`, `AnswerIsNeverStaleHolds`.

* *One task per lease* (`LeasesHaveOneTask`).  `LeaseInv` speaks of places, a position in a queue or the wire,
  instead of cardinalities: `Served` says that a running lease has exactly one place whose task serves
  it, `Old` that no task is newer than its row, without which a fresh lease might already
  be held by a task left over.  Every transaction either `Keeps` a lease (the same tasks serve it), ends it,
  or `Takes` a new generation that nobody serves yet; every move of the root loop is a bijection of
  places with at most one removed or appended.
* *Two equal Bitget rounds are a proof.*  Pages shift when a settlement arrives, which pushes
  records to later pages: what a round has gone past stays `Behind` it, and a page without a glitch
  misses nothing (`PageCompared`).  `BitgetInv` says of the task that holds the lease that at most one
  round is not `Sound`, and none before the first glitch; two rounds that agree therefore include a sound
  one, and both have everything (`ConvergedIsComplete`).  The argument allows one incomplete page
  (`MaxGlitches <= 1`), and has to: with two, the same record can be missing from two rounds in a
  row, which the code takes for a proof.  This limit has no run of its own, as nothing in the repository
  promises more; with `MaxGlitches = 2` in `MCFundingBitget.cfg` TLC finds `ProofIsTrue` violated.
* `ProofIsTrueHolds` and the refinement `PromiseIsKept` follow on OKX from `FundingInv` and on Bitget from
  `BitgetInv`, hence their assumption `Exchange = "okx" \/ MaxGlitches <= 1`.

**Preflight** (`PreflightProofs`).  The first part is arithmetic, for all listings: Euclid's algorithm, a
recursive function, computes a greatest common divisor.  The induction this needs is a smallest
counterexample (`SmallestNumber`, from the well-foundedness of finite sets), since the library's induction
theorems cannot be used.  So the common step is the least common multiple of the two base steps
(`CommonStepIsLeast`), the aligned quantity is the largest both markets can trade
(`EffectiveQuantityIsLargest`), the gateway prepares it unchanged (`TradableIsPrepared`), and the two checks of
a residual agree (`ResidualIsAgreed`).  `PreflightInv` then carries through every step what a run has
read so far and that it was true after the run began (`RunSound`), and that a record has a quantity of this
kind and, once confirmed, fresh listings and settings (`RecordSound`).  Gives the type invariant and the four
properties of the preflight runs.

**Only model-checked**: liveness - `EventuallyConcluded`, `OwnershipIsReleased`, `EverySettlementIsStored`,
`EveryCategoryIsServed`, `ShutdownEnds`, `ConfirmedIsConcluded` - since fairness and ENABLED are outside what the
proof system handles here.

## 6. What is not modelled

* Raw order answers and their normalisation in the gateway, the parsing of funding records, request validation
  and the read-only routes: conversions at the edge of the system.
* Timestamps of orders and snapshots and the canonical text of stored preflights.
* Several strategies in the hedge engine: they share only the monitor's round (one after the other) and
  the poison flag; the latter is modelled, the former is in `ServiceLifecycle` and `StrategyStore`.
* Settlements that an exchange drops from its visible history (a Bitget walk must still find the oldest stored
  record) and the wall clock of funding records; both are listed as hazards without a property.
* Error texts, logging, redaction, configuration, the browser page: no protocol state.

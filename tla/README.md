# Dashtec: a TLA+ model of the indexing pipeline and of what reads it

Dashtec shows the state of the Aztec network: validators, their attestations,
providers, slashing, governance. Its data reaches the web application through a
chain of processes that only share databases. This directory models that chain:
the materializer service with its recovery from L1 reorganisations, the tables it
derives, the collectors that share an epoch's rows, and the parts of the web
application that keep state or put several tables together.

## 1. The system

```
L1 ──> Ponder (packages/indexer-ponder) ──> Ponder's tables, block_hash_log
                                               │  read every 5 s
          packages/materializer  <─────────────┘
             ReorgDetector, 24 materializers, one loop
                     │ upserts, one checkpoint per materializer
                     v
          Postgres (packages/database) ──> read replicas ──> apps/web
                     ^
          packages/indexer-custom (collectors polling the Aztec node, RPC, prices)
```

| Component | State it keeps | Operations | What is hard | What makes it correct |
|---|---|---|---|---|
| Ponder handlers (`indexer-ponder/src/events`) | one row per event, `block_hash_log` | insert on each log, some with enrichment by calls that may fail | reorganisations revert rows, a deploy re-indexes from scratch and enriches anew | rows of the canonical chain only (Ponder's own guarantee) |
| `BaseMaterializer` and the direct copies | a table, a cursor row | `poll`, `resetToBlock` | no transaction spans rows and cursor; any call may throw | no event skipped, every event copied, nothing known is forgotten |
| `ReorgDetector` | `BlockHashCache`, a checkpoint row | `checkAndReset`, `handleReorg` | Ponder runs on between its reads; a crash inside a recovery | no row of an abandoned fork survives, nothing is lost, it settles |
| Service loop (`index.ts`) | none | check, concurrent polls, sleep | one slow or failing poll among many | polls never overlap a recovery, nobody starves |
| Derived materializers (queue, validators, provider list, provider, stake history, tally and slashing) | tables computed from several streams | replay of event streams | sources filled concurrently on other cursors, replays that are not idempotent, resets that cannot undo a removal | the table is the replay of the events up to the cursor |
| Validator-rollup and registry materializers, `validator-rollup-sync.ts` | membership rows and statuses | upserts, backfill, status refresh | several callers at once over each other's tables, a synthetic key that may collide | every derived membership is justified and comes to exist |
| Collectors (`indexer-custom`) | attestations, performance and aggregates of an epoch, integrity score, run flags | `collectData` on a timer | runs that overlap, saves that outlive their run, reads from a lagging replica, a score that freezes an epoch | counts agree with the attestations, a frozen epoch is complete |
| Rate limiter (`middleware.ts`) | a map of fixed windows | one step per request, sweep | sweeps caused by other clients, the boundary of two windows | at most twice the limit in any window, nobody is shut out |
| Rollup registry (`rollupRegistry.ts`) | a one-minute cache | `getRollupRegistry` | overlapping loads, a table behind the configuration | nothing stale is served, a deployed rollup is never hidden |
| Social accounts (`app/api/auth`, `services/auth`, `ValidatorMigrationCollector`) | challenges, the session cookie, columns of the validator row | challenge, login, callback, unlink, rename, migrate | one cookie for several tabs, check-then-write across callbacks and a collector | accounts are shown for their owner only, an account is not replaced |
| Governance views (`db/queries`, `services/governance`) | none | four queries that derive a status | each table lags on its own, a round may span two rollups | the views agree, a status only goes on |
| Caches and clients (`shared-utils`, `aztec-rpc-sdk`, `contract-calls`) | TTL cache | get, set, call | expiry, retries | not modelled |
| Deployment, types, schema, pages, stateless queries | none that changes at run time | | | not modelled |

`PROJECT.json` lists the components with their sources and the hazards with the
line where each bites.

## 2. Modules

| Module | Models | Composes |
|---|---|---|
| `PonderLog` | environment: chain, indexed height, event rows, `block_hash_log` | |
| `EventOrder` | cursor order, `buildCursorCondition` | |
| `BaseMaterializer` | `base.ts`, `CheckpointService.ts` and a direct-copy subclass | `PonderLog`, `EventOrder` |
| `PrefixCopy` | abstract specification of a direct copy | `EventOrder` |
| `ReorgDetector` | `ReorgDetector.ts`, `resetToBlock` | `BaseMaterializer` |
| `MaterializerService` | the loop of `index.ts`, idle reconciliation of `registry.ts` | `ReorgDetector` |
| `ValidatorQueue` | `validator-queue.ts`, `validator.ts`, their sources and resets | stands alone, see below |
| `DerivedTables` | the other materializers of one table or of one event and its parts, with their handlers | stands alone |
| `RollupMembership` | `validator-rollup.ts`, `validator-rollup-sync.ts`, the backfill of `registry.ts`, `ValidatorListCollector` | stands alone |
| `CollectorRuns` | `BaseCollector`: the run guard, specified on its own | |
| `EpochStats` | `ValidatorStatsCollector`, `EpochAggregatesCollector`, `EpochIntegrityCollector`, their services, the node, a replica; the score as a pure operator | refines `CollectorRuns` |
| `RateLimiter` | the rate limit of `middleware.ts` | |
| `RollupRegistry` | `rollupRegistry.ts` | |
| `SocialLinks` | challenges, cookie, callbacks, unlink, rename, `ValidatorMigrationCollector` | |
| `GovernanceViews` | status of a payload in rounds, summary, dashboard and matrix; signals of the providers | |
| `MCBaseMaterializer`, `MCMaterializerService`, `MCValidatorQueue`, `MCEpochStats` | small instances | |
| `MCDerived` | instance of two modules | `RollupMembership`, `DerivedTables` |
| `MCWeb` | instance of four modules | `RateLimiter`, `RollupRegistry`, `SocialLinks`, `GovernanceViews` |
| `BaseMaterializerProofs`, `ReorgDetectorProofs`, `ValidatorQueueProofs`, `DerivedTablesProofs` | theorems | the module they are named after |
| `CollectorProofs` | theorems | `EpochStats` and the frame it refines |
| `MembershipProofs` | theorems | `MCDerived`: the memberships, and the types of both modules |
| `WebProofs` | theorems | the four modules of the web application |
| `NumberLemmas` | facts about largest and smallest elements, induction and recursion over numbers, images of finite sets and sums | |

`MCDerived` and `MCWeb` run modules side by side that share no state: every behaviour
is about a case of one of them, the others rest in an empty case.

### How state and actions correspond to the code

* **Ponder** (external). `chain[b]` is the canonical block at height `b` with its
  hash and the logs it holds for each stream; `indexed` is the height Ponder has
  reached. The tables a materializer reads are functions of the two
  (`Events(m)`, `HashLog`). `IndexNewBlock`, `IndexKnownBlock`, `Reorganise` and
  `Reindex` are all that can happen to them. An event is `<<block, log, hash>>`;
  its columns are left out, because no property depends on them and every upsert
  writes all of them. The row id is transaction hash and log index; a transaction
  mined again on another fork is treated as a new event.
* **A materializer**. `cursor[m]` is its `MaterializerCheckpoint` row, `table[m]`
  its Prisma table, `poll[m]` the call of `poll()` in progress. `FetchBatch` reads
  the cursor and the batch (nobody else writes the cursor while a poll runs),
  `UpsertRow` is one `upsert` of `materializeBatch`, `SaveCursor` the
  `updateCheckpoint` that follows, `PollNothing` the empty batch, `PollFails` a
  call that throws. `DeleteAfterBlock` and `ResetCheckpoint` are the two writes of
  `resetToBlock`, separate steps of the detector.
* **The detector**. `check` is the position inside `checkAndReset`; each action is
  one database call: `ReadPonderMax`, `CompareHashes` (the two reads that produce a
  mismatch), `InsertNewHashes`, `PruneCache`, `AdvanceCheckpoint`, and for a
  recovery `ResetRows` and `ResetMaterializer` for each materializer,
  `InvalidateCache`, `RewindCheckpoint`. `lastCached` and `cache` are persistent.
  The order of the materializers in a recovery is left open. `jumped` is a history
  variable: a reset has moved this cursor forward.
* **The loop**. A poll needs `check = Over`; `NextCycle` needs every poll settled.
  `Restart` stands for a crash, and for a database error inside the check, which
  abandons the cycle (`catch` of `main`). In the first case polls in progress
  disappear as well. `Reconcile` and `RestoreRow` are `onIdle` of the registry.
* **The queue and the validators** (`ValidatorQueue`). All lifecycle events form one
  `history` in chain order, and a cursor is the position of the last event it covers:
  that a cursor and (block, log index) agree is what `BaseMaterializer` is about.
  `arrived[k]` is how far the materializer of table `k` has copied (`SourceCopies`);
  the queue reads only what has arrived, in one statement (`FetchBatch`), while the
  validators are read from Ponder in two (`ReadDeposits`, `ReadGseDeposits`).
  `AddToQueue`, `RemoveFromQueue` and `UpsertValidator` apply one row. A removal
  deletes an entry and then updates the activation date, two calls taken as one step:
  nothing reads both tables, and a batch that stops in between is repeated whole. The
  second call is in a `try` that drops every error (`UpdateActivationDate`, `SwallowError`).
  `listed` says who has a validator row; a collector adds one without a date whenever it
  comes across an attester (`CollectorUpserts`).
  `Reset` and `Rewind` are complete recoveries, one step each, since no poll runs until
  a recovery is over (`MaterializerService`) and no materializer lags behind the
  reset block (what happens otherwise is shown there too). `Reset(n, b, k)` allows
  any number of events in the block the checkpoint is set to: they are read again.
  `harm` is a history variable with the things the replay does not survive:
  a source row that arrived behind the cursor (`late`), a removal repeated while
  its staker was queued twice (`repeated`), an undone removal of an older entry
  (`undone`), events indexed between the two reads of a batch (`torn`); and, for the
  activation date, an update whose error was dropped (`swallowed`). Left out: rows
  without a timestamp (Ponder always writes one), entries with equal `queued_at`, and the
  rollup of an entry, which no statement of the code looks at.
* **The other tables** (`DerivedTables`). The materializers differ in data only, so each
  is a record of `Catalogue`: its sources in reading order, the statements it executes
  for an event of each (which columns an upsert creates, which it updates, which it keeps
  when Ponder has null, which parts or changes follow in a `try` that logs errors),
  whether rows are found by event or by subject, whether a reset deletes, and whether the
  sources are themselves tables of materializers. The actions are those of `poll()`:
  `FetchFirst` and `FetchMore` (one statement per source, then sort and slice), one `Write` per
  statement of `materializeBatch`, `SaveCursor`. `extra` stands for the columns of an
  event that a handler fills by calls; whether they are known is a choice at indexing time,
  made anew when Ponder starts over. An executed round has two groups of parts, its committees
  and its slashes. Ponder finds each by a call of its own (`gathered`), and the payload only if it has
  the slashes; the round's own row is guarded against a lack of them, the payload
  written with each slash is not. The table of added attesters has several rows of one log, which
  are events marked `more`: a cursor on one of them covers all (`LogCovered`).
  Values of columns that no property tells apart are one; the slashes of a round, and its
  committees, are one row each.
* **Membership** (`RollupMembership`). Events are numbered in the same way, one event to a
  block. The two reads of deposits, each upsert, the `SELECT` and the `INSERT` of the
  backfill (`BackfillSelect`, `BackfillInsert`; PostgreSQL evaluates the first on a
  snapshot and `ON CONFLICT DO NOTHING` against what is there) and `RefreshStatus` are
  steps of the validator-rollup and of the registry materializer alike. A deposit without an
  attester view leaves no validator row (`RegisterDeposit`). `withdrawn` says how far the two tables
  of withdrawals are filled: they keep their rows at a rewind, and a reset cuts them. The collector's
  look-up of a validator on every rollup and its upsert are steps of another process.
* **An epoch** (`EpochStats`). `node` holds the statuses the node knows, `store`
  what the primary holds, and a read goes to the replica, which `Replicate` lets follow.
  A run is a position per validator (`SaveChecks`, `SaveWrites`, `ReadStatuses`,
  `UpsertCounts`, `ReadCounts`, `UpdateTotals`); saves that a failed `Promise.all` no
  longer waits for go on as run `"stray"`. A count, or a sum of counts, is represented by
  the statuses it was taken of, so that "the count is right" is an equation between
  states. The score is `FullScore`, the condition under which the penalties of
  `epoch-integrity.ts` round to 100.
* **Rate limiter, registry.** Instants are kept as ages up to the first tick at which the
  age no longer matters. A request is one step in the limiter, which has no `await`, and
  two in the registry (the query, the assignments), any number of them at once. The
  rollups are numbered in the order in which they became canonical; the table is the
  number of them it shows.
* **Social accounts.** An account is named by the flow that brings it, or `"source"`. A
  flow's challenge, login, comparison of the state, verification, check and write are
  separate steps, and a flow of either provider asks for a challenge, which replaces that of its
  validator; only the callback of X looks at it. Discord's never sees the signature, so that
  an account is "own" when its flow was started for the validator, no more. `session[b]` is the
  one session of a browser. `profiles[v]` are the columns
  of the validator row, `tracked` the `ValidatorMigration` rows.
* **Governance.** The chain has at most one event per block; each table shows it up to a
  block of its own. A switch block brings the next rollup, before or after its event.
  `attested` are the slots of which a collector has written the proposer's row, at once, later
  or never (`RecordSlot`), `active` the sequencers whose validator has the status that the matrix
  selects (`ChangeStatus`). The views are operators over the tables, named after the query
  they model; the queries of one view are taken at one moment.

The row counts of the checkpoints, `totalRows`, `lastCursor` and the terminal
display are left out: nothing reads them to decide anything.

### What a run assumes of Ponder

Whether the detector notices a reorganisation depends on when it looks, and
nothing in the code guarantees that. `Visibility` names what a run assumes:

* `"prompt"`: the reorganisation takes Ponder's highest logged block below the
  detector's checkpoint and Ponder waits until the detector has reacted. This is
  the case the code is written for and the integration test
  `reorg-recovery.test.ts` exercises.
* `"late"`: the drop happens between two checks and Ponder has indexed part of
  the new fork, but not up to the checkpoint, when it is noticed.
* `"any"`: no assumption; only what holds regardless is claimed.

In addition, in every run the first logged block is final (`Reorganise` never
empties `block_hash_log`).

## 3. Runs

| Run | Instance | Shows |
|---|---|---|
| `base_copy` | 2 streams, 3 blocks of 0-2 logs, batch 2, 2 faults | `NoEventSkipped`, `ImplementsPrefixCopy`, `EveryEventCopied` |
| `reorg_prompt` | 2 streams, 4 blocks, 2 forks of depth up to 3, 1 fault, margin 2, cache 3 | `NoStaleRow`, `LossOnlyByJump`, `RecoveryComplete`, `CacheMirrorsChain` |
| `reorg_late` | 1 stream, 5 blocks, 2 forks, 1 fault, margin 2, cache 5 | `OldForkForgotten` |
| `reorg_any` | 1 stream, 3 blocks, 1 fork, 1 re-index with a new contract, 1 fault, margin 1, cache 1, reconciling | `CacheBounded`, `RecoverySettles`, `ReconciledComplete` |
| `reindex` | 2 streams, 3 blocks, 1 fork of depth 1, 1 re-index, 1 fault, margin 1, cache 1 | `EventuallyComplete` |
| `queue_replay` | 1 staker, 4 queued or deposit events, batch 2, a collector, 1 fault, 1 reorganisation, 1 re-index | `QueueIsReplay`, `NoGhostEntry` |
| `queue_settles` | 1 staker, 3 events from the queue and both deposit tables or 4 with two deposits, views that fail, a collector, 1 fault, 1 re-index | `EventuallyReplayed`, `ActivationIsLastDeposit` |
| `epochs` | 3 deployments of one epoch, see below | `FrozenComplete`, `NoOverlapUnlessAwaited`, `NoRegression`, `EventuallyCounted`, `EventuallyStored` |
| `derived` | 4 membership cases, one case for each of the 20 tables (three for rounds), batch 2 | `MigrationsJustified`, `EventuallyMigrated`, `EventuallyCurrent`; `TablesReplayed`, `RowsOnChain`, `KnownKept`, `EventuallyRepaired`; `DerivedTypeOK` |
| `web` | 2 clients; a registry of 2 rollups; 6 social cases; 5 electorates | `RatesKept`, `EveryClientServed`; `FreshWhenServed`, `NotBehindDeploy`; `LinksOwn`, `FlowsIsolated`, `LinkKept`, `EventuallyMigratedSocial`; `ViewsAgree`, `StatusGoesOn`, `ProvidersAddUp` |
| `v_same_height` | 1 stream, 3 blocks, 1 fork | violated: `CachedReorgCaught` |
| `v_rewind` | 2 streams, 3 blocks, 1 fork, 1 fault | violated: `ResetOnlyRewinds` |

**The bounds.** The code's `SAFETY_MARGIN` is 10, its `CACHE_DEPTH` 200, its batch
10000. The runs keep their order relations: a margin of 1 or 2, a cache at least as deep
as the reorganisations of the run (except in `reorg_any`, where nothing is assumed), a
batch smaller than the log of the chain, so that batches split inside a block and end at
one. Two streams let one materializer be ahead of and one behind a reset block;
two forks let a second reorganisation strike inside the recovery from the first.
The margin of 2 in `reorg_prompt` lets a second reorganisation fall inside the margin of
the first: hashes of the abandoned blocks are then left above the checkpoint, the next
comparison finds them and resets once more, and a crash in that reset leaves a gap until
the check has been repeated. That is why `LossOnlyByJump` speaks of the end of a check.
One fault puts a crash after any single database call. `MaxBlock`, `MaxForks`,
`MaxReindexes` and `MaxFaults` bound the exploration, and `MaxReorgDepth` the depth
of a reorganisation.

In the queue runs four events are enough to queue a staker twice, remove one entry and
still have an event to arrive late; a batch of 2 splits them. Every removal kind is the
same code except for the activation date, so a run has the tables its property needs.

`queue_settles` has every history of three events, and of the longer ones that in which both
writers date two deposits of one staker (`SettlingNext`); a swallowed error and a torn batch each
falsify `ActivationIsLastDeposit` there if they are not excepted. A deposit behind the cursor of
the queue takes a fifth event to show in the date, and is left to the proof of `ActivationIsExact`.

`epochs` divides an epoch's work in three deployments, because each hazard needs only
some of it: the saves of one validator in two slots with overlapping runs and a fault; the
score of a slot that two validators share, read from a replica; the counts of
one validator that two collectors recompute from a replica while the epoch passes. A third run, a third
slot or a third validator would repeat what two of them do to each other.

`derived` gives every table three events, of which a reorganisation replaces the last two,
one failed call, one reorganisation and one new start of Ponder (the tables with
several sources, and that of slashes, have chains of their own; rounds, whose parts multiply what a
new start may find, have one event under all three, or two under a failed call with one of the
others). Three events with a batch of 2 split a batch; a
reorganisation that reaches behind the cursor, and one that does not, both occur. The membership
cases are those in which the parts of the code meet: two validators that may migrate
under faults, one that withdraws and comes back, a reorganisation that takes away a
deposit or a canonical update, and the collector's look-ups with failing calls.

`web` has limits of 2 and 1 in a window of 2 ticks, so that the boundary of two windows
falls in every position; two loads at once, one loss of a row, a time to live of 2; two
validators, two browsers and up to three flows, among them flows of both providers for one validator
from two browsers; and rounds of 2 slots with a quorum
and a lifetime of 1, over chains of 3 to 5 blocks with up to 2 switches of the rollup and tables that lag by 1.
The turns of the sequencers give one of them both slots of a round, so that one provider has two
signals in it. Rows of slots are written with their block in four of the electorates; in the fifth,
up to two lack theirs, for a while or for good, and a sequencer leaves and comes back.

`queue_replay`, `queue_settles`, `epochs` and `derived` may stop when the bounds are
reached (`CHECK_DEADLOCK FALSE`).

**Fairness.** The loop is `while (true)` with a 5 s sleep, so checks, polls and
cycles are weakly fair; nothing is assumed of faults or of reorganisations. `onIdle` of
the registry materializer runs at most once a minute but as long as the loop does, hence
strong fairness of `Reconcile`. The timers of the collectors go on firing, every call that
has been started returns or throws, a replica follows its primary, and in the web run time
passes and clients keep asking; nothing is assumed of owners, who may leave a login
half-way. `derived` lets Ponder follow its chain, as its properties speak of what
is read in the end; the other runs assume nothing of Ponder. The bounds make the
environment come to rest, so `<>[]` properties speak of the time after it did.

### What the violated properties mean

* `CachedReorgCaught`: the hash comparison reads only blocks above the checkpoint;
  a replaced block below it is never looked at unless the maximum drops.
* `ResetOnlyRewinds`: a reset sets every cursor to the same block, also that of a
  materializer which had not got there. In the trace the process restarts between a check and
  the polls of the same cycle, so one materializer has copied nothing when the checkpoint of the
  detector is at block 1; a reorganisation at block 2 is noticed by the next check, and the
  reset takes that cursor from nothing to block 1, past the event of block 1 that the
  table does not have. `LossOnlyByJump` shows that this is the only
  way events get lost when a reorganisation is seen in time; only the registry
  materializer repairs such a loss (`ReconciledComplete`).

### What the properties had to make room for

Statements of the code that the models contradict, or limits that a property states as
its condition:

* `validator-queue.ts:64`: the queue's cursor orders four tables that are filled
  independently; a row of a slower one that arrives behind it is never replayed, so the
  removal that `validator-queue.ts:111` calls first-in-first-out is not (`late` in `harm`).
* `validator.ts:46`: the two reads of a batch have no common snapshot, and a deposit
  indexed between them may be left out for good (`torn`). `validator-rollup.ts` and
  `stake-history.ts` read in the same way; `TablesReplayed` makes the exception for tables
  that are read in several statements and for no other.
* `validator-queue.ts:122`: a removal applied twice takes a second entry of its staker, so a
  rewind is not harmless here (`base.ts:73-74` calls every write an idempotent upsert).
  This is `repeated` in `harm`.
* `validator-queue.ts:147`: a reset undoes the entries above the reset block but not the
  removals above it (`undone`). `QueueIsReplay` says that `late`, `repeated` and `undone`
  are the only ways in which the queue comes to differ from the chain.
* `validator-queue.ts:134`: every error of the update of the activation date is taken for
  a missing row. If the call failed for another reason the cursor passes the deposit, and an older
  date may stay with everything caught up (`swallowed` in `harm`).
* `validator-queue.ts:114`: nothing looks at the rollup of an entry, so the entries of an
  older rollup are not replaced, and a removal takes them first.
* `validator.ts:121` and `provider.ts:241`: a reset deletes no validator and no provider,
  and nothing re-derives what has no event any more. `ActivationIsLastDeposit` therefore speaks
  of histories without a reorganisation, and `RowsOnChain` of the tables a reset cuts.
* `provider.ts:198`: an update that fails is taken for an unknown provider, and its event is
  passed; `TablesReplayed` and `EventuallyRepaired` except what a swallowed error did.
* `tally-slashing.ts:254`: the payload of a slash is written unguarded, while that of its round
  is only overwritten "if Ponder actually has them" (`tally-slashing.ts:124`). A re-index that
  finds the slashes and not their payload turns a known one to null; `KnownKept` excepts it. (The
  rows are found by their index and validator: slashes found in another order would
  be added to the old ones. The model has one row for them.)
* `provider-validators.ts:29`: one log adds many attesters, and the cursor remembers only the log: a
  batch that ends between them, or that reads the table while `provider.ts:288` is filling it,
  leaves the rest out for good. `TablesReplayed` makes the exception it makes for tables
  read in several statements.
* `ReorgDetector.ts:54-59`: depth is measured between blocks that have events. After a
  quiet stretch longer than the cache a one-block reorganisation looks like a re-index and
  the stale rows are kept. The blocks of the runs all have an event.
* `ReorgDetector.ts:56-61`: the rewind goes to where Ponder is when the drop is noticed, not
  to where added events are; only the registry is reconciled (`ReconciledComplete`).
* `ReorgDetector.ts:86`: after a crash between the insertion of hashes and the pruning, the
  cache is wider than `CACHE_DEPTH` until the next advance. `CacheBounded` speaks of the
  moment of an advance.
* `BaseCollector.ts:200-223`: the flag is cleared by `recordError` and again after its
  `await`, when another run may have set it. `NoOverlapUnlessAwaited` says that nothing else
  makes runs overlap. `TokenPriceCollector` does not look at the flag at all.
* `EpochService.ts:38` and `ValidatorService.ts:256`: a save that outlives its run may write
  an older status over a newer one. `NoRegression` names the two ways, and the statuses
  settle nevertheless (`EventuallyStored`).
* `epoch-integrity.ts:153`: the score is rounded before it is compared with 100, so an epoch is
  taken for complete, and is frozen, with one attestation in fifty missing. `FrozenComplete`
  allows that much and no missing block.
* `xOAuthService.ts:221` and `unverify/route.ts`: check and write are two statements; an
  unlinking that read an account before a new login may take the new one away, and
  two that overlap may replace each other's. `LinkKept` says that an account which
  was there before both is safe. A challenge is deleted by the id of its row, which by
  then may hold a newer one.
* `VerificationCard.tsx:137-148` asks for a challenge for Discord too, and `challenge/route.ts:49-53`
  keeps one for each address: a Discord flow makes an X flow of the same validator be refused, in
  whatever browser it runs. `FlowsIsolated` counts it among the reasons.
* `ValidatorMigrationService.ts:183-191` takes a mere name for social data: an owner who renames the
  validator before the migration gets to it keeps the older account from ever being copied.
* `ValidatorMigrationService.ts:176` and `:330`: an error that is only logged is recorded as
  processed, so that validator is never migrated.
* The governance views: once its payload has been submitted in the range of another rollup,
  the list falls back from submittable to active while the summary still counts it as
  submittable; the dashboard lists expired payloads as submittable and drops those that
  were submitted in another round; a validator of two providers counts twice in the matrix,
  whose network totals are of all rollups and vote types; a rollup the registry lacks
  repeats the signals of the one before it. `ViewsAgree` and `ProvidersAddUp` hold for
  payloads handled inside the range and rollups that follow each other.
* `signaling-matrix/queries.ts:22` and `provider-metrics.ts:39`: the matrix lists active validators
  only and counts slots by the rows that collectors have written. The signals of a sequencer that
  has left, or of whose slots no row exists, belong to no provider, and while some of its rows
  are missing a provider may show more signals than slots. `ProvidersAddUp` says what remains:
  no signal is counted that is not one of the range, and the numbers agree once every
  slot of the round has its row and all who signalled are active.
* `shared-utils/src/cache/memory.ts`: `set` ignores a time to live and only `get` with a
  maximal age expires an entry. (Not modelled: the callers differ in what they pass.)

`OldForkForgotten` was first stated without the condition that the drop happens
between two checks. It fails then: a reorganisation between the read of the maximum and
the read of the hashes lets the checkpoint advance over blocks whose hashes were
never cached, and the cascade of resets stops at that hole.

## 4. Proofs

A theorem holds for every value of the constants that its module's assumptions admit: any
number of streams, collectors, browsers, flows and validators, any batch size, any bound on
chains, faults and reorganisations.

**`BaseMaterializerProofs`**, from `PonderLogAssumption` (log indexes and bounds are natural
numbers, blocks hold logs of the streams) and `BaseAssumption` (the batch size is positive):
`TypeCorrect`, `NothingSkipped` (`CopySpec => []NoEventSkipped`), `ImplementsCopy`
(`CopySpec => Abstract!AbstractSpec`, the safety part of what `base_copy` checks).
`NoEventSkipped` is not inductive: `SaveCursor` moves the cursor over a whole
batch, so the invariant must know that all of the batch has been written, and a new
block must not appear behind a cursor. `CopyInvariant` adds just that: a cursor never
exceeds the indexed height (`CursorIndexed`), and while a poll is writing, every
event up to the last row of its batch is in the table or still in hand
(`BatchInHand`). The proof has a step for each action; `IndexBlockEvents` says that
indexing only adds events of the new block, `PollOnlyStep` treats the steps that
touch no persistent state.

**`ReorgDetectorProofs`**, about the whole service:

* `RewindComesLast` (`RecoveryComplete`), `CacheStaysBounded` (`CacheBounded`) and
  `HashesAreAppendOnly` (a cached hash is never replaced while its block stays cached),
  without any assumption on what Ponder does. `CheckInvariant` says for each position of the
  check what has been achieved by then, `DetectorInvariant` adds one hash per block.
* `NothingStale` (`NoStaleRow`) and `NothingLost` (`LossOnlyByJump`) assume `SeenInTime`: the
  visibility is `"prompt"`, Ponder does not start over, every block has an event, and the
  chain is no longer than the cache or all reorganisations together no deeper than it. The
  instance of `reorg_prompt` satisfies it. What is left open is the number of streams, the
  margin, the batch and the pattern of crashes, failed polls and interleaved reorganisations.
  For `NothingStale` the invariant (`RowsInTime`) says that a row which is not on the chain
  lies above it, and only while the detector is behind; that a reset whose depth exceeds the
  cache, and would keep the rows, does not occur (`Bounds`: a checkpoint exceeds the
  chain at most by the depth of the reorganisations so far); and that every materializer
  outside the ones still to be reset has no row at or above the reset block.
  For `NothingLost`, `Gaps` says where an event may be missing at each position of the check:
  nowhere below the reset block while recovering (`KeptBelow`), nowhere at all otherwise
  (`Whole`), unless a reset was cut short; and then the hash that started it is still cached
  above the checkpoint, so that the next check repeats it (`ResetAgain`).
* `CacheIsMirror` (`CacheMirrorsChain`), under the same assumptions and with a margin of at
  least one block. `MirrorInvariant` follows the cache through the check: `AtRest` between two
  checks, `WhileComparing` from the read of the maximum to the advance, `WhileRecovering` for a
  reset. Two things make it inductive. The cache never has a hole (`WithoutHole`), because a
  hole is what a checkpoint could climb over; and its lowest row, or the place where the next
  one will be inserted when it is empty, is so low that no reorganisation still to come reaches
  it (`Deep`): otherwise a comparison would find nothing to compare with. What an insertion
  found before Ponder went back is `Fills`. The margin enters because `invalidateCache`
  deletes the row of the reset block itself: with a margin of 0 the block below the difference
  is missing afterwards, and TLC shows the property violated. The code's margin is 10.

**`ValidatorQueueProofs`**, from `QueueAssumption`:

* `NoGhosts` (`NoGhostEntry`) and `QueueTypeCorrect` (cursors, batches and rows never point past
  the history, also when a reorganisation shortens it; stated for the specification, not
  checked by a run of its own). `NoGhostEntry` is inductive together with the fact that the history
  is a sequence: events keep their positions when the chain grows and when it is cut at `n`,
  and a reset deletes what lies above `b <= n`.
* `QueueIsExact` (`QueueIsReplay`). The reference, `Replay`, is a recursive function; `ReplayRuns`
  shows that it exists and obeys its equations. `BatchInvariant` says that a batch holds every
  event between the cursor and its end, unless a source was late or the read torn. `Exact`
  compares the queue with the replay of every prefix `v` that is in the sources and that the
  pass begun at the cursor has gone by (`Done`): no entry is kept which that replay removes
  (`NothingKept`), and one that the queue lacks is removed by an event after `v`
  (`NothingMissed`), which is still to come in this pass, or already behind it, or can only
  take this entry since its staker has no other (`Once`). The last clause is what survives a rewind.
  It holds as long as `harm` knows of nothing but torn reads of validators.
* `ActivationIsExact` (`ActivationIsLastDeposit`). Two replayers write the same date.
  `Activated` says that nobody has a date without a deposit that the view showed, that whoever has
  one such behind the cursor of the validators has a date, and that once both passes are
  behind all deposits of a staker the date is the last of what one of them has seen. A row that
  a collector adds changes who is `listed`, not what is due: whoever has a date is listed.

**`DerivedTablesProofs`**, for every table of the catalogue and every case: `RowsStayOnChain`
(`RowsOnChain`), `KnownIsKept` (`KnownKept`) and `TablesAreReplayed` (`TablesReplayed`).
`TablesInvariant` says that the values of a row come from events up to its own and that the
events of a batch in hand are indexed; the lemmas about the catalogue's records (`Shape`,
`Regular`) say which combinations of key, statement and reset exist, which is what the
argument for a reset needs: rows found by subject are written whole or removed.
`KnownIsKept` is about an action: a guarded column keeps what it has, a part is left alone unless
Ponder has it, and no reset deletes a row in a step that keeps the chain.
For the replay the model records which events a table has seen. `PlaceInvariant` says that
they lie below what is in hand, `NothingPassed` that a table read in one statement has seen
every event behind its cursor. `ContentInvariant` says what the rows then are: each cell holds
the value of the last event that writes it (`CellHeld`), a row is there exactly when its last
writer did not remove it (`RowHeld`), and a table that is replaced as a list holds the entries
of the last list (`ListHeld`). It is preserved when events are read again because a second
pass over the same events ends at the same last writer.
`TypedInvariant` adds that no row is there twice (`RowsApart`).

**`CollectorProofs`**: `NoOverlap` and `FlagIsCleared` about `CollectorRuns`;
`EpochsImplementCollectors`, that `EpochSpec` implements `CollectorSpec` with the positions of
the three collectors as a refinement of the frame, hence `EpochRunsKeepFlag`, both
guarantees for the collectors with their data.
`FullScoreMissesNoBlock` and `FrozenIsComplete` (`FrozenComplete`) are about the score, for epochs of
fewer than 60 slots (`RollupConfigService.ts:16` falls back to 32) and any committee: 100 after
rounding means that every slot has its block and
no validator is in excess, and leaves room only for a few attestations (`PenaltyOfAttestations`).
That what is stored stays as complete as it was when it was scored, although replicas lag and saves are
still in flight, is `FrozenInvariant`: whatever is stored, replicated or about to be saved is
what the node knows or knew (`Fits`), and a replica has no record that the primary lacks.
`StatusesGoOn` is `NoRegression`. `SaveInvariant` says that a status is only taken for mined when
the node says so (`MinedIsMined`), that the saves of a run are of a validator the run still
waits for, unless the run has been left (`SavesAwaited`), and that, before an error has been
awaited, a save in flight that is not of a mined status has no mined one beside it or in the
store (`NothingNewer`); the last needs `NoOverlap` of the frame, through the refinement.

**`MembershipProofs`**: `MigrationsRest` (`MigrationsJustified`) and `DerivedTypes` (`DerivedTypeOK`,
together with `TypedInvariant` and `ReplayedInvariant` of the other tables). `MembershipInvariant` gives each
row, and each row that a backfill is about to insert, the event and the older row it rests on
(`Justified`); a reset deletes with a row those that rest on it, because they are of later
events. Rows that share a key are one row, or of index 0 (`Collide`).

**`WebProofs`**, for any number of requests, clients, browsers, flows, validators and blocks.
The registry: `CacheIsFresh` and `DeployedRollupServed`, for any number of overlapping loads. The
load keeps the age of its time stamp, and the invariant relates it to the age of what was read.
The limiter: `LimitIsKept` (`RatesKept`). `RateInvariant` relates what was let through, by age, to
the window: since the start of the window exactly what it counts, up to the limit, and before
that, within the length of one window, at most the limit, because a window is only replaced
when it has expired.
The governance views: `StatusIsKept` (`StatusGoesOn`), `ViewsAreOne` (`ViewsAgree`) and
`SharesAddUp` (`ProvidersAddUp`). `ShownInvariant` says that the tables show parts of a chain that
only grows; the status of a payload is then a matter of which rows are within the range. For
the shares, the signals shown of a provider are those of its members (`SharesOf`), every signal of
the range is in a slot of a selected rollup, which has a row if every slot of the round has one
(`SignalsHaveSlots`), and the sum of the sizes of sets is the size of their union when they are
disjoint (`SumOfSizes`).
The social accounts:
`AccountsAreOwn` (`OwnInvariant`: whatever carries a flow's account on
its way to a row is of that flow's validator), `RefusedForAReason` (`IsolatedInvariant`: a cookie
or challenge that is not the flow's own was put there by another one, after it) and
`AccountsAreKept` (`KeptInvariant`: what a callback found on its arrival is still there, or
was unlinked since, and the row of a link in progress shows none that is older). The last rests
on the part of `SocialAssumption` that accounts of the older database carry a name, which
is what keeps the migration away from rows an owner has linked.

**`NumberLemmas`** holds what the others need of numbers: least and greatest elements
(`LeastNumber`, `GreatestNumber`, `GreatestOfFinite`), that an image of a finite set is finite,
and the two principles behind the proofs about replays and sums. The library's
induction theorems take an operator as their parameter; `Induction` says the same of a
set of numbers, and `RecursionOverNat` gives a sequence of values its existence, so that a
recursive function of the model is known by its equations.

**What the proofs changed.** Some attempts failed for a reason, and the models say so now:

* `ActivationIsLastDeposit` needs that no deposit arrived behind the cursor of the queue
  (`late`), as the replay of the queue does; its instance had too few events to show it.
* `ReadPonderMax` took an overlap of its cases for a choice when the checkpoint is below the
  first block and Ponder has no blocks: the third branch of `checkAndReset` needs a maximum.
  The cases of the views' ranges overlapped in the same way.
* `CacheMirrorsChain` needs a margin of at least one block, see above.
* `FrozenComplete` was said of every record of an epoch. A full score forgives half a point, which
  of 32 slots and 48 validators is 30 attestations; the property says so now, and is as strict as
  it was for epochs as small as those of the run. What a lacking attestation is depends on a
  slot having one proposer, and a validator one duty in it (`EpochAssumption`).
* A provider is registered before it is updated (`RegisteredFirst`): the contract numbers
  providers, and `TablesReplayed` is not claimed of a chain on which an unknown one is updated.
* A chain that is cut below its reset block leaves a cursor past its end; the type
  invariant of the tables says where.

**Only model-checked**: all liveness, with what depends on it (`ReconciledComplete`,
`RecoverySettles`); and `OldForkForgotten`, which speaks of what a cascade of resets has
achieved in the end.

## 5. Not modelled

Nearly half of the source is presentation: pages, components and hooks that show what the
queries return (`Web pages and components`), which keep no state beyond the browser tab. The
`map` of `PROJECT.json` therefore names about a tenth of all lines, in the parts that keep
state. Of the rest:

* stateless queries and their routes, of which only the governance views put together
  tables that lag on their own and are modelled;
* clients of external services (RPC, node, prices, caches): they pass on what they get, and
  what is made of a failure is part of the callers;
* collectors that overwrite a table with a remote list, and the history and balance of a
  validator, plain overwrites of what the node returned;
* operator scripts, health endpoints, terminal output and deployment;
* `indexer-ponder/src/sync`, whose imports are commented out, but for the two enrichments that
  handlers still call (the enrichment that may be missing in `DerivedTables`), and
  `indexer-ponder/src/api`, which only reports that it is alive;
* types, schema, migrations, logging.

Within the modelled components: columns, logging, row counts, the chunked lookup of 10000
hashes (`findHashMismatch` reads all chunks; the map keeps insertion order, and the model
returns the earliest difference), the case that `block_hash_log` does not exist yet, which
the code treats like an empty one, and `getGovernanceRoundsWithPayloadsAndSignals`, which
nothing calls.

## 6. Plan

What would come next, in this order:

1. `NothingStale` for visibility `"late"`, which is what `OldForkForgotten` is about.
2. A proof that the collectors' saves end with the node's statuses once nothing fails any more, the
   safety half of `EventuallyStored`.
3. The score of a prover (`proverService.ts`): the fold over its proofs against the reward
   contract's decay; `proverService.ts:199` announces a decay to the current epoch that the next
   statement does not apply.
4. The slashing half of the dashboard and the pages of the migration queries, over the tables of
   `DerivedTables` and `RollupMembership`.
5. The cache of `shared-utils` with its callers.

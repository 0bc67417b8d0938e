# multi_factors: verification development

TLA+ models of the parts of `multi_factors` whose correctness depends on order, failure,
calendars or boundaries: the caches that feed every factor, the files and ledgers they keep,
the request budget they share, the jobs that warm them, the factor store and the engine that
fills it, what a research run may know on a day, the backtest, the verdict rules, and the
commands and registries around them. TLC checks the models on small instances; TLAPS proves
the central properties for every value of the constants.

Contents: [1 the system](#1-the-system) · [2 modules](#2-what-is-modelled-where) ·
[3 runs](#3-the-runs) · [4 fairness](#4-fairness) · [5 proofs](#5-proofs) ·
[6 disagreements](#6-disagreements-between-code-and-documentation) ·
[7 limits of the code the models follow](#7-limits-of-the-code-that-the-models-follow) ·
[8 not modelled](#8-what-is-not-modelled) · [9 plan](#9-plan)

Paths are relative to the repository root.

## 1 The system

A nightly systemd timer (21:00, `deploy/systemd/`) runs `data-update`, which warms a Parquet
cache of Tushare endpoints for a universe of symbols. A `data-backfill` does the same by hand
for a long history. Research commands (`qt/cli.py`) build panels through the same read-through
caches, compute factors, keep factor values in a store, and evaluate or backtest them.

```
  timer / operator          research commands (pipeline, evaluation, backtest)
        |                                   |
  data_updater, data_backfill          feeds -> cleaning -> panel -> factor service
        |                                   |                           |
        +-----------> TushareCache, TushareIntradayCache          FactorValueStore
                        |            |            |                     |
                    planner    coverage ledger   parquet stores   (lock file, tmp,
                   (intervals)  (no lock)        (lock file)        os.replace)
                        |
              request_with_retry -> GlobalRateLimiter -> Tushare
```

Components interact in three ways only: by function calls inside one process, by the files
under a cache root or a store root (several processes, weakly synchronised), and by the
vendor's answers, which change from day to day.

| component | state it keeps | operations | what is hard | what makes it correct |
|---|---|---|---|---|
| Daily read-through cache (`data/cache/tushare_cache.py`, `tushare_planning.py`, `tushare_specs.py`) | symbol parquets, ledger rows, pinned `today`; dimension snapshots with a fetch time | plan gaps, refetch the trailing window, carve the pending days, upsert, record; serve or refresh a snapshot | kills between the upsert and the record, revisions, rows unpublished at 21:00, runs across midnight, several processes | a claim is backed by rows on disk; a covered day hides no row; the tail is refetched; staleness is bounded |
| Interval planner (`data/cache/intervals.py`) | none (loops) | merge, subtract, merge with the tail | closed intervals, boundaries | exact and maximal gaps |
| Coverage ledgers (`data/cache/coverage.py`, `intraday_coverage.py`) | `coverage.parquet`, a frame cached per instance under an mtime | lookup, `record_many` | no lock; the mtime is read apart from the content | append-only, never torn, not served stale |
| Parquet stores (`parquet_store.py`, `intraday_parquet_store.py`), factor value store (`factors/store/values.py`) | one parquet, one tmp, one lock file per artifact | locked read-merge-replace, atomic write | stale locks, a shared tmp name, kills | atomic upserts, no torn file, no upsert waits for ever |
| Intraday cache (`intraday_cache.py`) | month files, day coverage | paged windows, month upserts, one record for the whole gap | a failing later window, kills between month files, unfinished days | claims are earned; bars are kept |
| Rate limiter and retry (`data/feed/scheduler.py`, `throttle.py`) | `_next_allowed` under a lock | reserve a slot, wait, call, back off | N threads and their retries on one quota | slots spaced, calls within budget, every request ends |
| Warming jobs (`qt/data_updater.py`, `data_backfill.py`) | progress, failure report | endpoint loops, batches | fail-fast against go-on, kills, re-runs | no silent hole; healthy batches get warm; nights catch up |
| Factor service, incremental recompute (`factors/service.py`, `factors/store/incremental.py`) | artifacts, schema, NaN footprints | fill, read-through, tail recompute | revisions deeper than the overlap, an unlocked overwrite, partial fills | panels complete, values independent of the range, exact tails |
| Materialisation engine (`factors/materialize.py`) | none between calls | load, classify valid days, pool, trim, emit | suspensions inside the lookback, baselines cut by the load | a date gets in a batch what it gets alone; no look-ahead |
| Minute factor formulas (`factors/compute/minute/`) | none | mark peaks, ridges and valleys, pool bars over days | missing minutes, the cutoff, prior-day baselines | a published value is final; history beyond the window changes nothing |
| Universe, cleaning, alpha (`universe/`, `data/clean/`, `alpha/ic_weight.py`) | none | as-of membership, reports and industries; walk-forward IC weights | late and repeated disclosure, the end of the training window | a replay of a past day sees what that day saw |
| Backtest (`runtime/`, `portfolio/construct.py`) | book of weights, period | decide, feasibility, fill, settle | blocked sells that starve buys, prices of different instants | no leverage, periods tile the calendar, no move counted twice, shortfalls disclosed |
| Factor evaluation (`analytics/eval/`, `qt/factor_eval_*.py`, `factors/store/run_registry.py`) | a JSONL registry | judge, append, bootstrap the book, reconcile panels | thresholds on signed facts, writers side by side, classes of explained differences | stronger evidence never hurts, the book changes by hand only, no unexplained difference passes |
| Execution-basis evaluation (`qt/exec_forward_returns.py`, `exec_basis_eval.py`, `exec_basis_sanity.py`) | a price artifact, reports | build or reuse, check, score, report | caches that move between evaluations, kills between files | one return series, losses explained, no substituted price |
| Out-of-sample commands (`qt/robustness.py`, `oos_stability.py`, `subset_validation.py`, validators of `qt/config.py`) | a table of cells | validate, run cells, summarise, judge | periods that straddle the split, skipped and failed cells | returns credited to their own subperiod, verdicts from cells that ran, every cell accounted for |
| Factor formulas, quality checks, rendering, the intraday tail pipeline | none | one pass over panels | numerics | out of reach here, section 8 |

`PROJECT.json` lists the components with their sources and status, and every hazard with its
line and the properties that cover it.

## 2 What is modelled where

A row is abstracted to the *version* the vendor serves, bars of a day to how many have arrived
(or to a small alphabet of bars where a formula tells them apart), ledger rows to the days they
claim, prices and weights to small integers. Within the operations a module has, kills, exceptions,
early returns and writes are kept, and a flag that selects another path (a forced refresh, a
diagnostics sink, `overwrite`) is an input; section 8 lists the operations no module has. Processes
lose their volatile state when killed and start again with none.

**Files.** `AtomicFile` is the primitive of all stores: one path, one tmp name shared by all
processes, and which file each open handle is linked to, so that two unserialised writers
truncate, mix and rename one file. `LockedStore` is `upsert` under the `O_EXCL` lock file:
`Begin`, `Acquire` or `TimesOut` (ten seconds passed, go ahead unlocked), `Read`, `OpenTmp`,
`WriteTmp`, `Replace`, `CleanTmp` (the `finally` of the factor store), `Unlock` (only by the
creator), `Crash` (the lock file stays); it refines `UpsertStore`, whose one step replaces
exactly the rows an upsert carries. `CoverageLedger` is the ledger at the level of file
operations: `Stat`, `ReadFrame`, `EndLookup`; `OpenTmp`, `WriteTmp`, `Replace`, `Restat`; `Die`.

**Daily cache.** `TushareCache` is `_read_through` for one endpoint and any number of processes:
`Begin`, `Plan` (`_gaps_for` with `_tail_for`), `Fetch` / `FetchFails`, `Upsert`, `RecordLoad` /
`RecordReplace` / `RecordStat` (the file operations of `record_many`), `SymbolDone`, `Crash`;
`GapCoverage` is `_record_gap_coverage`: which days of a gap become claims and which are `not_ready`.
Each process runs a `Program`: the nightly updater and the backfill pin `today`, ask for days up to it
and set one pending day (`qt/data_updater.py`); a research run sets none (`NotReadyDays` 0, the default
of `tushare_cache.py:154`), reads the clock each time it needs the date (`Live`), and may ask for days
to come (`qt/pipeline.py:570-583`). `ConcurrentReadThrough` is one call of `_read_through_concurrent`: a
pool, then the write loop in plan order, `SkipFailed`, `Store`, `Record`, `ParseFails`, `Return`.
`Intervals` runs the loops of `merge_intervals` and `subtract_intervals` step by step. `SnapshotCache`
is a dimension endpoint: `Call`, fetch, upsert, record, under `refresh_dimension_days`.

**Other data.** `IntradayCache` is one symbol of the minute cache; `RateLimiter` the threads of
`request_with_retry`; `DataWarm` the two jobs over symbol × endpoint pairs.

**Factors.** `FactorStore` is the artifact of one factor with `panel()`, `cross_section()` and
`stored_payload()` of the service and `tail_recompute`; a value is the set of input rows it saw and the
schema it ran under. A call may bring a diagnostics sink (`request.force`), which computes all it asks
for again, warm store or not (`force_all`, `factors/service.py:257-272`). `Materialize` is the engine:
the three load geometries, the pooled saturation loop, the trims and the emit window, for one symbol
through every suspension pattern. `MinutePeaks` and `MinuteBars` are the two families of minute factors:
which bars and which days enter a value.

**Research.** `PointInTime` is what a run of a day may know: index snapshots, disclosed reports,
industry intervals, and the walk-forward training pairs of `ic_weight`. `Backtest` is one period
after another under both event models: plan, feasibility, fills, settlement, disclosure; in the tail
model selection reads a daily panel that the execution bars know nothing of, so any member may be
selected, with or without a bar to execute on. `Verdict` is the decision table on every combination of
facts, each of which may be stronger, mirrored, thinner, or missing: alone or with its whole section
(`Losses`). `EvalRegistry` is the run registry
with its book gate, `ExecBasis` the price artifact and the evaluations that share it, `Reconcile`
the panels leg of the reconciliation, `RobustnessMatrix` the three matrix commands with the
validators of their configuration and the lossy file name of a cell (`Slug`).

**Unions.** `MCStores`, `MCCaching`, `MCWarming`, `MCWaiting`, `MCResearch` put modules that share
no state side by side in one run: `which` is chosen in `Init` and only the chosen module moves, so
the states of a union are the sum of the parts, not the product. Each union EXTENDS one part and
instantiates the others, and repeats its constants, so that the theorems are about the very
formulas the runs check. `MCCommands` only gives the values of `RobustnessMatrix`.

How the parts compose: `GapsFor` of `TushareCache` is a set of days, which `Intervals` shows to be
what the interval arithmetic computes; its upsert is atomic, which `LockedStore` shows to hold
under the lock; its record is two file steps, whose inside is `CoverageLedger`; an attempt that
always ends, used by `ConcurrentReadThrough`, is `EventuallyServed` of `RateLimiter`; a pair that
is covered or raises, used by `DataWarm`, is `TushareCache`; that `FactorStore` may treat a value
as what it saw is `DatesAgree` of `Materialize`.

## 3 The runs

| run | module | instance | distinct states |
|---|---|---|---|
| `stores` | `MCStores` | cache: one process at a time, nightly or research, 3 days (0..2), 2 versions, 1 row revised up to 1 day back, a run up to 1 day long, forced refreshes; factor: 2 symbols, 3 days, lookback 1, 2 schemas, 1 revision, 1 late row, up to 3 events in all: calls with and without diagnostics, tail recomputes, a revision, a deployment | 2.48 M |
| `caching` | `MCCaching` | planner: 4 days, up to 3 covered intervals; pool: 3 gaps, 2 workers; ledger: 1 writer, 3 processes; minute bars: 3 days, windows of 2; snapshots: 4 days; registry: 2 runs, a curator, 5 records; evaluations: 2 factors (symmetric), 3 dates, 2 minutes | 2.09 M |
| `research` | `MCResearch` | feeds: 3 symbols, 6 days; engine: 6 days; peaks: 5 sessions; pools: 2 histories; backtest: 5 days, 3 symbols; verdicts: all facts, 1 step; reconciliation: 3 months | 1.08 M |
| `waiting` | `MCWaiting` | limiter: 3 threads, 2 attempts, oversleep 1; store: 3 writers, 2 keys, 4 upserts, 2 kills; pool: 3 gaps, 2 workers | 0.57 M |
| `warming` | `MCWarming` | nightly job: 3 days, 2 versions; jobs: 4 symbols, 2 endpoints, batches of 2, one poisoned pair, 2 faults, 2 kills | 15 k |
| `commands` | `MCCommands` | 3 commands, 2 universes, 4 windows of 6 days, two of them with one file name, with and without `overwrite`, legal files and files with one mistake | 10 k |
| `store_stale_lock_lost_rows`, `lookahead`, `p8`, `factor_schema`, `verdict_unknown`, `snapshot_reopened` | one module each | a violation, section 6 | |

What the passing runs ask. `stores`: is a claim of the ledger always backed (`CoverageIsDurable`), does
a covered day hide a row other than one that a research run froze out (`CoveredIsComplete`), is a
returned read complete but for such rows outside what it refetched, and its tail fresh
(`ReadIsComplete`, `TailIsFresh`); is a returned factor panel complete, independent of its range, kept,
not computed twice unless diagnostics are asked for, of its caller's schema unless a fill mixed two
(`OnlyMixedFillsMislead`), and corrected exactly by the tail recompute. `caching`: the planner's gaps;
the isolation of failed gaps; the ledger file; minute claims; bounded staleness, and which memberships a
dimension may misread (`OnlyEndedOnesLinger`); the curated book; the shared execution prices.
`research`: a past day is never rewritten (`RecordsKeepThePast`, `WeightsKeepThePast`), a date is worth
the same alone and in a batch (`DatesAgree`), published minute values are final, the book is exact,
explained and feasible, evidence is monotone, a fact that is lost convicts only on the predictive axis,
and only if it is one of the signal: the monotonicity, the sign in a half of the holdout, or the ICIR,
NW-t or win rate (`OnlyALostSignalConvicts`), and no difference passes unexplained. `waiting`: spacing,
budget, termination, atomic upserts, no wedge. `warming`: rows arrive in the end, holes are reported.
`commands`: `MatrixIsHonest`.

Why the bounds are enough. Three days give a settled day, a pending one, a run that crosses midnight,
and a day that a research run freezes out and that leaves the trailing window; one revision after the
first publication reaches past the tail when the clock moves. More symbols add nothing to the safety of
the daily cache, since a claim, a row and a step concern one symbol, and several processes are covered
by the theorems. Three intervals give every relation between a neighbour, a gap and the request. Three
writers give a holder, a waiter and a late comer; three gaps on two workers give a queued task behind
two running ones and a failure before, between and after successes. In the factor store three days and a
lookback of one give a date before, at and after the overlap, and three events the orders of calls,
recomputes and revisions. Six days with a lookback of two and a suspension anywhere give the engine a
pool that fills late, early and never. The table of failed symbols is cut in the middle of the second
batch. Every run but `warming` ends on purpose once its bounds are reached, hence `CHECK_DEADLOCK FALSE`
there.

Properties that need an assumption say so in a constant of the configuration: `PublishLag = 0` (a day's
row appears on that day), `RunsInSession = FALSE` and `PublishesLate = FALSE` (minute bars are requested
after the session, and are then complete), `Quiet = TRUE` (humans edit the registry beside no run), one
`Writer` of the ledger, `TailAlone = TRUE` (the tail recompute runs beside no call: it takes no lock and
has no production caller yet), `AloneAfterCrash = TRUE` (the "single-process run" of
`data/cache/parquet_store.py:68-69`), `SlowHolder = FALSE`, `Suspensions = FALSE`. What happens without
them is in sections 6 and 7. `NotReadyDays` is what each program passes, 1 for the nightly job and 0 for
research. `DropAtLimit = FALSE` (the filter's default) loses no behaviour: the filter only takes
candidates away, and any subset of the members may be the members.

Every property of every passing run has a mutant in `PROJECT.json`: a plausible bug in a mapped
definition under which TLC finds the property violated.

## 4 Fairness

* `NightlyFairness` (`MCWarming`): strong fairness of the nightly call and of each step of a run. The
  timer is persistent and fires every night; a run can be killed or refused at any step, but not at
  the same step on all nights. Weak fairness would not do: a kill disables the step.
* `JobFairness`: no run hangs (an attempt always ends, and the nightly service has a 4 h limit), and
  the operator re-runs the backfill until it is through, as `docs/ops/data_update_schedule.md` says
  ("safe to Ctrl-C and re-run"). Kills and random faults are bounded by `MaxKills` and `MaxFaults`;
  the poisoned pair fails every time.
* `waiting`: weak fairness of a live process of the store, of `Tick` and of each thread of the limiter,
  of the pool's threads and of the main thread. Nothing makes anybody begin a call, or crash.

No fairness is assumed of the vendor, of publication or of success on the first attempt.

## 5 Proofs

All proved by TLAPS from the assumptions of the modules, which TLC evaluates in the runs, and
from what a theorem names itself; nothing is assumed about the bounds. Each proof has the same
shape: an inductive invariant as a conjunction of named parts, one lemma per group of actions, and
a temporal step. For a union, `[MCNext]_mcVars` is a step of the part or leaves its variables alone.

`TushareCache_proofs`
* `TypeCorrect`: with `JobInv`: the pinned `today` is not in the future, the gap lies inside the
  request while it is being served.
* `Durable`: `CoverageIsDurable` for any processes, symbols and bounds if every `not_ready_days` is at
  most 1. It is not inductive: a claim enters the ledger from a process's *copy* of it, and from the
  response being recorded. `DurableInv` speaks of claims in the ledger **or in any frame**, and adds
  that a response being recorded is already in the store.
* `Complete`: `CoveredIsComplete` if the vendor publishes on the day and every `not_ready_days` is 0
  or 1, that is, for nightly and research runs side by side. `CompleteInv` replaces "the vendor has the
  row" by `Settled`: the store has it, or the day is over without one (`PastIsClosed`), or the cell is
  `frozen`: a program without a pending window recorded it before its day was over.
* `ReturnedReadIsComplete`: `ReadIsComplete` under the same assumptions. `CallInv` and `ReadInv`
  split the request of a call into days behind the cursor, which are settled or claimed, and days
  still to do; what the call refetches (its trailing window, or all of it when forced) owes the rows
  even of frozen cells.
* `ReturnedTailIsFresh`: `TailIsFresh` while calls do not overlap (`\A p, q \in Proc : p = q`).
  `FreshInv`, `TailInv`: what lies behind in the trailing window is at least the vendor's version
  when the call began.

`MCWaiting_proofs`
* `UpsertsAreAtomic`: the file of `LockedStore` implements `UpsertStore` (initial states to initial
  states, a step to `Upsert` or a stutter), keeps the rows of every returned upsert and is never seen
  torn; any writers, keys, upserts and kills, both stores; if `SlowHolder = FALSE` and `OneAtATime`
  (`AloneAfterCrash = TRUE`, or nobody is ever killed: then any number of writers side by side). The
  invariant is mutual exclusion *with* stale locks (`OneInside`: whoever is inside holds the lock file,
  or the lock file is stale and nobody else is even waiting), a pigeonhole on the numbers of upserts
  (`Numbered`), one open handle at most (`OneHandle`), and that what a call read is what the file holds
  until it replaces it (`ReadIsValid`).
* `TypeCorrect` of the limiter; `SlotsSpaced` (`LockInv`: only the holder of the lock reserves and what
  it read is current; `LastSlotInv`); `WithinBudget` for any finite number of workers (`CountInv`,
  `FutureInv`, and the pigeonhole lemma `CalledSlotIsPast`).

`MCStores_proofs`
* `SameValueInEveryRange`: `ValuesIgnoreTheRange` without hypotheses. `ArtifactInv`: every frame that
  exists anywhere, on disk, loaded, computed or about to be written, holds only values that saw the
  whole lookback window of their date.
* `CompletePanel`, `WarmStoreComputesNothing`, `NoComputedRowIsLost`, `ExactTail`: `PanelIsComplete`,
  `WarmStoreIsNotRefilled`, `ComputedRowsAreKept`, `TailIsExact` if `TailAlone = TRUE`, calls with and
  without diagnostics side by side; only the second says nothing of a call with diagnostics. `CallInv` says
  what a call holds against the file at each of its steps, `TailInv`, `AlarmInv`, `CatchInv` the same of
  the tail recompute: what it loaded is the artifact, its overlap is computed from current inputs, and a
  stored value that contradicts upstream lies in the overlap or was hidden by a later fill.
* `OwnSchemaIsServed`: `OnlyMixedFillsMislead` if `TailAlone = TRUE` and calls do not overlap
  (`OneCaller`). `SchemaInv`: what a call has read carries the schema of the file it will compare.

`MCCaching_proofs`
* `StalenessIsBounded`: `BoundedStaleness` without hypotheses. `SnapshotInv`: the fetch time on disk is
  at most one day later than the rows justify, which is why the bound is against the pinned day.
* `OnlyEndedMembershipsLinger`: `OnlyEndedOnesLinger` without hypotheses. `LingerInv`: each stored row
  began with a membership of every later fetch, and ends with it or was read while it ran (`Traced`);
  `LastToBegin` is the lemma about the as-of join.
* `BookOnlyByHand`: `BookIsCurated` if `Quiet = TRUE`, any runs, curators and records. `RegistryInv`
  follows the seeding of the book line by line; `LatestWins` is the lemma about the latest record.
* `FailedGapsAreIsolated`: `FailuresAreIsolated` for any gaps, workers and versions. `PoolInv` is one
  invariant per phase: what is planned, what the threads did, how far the write loop is, and that
  `first_exc` is the least failed gap behind it.
* `LookupsAreCurrent`: `LookupIsCurrent` with one writing process, any readers. `LedgerInv`: one open
  handle, the mtime of a frame is that of a content that had at most the rows of now (`Mtimes`,
  `Frames`), and what a lookup owes (`Owed`).
* `MinuteClaimsAreEarned`: `ClaimsAreEarned` if `RunsInSession = FALSE`, `PublishesLate = FALSE`.
  `BarInv`: what was asked for in a window is on disk before the gap is claimed, and covered settled
  days are complete.
* `SharedPricesAgree`: `EvaluationsAgree` without hypotheses, over all dates, slots, horizons and
  kills. `ExecInv`: every report was scored against the frame that is on disk, and is filed before its
  record; `LossHasACause` is the lemma about `coverage_loss`.
* `PlannerIsExact`, `PlannerIsMaximal`: `GapsAreExact`, `GapsAreMaximal` for every horizon and every set
  of intervals; `PlanInv` is one invariant per loop.

`PointInTime_proofs`
* `ReplayedRecords`: `RecordsKeepThePast` without hypotheses, one lemma per feed.
* `ReplayedWeights`: `WeightsKeepThePast` if `Suspensions = FALSE`; with suspensions the training set
  differs from what the document says (section 6, `lookahead`).
* `WeightsAreRealized`: `OnlyRealized`, the property that run violates, if `Suspensions = FALSE`; and
  `TradedPairsRealized`, with any suspensions: a pair whose symbol traded on every calendar day of its
  horizon is realised in time (`RealisedInTime` counts the rows of the symbol against those of the
  calendar). So the suspended symbols are all that is wrong.

`RobustnessMatrix_proofs`
* `HonestMatrix`: `MatrixIsHonest` for every configuration, settlement calendar, sign table and failure,
  and for every `Slug`, so for labels that share a panel file. `MatrixInv`: a cell's entry was computed
  from its own window and declared class, the table grows in the order of the cells, and the file under
  a cell's name is its own or, with `overwrite`, that of another cell of the report with that name.

`MCWarming_proofs`
* `HolesAreReported`: `NoSilentHole` for any number of symbols, endpoints and batches, any list limit and
  any faults and kills. `JobInv`: what lies behind the running batch is covered or told (`BehindIsTold`),
  and the batch is covered as far as it has come (`BatchSoFar`); `BatchesReachAll` is the lemma about
  the division that cuts the batches, `ListedSymbols` the one about a report that fills up.

`MCResearch_proofs`
* `VerdictsFollowTheEvidence`: `EvidenceIsMonotone` from *any* combination of known and unknown facts, not
  only the enumerated ones (`Facts` is the invariant; intervals are ordered, the gross spread is one
  number). One lemma per axis compares two lists of facts (`PredictiveRises`, `IncrementalRises`,
  `TradableRises`), one per kind of evidence says what a step does to it, `LabelRises` joins the axes.
* `MissingFactsConvictBySignal`: `OnlyALostSignalConvicts`, again from any combination of facts. A
  skipped section or a missing fact makes no axis fail anew but the first, and that only on a sufficient
  sample with a holdout, when what is missing is the monotonicity, the sign in a half of the holdout, or
  a point estimate of the IC. An interval, a residual IC, a spread, an execution fact, the purity,
  execution or holdout section never convict.
* `PassingPanelsAreExplained`: `WindowIsClosed` for any grid, panels, moves, regions and caps. In
  `ComparedInv` each overshoot is counted as unclassified, and each warm-up difference of a bounded
  factor has a warm cell of its own; `FewFirstDates` bounds the warm cells by the ceiling the gate uses.
* `ShortfallsAreTold`, `TradesAreAllowed`: `ShortfallsAreExplained`, `RespectsTheMarket` for any names,
  quotes, targets and calendars. `BookInv` keeps book and target inside the unit and what the last fill
  left of it; `FillsAreCovered` is one rebalance: what the scaled buys cost, each rounded down, against
  the cash and what the sells freed. It rests on sums of weights over a set (`SumIsOneOf`, `SumStep`,
  `SumBound`, `SumWithin`): the induction over the set is replaced by a counterexample with the fewest
  elements (`SmallestSet`), which the well-founded order of the naturals gives.
* `BooksAreExact`: `BookIsExact` (`PeriodsTile` and `MovesAreCounted`). `ScheduleTiles`: the kept
  month-ends, taken by rank, tile the calendar (`Ranks`, `InOrder`). `MarkInv`: a book is marked to the
  anchor it stands at, the exit of a settled period being the entry of the next, and the two quotes of
  that anchor agree.
* `PublishedValuesAreFinal`: `PublishedIsFinal` for any sessions, floors and windows. `PeakInv`: frame and
  values are those of the bars. One lemma per stage of the computation says it gives the same for two
  loads that agree up to the decision, and maybe more sessions: `SameDay`, `SameContributions`,
  `SameSeries`, `SameClasses`.
* `SingleDatesAreBatches`: `DatesAgree` for any calendar, suspensions, windows and loading step, under
  the conditions the property names (a trimmed factor only for a symbol never suspended; section 6, `p8`,
  is what happens otherwise). `EngineInv`: a pooled load is the listing day or saturated, the others are
  `Buffer` long. All three kinds rest on one lemma about the n latest of a set, `RecentPart`: only the
  upper part counts when n elements of the set lie above the rest.
* `PooledFactorsAreGeometryFree`: `GeometryFree` for any bars, cutoff, grid and floors. `PoolInv`: a
  decision was computed from sessions cut at their cutoffs. `SameSession` and `SameCoarseBars` say what a
  cut session and a whole one have in common, one-minute and resampled (a derived bar that closed in time
  is made of bars that did: `BucketEnds`); `RecentTail` and `SameFactor` carry it through the windows.
* `PeaksAreLocked`: `PeaksAreEarned` for any sessions, baselines and windows. `LockedClass`: a session
  with its baseline loaded is classified as with all history, the sums over the baseline being the same
  under any numbering of the days (`ShiftedSum`); `LockedDay` and `LockedValue` do the same for a day's
  contribution and for the window; `MissingBar` is the half about isolation.

Only model-checked: liveness (`EventuallyThrough`, `NeverWedged`, `NightlyCatchesUp`,
`HealthyBatchesAreWarmed`), which needs `ENABLED` and is beyond the prover. Of the properties a passing
run checks, every invariant and every action property is stated by a theorem. That a theorem has
hypotheses of its own is said above where it has; what happens without them is in sections 6 and 7.

## 6 Disagreements between code and documentation

| run | what happens |
|---|---|
| `store_stale_lock_lost_rows` | a killed process leaves its lock file for good. From then on every upsert of the artifact waits ten seconds and goes ahead unlocked; two of them read the same content and the second drops the rows of the first. `factors/store/values.py:159`: "so a concurrent gap-fill never loses rows". |
| `lookahead` | `forward_returns` shifts by the symbol's own rows, so the return of a symbol suspended inside the horizon realises later than n trading days, yet the walk-forward window admits its IC. `alpha/ic_weight.py:10-14` admits a pair "iff ``t + h <= d`` in TRADING-DAY positions". |
| `p8` | `_trim_daily` counts the lookback in days of the loaded panel, not of the symbol: a symbol suspended inside the lookback has a value in a batch fill and another, or NaN, alone. `factors/materialize.py:16`: "bit-identical values (design §3.5 P8)". |
| `factor_schema` | a partial fill after a schema change stamps the whole artifact with the new fingerprint; its old rows are served as valid. `factors/store/values.py:37`: "a schema-version mismatch voids the WHOLE artifact (miss)". |
| `verdict_unknown` | a core point estimate that is missing (ICIR, NW-t, win rate) counts as no signal, a holdout half without a sign as inconsistent, and a missing point monotonicity may read as reversed: the verdict turns into Reject. `analytics/eval/verdict.py:61`: "UNKNOWN NEVER CONVICTS". |
| `snapshot_reopened` | the upsert key of `index_member_all` holds `out_date`, so a membership that closes leaves its open row beside the closed one. `data/feed/tushare_covariates.py:210-211`: "identical to a direct per-symbol fetch". |

A theorem bounds each of them from the other side, so that it is known what can fail: as long as no
holder of the lock is slower than the timeout, rows are lost only after a kill (`UpsertsAreAtomic`); a
training pair is early only if its symbol was suspended within the horizon (`TradedPairsRealized`); `p8`
cannot happen to a pooled factor, nor to a symbol that was never suspended (`SingleDatesAreBatches`);
with one call at a time, values of another schema are served only after a fill that kept some
(`OwnSchemaIsServed`); a missing fact convicts only on the predictive axis, by taking a fact of the
signal away (`MissingFactsConvictBySignal`); a wrong industry is one whose membership had ended
(`OnlyEndedMembershipsLinger`).

## 7 Limits of the code that the models follow

Behaviour of the code that the models reproduce, and that the checked properties exempt by name, assume
away by a constant, or do not speak of.

* Research runs and unpublished days: a research run sets no `not_ready_days`
  (`qt/pipeline.py:570-583`), so an empty answer for today, or for a day to come, is recorded as
  covered (`tushare_cache.py:616-626`). Later runs ask again only inside their trailing
  window (`refresh_recent_days`, 14 by default) or when forced: a nightly run within two weeks heals the
  day, without one the row stays missing. The cells are `frozen` in `TushareCache`; `CoveredIsComplete`
  and `ReadIsComplete` exempt exactly them.
* Daily cache with `not_ready_days = 2` (not the default): the pending part of a gap is recorded as
  one entry, so one row in it claims the unpublished day next to it (`tushare_cache.py:667-690`).
  This is why `Durable` and `Complete` bound `NotReadyDays`. With overlapping calls a process with an
  older answer may overwrite a fresher row until the next tail refetch.
* Ledger with two writers: `record_many` (`coverage.py:249`) reads, appends and replaces without a
  lock, and one of two loses rows although `coverage.py:8` and `:55` say append-only. It costs a
  refetch, not correctness: `Durable` holds for any number of processes.
* Factor store with two calls side by side: `read_valid_frame` opens the artifact for its rows and once
  more for its fingerprint; a fill of the other call between the two, under a new schema, makes the old
  rows valid. This is why `OwnSchemaIsServed` takes one call at a time: TLC finds it with two.
* Intraday cache: an empty answer for today is recorded as covered (`intraday_cache.py:196`), with no
  pending window and no trailing refetch, whereas `qt/data_updater.py:13-16` says an empty return
  inside the pending window is never frozen.
* Registry: a factor retired while its evaluation runs is recorded as book again when the run ends
  (`qt/factor_eval_registry.py:34`, `factor_eval_runner.py:525-540`).
* Execution prices: the artifact key holds neither minute bars, factors nor pairs, so a reused artifact
  can be older than the caches. The hand check recomputes with the frame's own factors, samples only
  finite pairs, always prices by VWAP, and an infinite difference passes it
  (`exec_basis_sanity.py:338` against `:17-20`). A kill between the parquet and its `.json` leaves the
  `.json` unwritten for good. When the panel gained a row after the artifact was built, the spans of
  the two return series differ.
* Reconciliation: a monthly share may fall without a flag (`factor_eval_reconcile.py:1371-1376` against
  the comment at `1363-1364`); a bounded factor may go from finite to NaN inside the warm-up.
* Matrix commands: a static universe passes the preconditions although every cell then runs the same
  symbols (`robustness.py:93-112`); duplicate universes let the skip list cover every cell
  (`config.py:577`); the training cut of the IC counts trading days, so a suspended symbol realises later.
* Panel files of a matrix: `robustness.py:105-112` turns a `-` of a label into `_`, and the labels are
  unique only as they are written (`config.py:560-565`). Two labels that then share a name replace each
  other's panel when `output.overwrite` is on, although `robustness.py:100-101` says "so cells never
  overwrite each other's panel parquet"; when it is off, the second cell ends the command. The numbers of
  the report are those of each cell's own window all the same, because a cell reads back what it has
  just written (`KeepsItsPanel` says which panel is left).
* Backtest: `engine.py:203` calls the carried book drifted; `settle` (`sim_execution.py:107-135`) leaves
  the achieved weights as they are.

## 8 What is not modelled

* Numerics: factor formulas, statistics, neutralisation, attribution. Stateless floating-point code.
* `qt/pipeline.py`, `reports.py`, `cli.py` and most of `config.py`: batch orchestration and rendering,
  one pass over panels. The intraday tail pipeline (`qt/intraday_tail_framework.py`), whose execution
  model is a model of `Backtest`.
* The reports leg of `factor_eval_reconcile.py`, the anchors leg but for which cells it takes for
  under-warmed (`AnchorClass`), and the freezing of panels.
* Secrets, the demo feed, report-only quality checks, the saturation of the row cap of one call,
  column-level schema comparison. That a parse may raise is modelled (`ParseFails`).
* The paged `index_weight` gap, and the per-call throttle of the serial mode (a sleep after a success).
* The lookup memos of the ledger: filled and cleared with the frame, so part of it.

## 9 Plan

1. The theorems that still name hypotheses the code does not enforce (`TailAlone`, `Quiet`, calls that do
   not overlap), without them where a weaker statement still holds.
2. The durable state of the research commands (panel files, reports, run ids) and the legs of the
   reconciliation that are missing.
3. The paged `index_weight` gap, in `TushareCache` or beside `SnapshotCache`.

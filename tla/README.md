# A TLA+ model of StochasticInstantons

StochasticInstantons computes instantons of stochastic inflation over a grid of
transition points and keeps them in a sharded SQL store, from which later runs
go on.  The numerical physics is floating point and is not the subject here.
What is modelled is everything around it that decides whether the stored results
can be trusted: the drivers that look up, compute, store and validate; the rows'
life cycle and the replicated tables under kills and restarts; the control of the
iterative solvers; what a compute target makes of a solve and a fetch of a row;
the sampling design that names the points; the plots and the comparison tool that
read a store; and the wrapper that registers a run and survives its signals.

## 1. The system

### 1.1 Parts, state, operations

| part | source | state it keeps | operations |
|---|---|---|---|
| driver, `--no-store-values` | `main.py` `_run_pipeline_queue`, `_persist_pipeline_item`; `ComputeTargets/pipeline.py` | work items in flight, serials found by lookup | look up, compute, compare, store, validate: FI, SRI and CF of a point in one item |
| driver, full values | `main.py` `run_all_pipelines`, `_run_instanton_queue`, `_run_gradient_branch` | the queue of the current stage | four queues one after the other; `--targets`, `--stop-after` |
| set-up and trajectory stage | `config/pipeline_setup.py`, `config/model_list.py`, `main.py` `execute` and Stage 1, `InflatonTrajectory` | tokens, potentials, a trajectory per model, the same on every shard | look up or insert, integrate, store, validate; drop, prune and repair at the next open |
| object factories | `Datastore/SQL/ObjectFactories/*` | the tables of a shard | `build` (look up, insert, populate), `store`, `validate`, `validate_on_startup` |
| compute targets | `ComputeTargets/FullInstanton.py`, `SlowRollInstanton.py`, `CompactionFunction.py`, `compaction_scalars.py`, `GradientCoupledInstanton.py` | one object: payload, result, failure | choose samples, `compute` (remote), `store` (take the result), fetch |
| shooting solver | `Numerics/ShootingSolver.py` | lam, trust radius, stall sign, carried evaluation | one outer iteration after the other |
| gradient-coupled solver | `ComputeTargets/GradientCoupledInstanton/picard.py` | grids, budget flag, residual history | sweep, bracket, search, classify |
| registered run | `RunDrivers/registered_run.py` | handlers, signal latch, `status.json`, stdout wrapper | register, run `main.py`, record the end, heartbeats, exit marker |
| sampling design | `config/generate_lhc_grid.py`, `config/grid_builder.py` | a CSV file | draw, round, write; read back, look up |
| other configuration | `config/*` | registries of tables and drop groups | fingerprint, arguments, shard placement |
| plotting | `plot_*.py`, `plotting/` | what one pass has fetched | fetch, bin by shard, pair, group, flatten |
| comparison of stores | `tools/compare_stores.py` | two stores, read only | identities, checks, comparison, near misses |
| extraction cache | `Caching/ExtractionCache.py` | a profile per time | reconstruct on demand |
| collocation, quadrature, interpolation, concepts, units | `Numerics/*`, `Quadrature/*`, `Interpolation/*`, `InflationConcepts/*`, `Units/*` | immutable values | floating-point functions |
| inventory, diagnostics | `tools/inventory_report.py`, `tools/diagnostics/` | none | print |

FI, SRI, CF and GCI stand below for FullInstanton, SlowRollInstanton,
CompactionFunction and GradientCoupledInstanton.

### 1.2 How they interact

`registered_run.main` installs its handlers, wraps `sys.stdout` and calls
`main.execute`, which opens a `ShardedPool` (raypoolkit, not in the repository):
one actor per shard, each with its SQLite database and its object factories.  The
drivers call `object_get`, `object_store` and `object_validate` on the pool, some
of them synchronously with `ray.get`, and give the rest to a `RayWorkPool`, which
keeps a bounded number of items in flight and runs their store, persist and
validation handlers on the driver as references complete.  The compute targets
run `compute` on workers.  FullInstanton and the gradient-coupled solver share
`solve_shooting`; the latter's `evaluate` is a Picard iteration.  A CF refers to
its FI and SRI by serial; a GCI is seeded with the FI of its point; all of them
name their trajectory, their grid numbers and tolerances by the serials of
replicated rows.  The grid comes from a file that `generate_lhc_grid.py` has
written, or from the command line; the plotting drivers read the same file and the
same store, possibly while `main.py` is still writing, and nothing locks them out.

### 1.3 What is hard

* A row is stored in one call and validated in another, and a kill may fall in
  between; the next start may prune what is not validated.
* All lookups of a run come before its first store.
* Results of failed solves are rows too, and count as settled.
* A store is written to by runs of two modes, with and without values, in any order;
  a scalar run stores, for a point with a failed solve, a CF that no run finds again.
* The code may change between runs, and stored rows are compared with fresh ones.
* A signal is handled between any two steps of the main thread, whichever handler
  is installed just then, and handlers are themselves interrupted.
* Two threads print through one wrapper, in two writes per line, and a handler's
  exception may leave a write at any point.
* The search carries an evaluation from one iteration to the next, while the warm
  start of the one below it is another piece of state.
* A deadline may pass between any two steps of three nested loops.
* A replicated row is written shard by shard; a kill may fall in between, and the
  next open has to make the copies one again before anything is pruned.
* Numbers are looked up with a tolerance, and two runs that ask for one number do
  not ask for the same float; the grid's numbers are rounded in a file besides.
* Samples, and answers binned by shard, are matched by position.
* Rows differ in what they hold: a failure has no numbers, a scalar row no samples.

`PROJECT.json` lists each hazard at its line.

### 1.4 What makes each part correct

* *drivers*: a point never has two validated rows of a kind; references hold;
  results hang on solved instantons only; validated rows stay; a run that ends
  regularly is complete; what is settled is not computed again; a campaign that is
  restarted ends.
* *store*: only validated rows are found, only unvalidated ones are pruned.
* *solvers*: no evaluation outside of the corridor; the evaluation carried is that
  of the point gone to; the result belongs to the lam that is stored; the label of
  a failure is its story; they end.
* *registered run*: the record, the exit status and the marker tell one story; a
  recorded outcome stands; the process ends whatever signals come.
* *set-up*: the copies of a replicated table are one; a number has one token; a
  trajectory spans what instantons take from it, and stands while results name it.
* *compute targets*: a sample holds what was computed at its e-fold; a fetch raises
  or gives back the object that was stored; a success rests on successes.
* *design and plots*: the points worked on are those of the design; a figure shows
  the values it is labelled with, and everything that was settled before.
* *comparison*: equal means the same, whatever the layout.
* *stream*: the copy lacks only what an exception cut off; the heartbeat is fresh; the
  exit marker is a line of its own (which the code does not always keep, section 4).

## 2. Modules

| module | models | composed of |
|---|---|---|
| `InstantonStore` | rows and the factories' `build`, `store`, `validate`, `validate_on_startup` | |
| `InstantonLedger` | abstract: one verdict per point, given once, for good | |
| `UnifiedPipeline` | the driver with `--no-store-values`, with kills and restarts | extends `InstantonStore`; implements `InstantonLedger` twice |
| `UnifiedPipelineInv` | its inductive invariant | |
| `UnifiedPipelineProofs` | its proofs | |
| `StagedRun` | the driver in both modes and its branches, run after run on one store, with kills | extends `InstantonStore` |
| `StagedRunInv`, `StagedRunProofs` | its inductive invariant and its proofs | |
| `StoreSchema` | which tables are replicated, which name which, what may be dropped | |
| `TokenTables` | the tolerant lookups of the number tables | |
| `TrajectoryStage` | registration of a run's parameters and Stage 1 over the shards, with kills, repair, prune and drop | extends `TokenTables`, `StoreSchema` |
| `TrajectoryStageInv`, `TrajectoryStageProofs` | its inductive invariant, in four parts, and its proofs | |
| `CompactionScalars` | what is read off a profile: radii, type, masses, scales | |
| `TargetTables` | the four result tables column by column: store, validate, prune, the modes of a fetch | extends `CompactionScalars` |
| `SlowRollSolve` | the bracketing and root search of the slow-roll solve | |
| `FullSolve` | the sweeps of the full solve under the shooting solver | |
| `ComputeTarget` | the object of each kind from its samples to a fetch in a later run, with the profile cache | composes `TargetTables`, `SlowRollSolve`, `FullSolve` |
| `ComputeTargetInv`, `ComputeTargetProofs` | its inductive invariant and its proofs | |
| `SamplingDesign` | options to samples to file to grid items | extends `TokenTables` |
| `PlotFetch` | how a pass of a plotting driver reads a store | extends `InstantonStore` |
| `DesignCampaign` | generator, `main.py` and a plotting driver on one file and one store | composes `SamplingDesign`, `PlotFetch` |
| `StoreComparison` | `compare_stores.py` on a store and a damaged, laid-out-anew copy of it | |
| `ShootingSolver`, `ShootingSolverProofs` | `solve_shooting` and its proofs | |
| `PicardSolve`, `PicardSolveProofs` | `solve_picard`: the sweeps, the bracket, the search, the classification; its proofs | |
| `RegisteredRun`, `RegisteredRunProofs` | the process, its handlers, `status.json`, and its proofs | |
| `RegisteredStream`, `RegisteredStreamProofs` | the stdout wrapper, the stage tracker, the heartbeat, and its proofs | |

`MCx` instantiates `x` for TLC.  Definitions whose comment says *Slip* are no part
of the specification: each is a plausible mistake in the definition after it, and
a property that the slip does not violate would say nothing.

### 2.1 Model and code

**InstantonStore.**  A table is a set of rows with a serial, the identity looked
up, `ok` (the solve succeeded), `scalarsOnly` (`full_values_stored` is false) and
`validated`.  `Matching` is the query of `build`, `Ambiguous` what makes
`one_or_none` raise, `CannotPopulate` the `RuntimeError` of a row that has no
values to load, `Validate` and `Prune` the calls of these names.  Value rows go
into the store and out of it with their object's row, in one transaction, and are
not separate state.

**UnifiedPipeline.**  `Open` starts the program, `PruneTable` sweeps one table,
`LookupFI`, `LookupSRI`, `LookupCF` are steps A to C of `_run_pipeline_queue`, and
`Dispatch` to `RevalidateFI` the way of an item: `compute_pipeline` on a worker,
`PipelineWorkItem.store` with its integrity check on the driver, the four
synchronous calls of `_persist_pipeline_item` one by one, and the CF's store and
validation, which are not waited for.  While an item is in the handler nothing
else of the driver runs (`HandlerBusy`), the remote tasks of other items do.
`Kill` forgets what is in memory.  A solve's numbers are four flags: which
instanton was solved, and which path of the CF has a result.  What the integrity check
compares of two successes is not in them: where the code may have changed, it raises or
not as a choice (`NumbersMayDisagree`).

**StagedRun.**  `phase` and `kind` say which of the passes of which queue the driver is
in; `Advance` and `AfterHomogeneous` are the order of the stages and the early returns.
The store starts empty and `Open` takes any command line, of either mode, each time.
With full values a queue runs per kind, from `LookupInstantons` or `LookupCompactions`
over `Populate`, `Dispatch` and `Store` to `ValidateRow`; with `--no-store-values` steps
A to C are `LookupPipeline`, and `Pipeline` an item of the one queue, with its stores
and validations apart and `Kill` between any two of them.  `UnifiedPipeline` has that
queue in more detail (the workers, the cap, the integrity check); here it is what the
other mode finds.  The trajectory of Stage 1 is taken as solved; `TrajectoryStage` says
what a branch may take for granted of it.

**TokenTables, StoreSchema, TrajectoryStage.**  A token table is a set of rows
[serial, key]; `Near` is the relative comparison of the factories, absolute at zero,
and `Hits` the rows a query finds.  `TrajectoryStage` asks for the parameters in the
order of `build_pipeline_inputs`, `build_model_list` and `execute`, each lookup on
whatever shard the pool takes, each insert first on one shard (`Mint`) and then on the
others (`Replicate`).  Stage 1 is `LookupModels`, `Resolve` (the chain of integrators;
what each answers is a choice), the minting of the sample tokens, `Persist`,
`ValidateStored`, `HandOver`.  `RunBranches` stands for the two branches: they store
rows that name the trajectories, or raise.  The record of unfinished replicated writes
and the repair at the next open (`Reconciled`) belong to datastorekit, which is not in
the repository: the factories' `revalidate` and the comments of `config/datastore.py`
say what is relied on.  `Floats` and `Numbers`
are the floats that stand for one number in different runs, at most `Spread` apart.

**TargetTables, CompactionScalars, SlowRollSolve, FullSolve, ComputeTarget.**  The life
of the four objects of one grid point, each from `build` with and without samples over
`compute`, `store`, `persist` and `validate` to a fetch in each of its modes, whose
result (or the object itself) is handed to the next.  `BuildNSample` and `Output` choose
the samples on the driver and on the worker, `PairedValues` and `KeyedValues` put the
columns back.  `SlowRollSolve` is the bracket, its expansion and the root search over a
sign (or NaN) per level; `FullSolve` the sweeps below the shooting solver; which
integration fails is a choice.  `CompactionScalars` decides radii, type, masses and
scales from profiles given as integers, and either path's downflow may fail; radii,
scales and masses stand by their logarithms, which keep their order, and the samples are
sorted by the place of each scale among them.  Values that come from a spline or a root
are part of the profile.  `TargetTables` has the columns and says what a fetch makes of
them.

**SamplingDesign, PlotFetch, DesignCampaign.**  `build_grid`, `build_grid_fixed_K` and
the Cartesian variants make rows from a unit-cube sample, the file keeps eight decimals
(`Digit`), `build_grid_from_csv` looks its columns up one by one.  `DesignCampaign` lets
a generator (or a hand), `main.py` and a plotting driver follow each other on the same
file; `MainStores` is one validated row, `Fetch` one vectorised lookup of a round on one
shard, at any moment between the stores.  `PlotFetch` has what the passes do with the
answers: bins, places, the pairing of each CF with its instantons, groups, the line of a
point.  What `main.py` does here is what `UnifiedPipeline` and `StagedRun` do in detail.

**StoreComparison.**  Two stores of two shards each; B is a copy of A on which up to
`MaxEdits` things happen: rows renumbered, moved with or without their children, touched
in their bookkeeping, changed, dropped, stored twice, files damaged.  `RunCompare` is the
tool: a row's identity (`Identity`) holds the identities of the rows it refers to, near
misses are paired by `NearKey`.  A value of a JSON column is a float or an integer, and an
edit may turn one into the other: `Skeleton` drops the floats and keeps the rest.  What
the tool reports is held against a comparison that uses neither (`Isomorphic`,
`OnlyFloatsDiffer`).  `RunSchema` compares the schema snapshots.

**ShootingSolver.**  One action for the top of an iteration, one for the choice of
a step, one per probe, one for the end of the backtracking.  Numbers are integers,
multiples of a unit far below every tolerance; a residual map is any function from
the corridor to residuals, or to "evaluate has no success".  Floating-point
rounding of `lam + (target - lam)` is abstracted.  `evaluate` is a function of lam
here; in `PicardSolve` it is not.

**PicardSolve.**  `picard_inner` is `Sweep`, `PassFails`, `StopSweeping` (the
deadline is noticed before a sweep) and `Overtaken` (a right-hand side notices
it).  What a sweep does is any change of the grids and any residual.
`_bracket_from_seed` is `SeedEvaluated`, `Expand` and `ExpansionEvaluated`;
`solve_shooting` appears with the calls it makes, its steps being any in the
corridor.  `bailout_reason` and `bailout_tag` are computed as in the code, from
the flags and counts it looks at.  The mode without spatial coupling is used by
tests only and left out.

**RegisteredRun.**  `pc` is the place of the main thread, `handler` the disposition
of each signal, `frame` the handler that interrupts it.  `InstallHandlers` and
`RayInit` follow the order in which `terminal`, Ray's own handler and
`killed_handler` replace each other.  `Decide` has the test and the assignment of
`SignalLatch.decide` apart.  `Raise` is what an exception does at each place.  A run
attaches to Ray, refuses before it, or begins `ray.init` and fails: only in the first are
both of the driver's handlers in place in the end (`Armed`), and what is said of armed
runs alone says so.  `UnseenExit` are the two exits with a status that the registry need
not know: 15 under Ray's own handler, where `ray.init` did not return, and 130 before
registration is over.

**RegisteredStream.**  A `print` is two calls of `write`, and each is taken apart as far
as an exception can tell: the real write (`RealWrite`, or `RealWriteRaises` with the text
taken or not), the flag of an open line (`SetMidLine`), the copy (`Observe`, from which on
the lock is held), the lines taken off the pending text (`TakeLines`), the tracker line by
line (`FeedLine`), the throttle (`Throttle`) and the heartbeat (`Heartbeat`).  `Interrupt`
is a handler that raises in the main thread, at any of these places and within them;
`lost` keeps the writes that an exception cut off before the copy, `missed` whether a
heartbeat was.  Ray's thread is not interrupted: Python runs handlers in the main thread.

## 3. Runs

Twelve, each with its question.  "pass" runs find no error; the "violation" run shows
that the code does not do what its documentation says.

| run | result | shows |
|---|---|---|
| `pipeline` | pass | two points, two starts, kills anywhere, prunes, both items in flight, a solver that may change: one validated row per point, results have sources, finished is complete, the ledger is implemented, so that a verdict stays |
| `pipeline_completes` | pass | three starts, one slot, an unchanged solver: no run raises, a solved point is not computed again, the campaign ends |
| `staged` | pass | nine command lines of either mode mixed over three starts, with kills: completeness, sound CFs, no ambiguous lookup, nothing settled is stored again, failures included, every run ends |
| `trajectory` | pass | two models, two shards, two starts that round differently, kills at any step, prunes and drops: equal copies, one token per number, trajectories that span what they should and stand while results name them, raising on a failure only, an end |
| `targets` | pass | three points and both storage modes through the four targets, a restart, any outcome of an integration: samples where they were computed, fetches that give the result back, successes on successes, masses with their radii |
| `endpoint` | violation | the same; the last sample is not always the end of the transition |
| `campaign` | pass | eight designs, six files by hand and an axis grid, `main.py` and a plotting driver interleaved: points that meet the design, figures that hang together and show what was settled |
| `compare` | pass | three edits of any kind to a copy of a store: exit 0 means the same, near misses differ in floats only, and in no count or kind |
| `shooting` | pass | all 4^7 residual maps on seven points, three bootstrap targets: corridor, carried evaluation, no death at the top |
| `picard` | pass | three loops and a deadline at any instant: results (with their corridor), labels, warm starts, end |
| `registered_run` | pass | three signals at any instants and a disk that may be full, in runs that attach, refuse, or fail to attach: record and exit status agree, a recorded end stands (in a run that did not attach, a later death may replace it), a stopped run is not recorded as ended, the process ends |
| `stream` | pass | a banner, a progress line and a worker's line, a handler that raises anywhere in a print, a real stream, a copy and heartbeats that may fail: copy, heartbeat |

### 3.1 Bounds

* *Two grid points.*  Items meet in the in-flight limit and in the tables only;
  two are enough for one to be in any stage while another is in any other.  Three
  of a kind add no new pair, and the theorems hold for any number.
* *Staged*: three starts, as a row is left by one run, met by one of the other mode, and
  found by a third.  The two points differ in what the solvers make of them (all works,
  the full solve fails, both fail), each pair once: no definition tells one point from the
  other, and two points with one answer meet no more than two with different ones.
* *Two or three starts* (`MaxRuns`).  One to leave something behind and one to
  find it; a third to find what the second made of the first.  The last is not
  killed, so that "in the end" means something.
* *One or two items in flight*: the cap reached, and two items interleaved.
* *Outcomes* (`pipeline`): all work, FI fails, SRI fails, both fail, and a CF path that
  fails on its own.
* *Shooting*: four iterations (first step, secant, stall, and one after each) with
  two probes, in a corridor narrower than the largest step.
* *Picard*: three outer iterations, three sweeps, two of patience and two required,
  two expansions: each limit is reached, and each can be passed by.  The code's
  numbers (50, 30, 3, 3, 8) only repeat the same comparisons.
* *Trajectory*: two shards, as a third would only be repaired like the second; two
  models whose sample grids share tokens; two starts, the second with another rounding
  (`Spread` of one unit, of which the tolerances take several).
* *Targets*: `N_total` off the step, on it with a larger float, and past the end of
  inflation; profiles that cross the threshold not at all, once and twice; two
  expansions, two sweeps, two evaluations.
* *Campaign*: two samples per design, a design for each way to end with a file or
  without; two shards' worth of `delta_Nstar`; at most two failures, so that either
  instanton, both, or a CF path fails; `MaxCombos` and `MaxSamples` below the number of
  points, so that something is left out.
* *Comparison*: three edits, enough to change something, hide it behind a change of the
  layout and damage a copy; two shards with one instanton each.
* *Signals*: three, so that a handler that interrupts a handler can be interrupted.
* *Stream*: one print of each kind, and a clock that goes one past the interval of two
  it starts at: a line is printed when the beat is due, and one when it is not.

### 3.2 Fairness

`UnifiedPipeline` and `StagedRun`: weak fairness of the driver and of each item.
The driver is a program that does not block except for a worker, workers return,
and `RayWorkPool` serves every reference that is ready; a user starts the program
again.  Nothing is assumed of kills.  `TrajectoryStage`: weak fairness of the run's own
steps, which are calls that return.  `RegisteredRun`: weak fairness of the
process, which includes that `main.py` ends; none of signals or of the alarm.
`PicardSolve`: weak fairness of the computation; each integration returns, and no
deadline is needed for the end.

### 3.3 Deadlock

All configurations but those of `ComputeTarget`, which stutters when it is done, say
`CHECK_DEADLOCK FALSE`: the modelled programs stop, by exiting, by returning, or because
the bound of starts is used up.  What a
deadlock would be is excluded by `EventuallySettles`, `RunsEnd`, `StageEnds`, `SolveEnds`
and `EventuallyRecorded`.

## 4. What the code does otherwise than it says

With a run:

* `endpoint`: the sample grid is said to hold "the exact endpoint N_total so that
  downstream radial-profile extraction starts from the true instanton endpoint"
  (`main.py:549-552`).  It is left out when the last multiple of the step agrees with it
  to 1e-12 (561), and where that multiple is the larger float, the worker drops it too
  (`ComputeTargets/FullInstanton.py:331`).  With `samples_per_N = 25`, `N_init = 10`,
  `N_final = 5`, `delta_Nstar = 0.6` the samples end 1/25 e-fold early.
  `EndpointsAreKeptIfClear` (section 5) says that nothing else cuts the samples short.

Stated in the models, with no run of their own.  Each is an invariant that TLC finds
violated when it is added to the configuration named:

* `DecidedStands` of `RegisteredRun` (`registered_run.cfg`): "What the driver does once
  `main.py` is over, with Ray up or not" includes that "a signal once `main.py`'s outcome
  is decided ... is noted by the handler and changes nothing"
  (`RunDrivers/registered_run.py:482`, 503-504).  That handler is installed when Ray is
  up.  In a run that refuses before, `terminal` (845-849) replaces what is recorded, failed
  with 2 and a fingerprint for example, by killed without one, and the process dies of the
  signal; where `ray.init` was begun and raised, Ray's own handler exits by status 15, with
  the record possibly still running.
* `MarkerIsALine` of `RegisteredStream` (`stream.cfg`): the exit marker is printed "on a
  line of its own, even after a line a signal left unfinished" (976; 288).  A handler that
  raises after the real write (260) and before `_mid_line` is set (262) leaves a line
  unfinished unnoticed.
* `SearchStartsAtLast` of `PicardSolve` (`picard.cfg`): "lam0 is the LAST point evaluated"
  (`ComputeTargets/GradientCoupledInstanton/picard.py:986-988`).  `_bracket_from_seed`
  commits the fields of the last point (1019) and returns the one before (1022), which
  the search then evaluates from the other's fields.

Found with these models; each is reached by the actions of the module named:

* `UnifiedPipeline`: re-running is not fully idempotent for points with a failed solve,
  against "full idempotency (re-running the pipeline skips work that is already stored
  and validated)" (`.documents/architecture-summary.md:9-10`).  The CF is stored with
  NULL for the failed instanton (`ComputeTargets/pipeline.py:322`) and looked up under
  the failed row's serial (`main.py:316-333`).  Each scalar run that meets such a point
  stores one more validated row, in `StagedRun` as well.  Plots look it up likewise
  (`plotting/fetch.py:100-130`), and such a point shows no compaction scalars.
* `UnifiedPipeline` without `DistinctTasks`: "Duplicate triples in the CSV are harmless:
  ... no duplicate database rows are created" (`config/grid_builder.py:83-84`).  All
  lookups precede all stores; both are stored, and every later run raises.
* `UnifiedPipeline`: "A fresh failure result or a None stored value (existing row was
  itself a failure) is silently skipped" (`ComputeTargets/pipeline.py:40-42`).  The
  comparison raises on a stored failure that now succeeds (72).
* `StagedRun`: "a missing/failed/unpopulated FullInstanton ... never blocks the gradient
  branch" (`main.py:603-606`).  A scalar row makes the seed fetch raise
  (`Datastore/SQL/ObjectFactories/FullInstanton.py:225-233`).
* `RegisteredStream`: "two threads cannot garble a line's stage" (class docstring).  The
  text and the newline of a `print` are separate writes
  (`RunDrivers/registered_run.py:324`).
* `SamplingDesign`: `--K` with explicit values is meant to be refused
  (`config/generate_lhc_grid.py:529`), but the test can never hold: the values are
  ignored.  Cartesian values below the lowest `delta_Nstar` are dropped in silence.
* `SamplingDesign`: closeness is relative to the number asked for and so not symmetric:
  a grid looked up once may raise when it is looked up again.

Seen while modelling:

* A heartbeat that fails, or that a handler cuts off, is not made up for: `_last_beat` was
  set before it (`registered_run.py:333`), so that the stage in `status.json` stays the
  old one until the next that is due.
* `--stop-after inflaton-trajectory` also ends a run of the gradient branch, which
  the stop is said not to concern (`main.py:776` against 1235-1239).
* After a deadline `solve_shooting` returns the lam of a step that was accepted but
  not committed (`ShootingSolver.py:318`; docstring 107-108).  Both callers discard
  it.
* After a step all of whose probes failed, the next stall step is larger, not
  smaller (`ShootingSolver.py:259` against the comment at 327-329); the growth
  factor is 10 for FI and 1.5 for GCI.  At a wall of the corridor the escalation
  does not move at all (292 against 136-139) and the search stays there until
  `max_outer`.
* A deadline that passes before the first sweep of an evaluation makes it succeed
  with the fields of the warm start and response fields of zero, not with those of
  a completed sweep (`picard.py:1433` against 1426-1432).  If it passes between the
  check at the top of the first iteration and that of the first sweep, and the
  bracket ended by chance within the tolerance, the solve passes for converged.
* An evaluation that fails in the last outer iteration is labelled
  `max_outer_exhausted`, although the comment says that the last evaluation then
  succeeded (`picard.py:1692`, 1685-1687).
* A seed outside of the corridor is evaluated as it is (`_bracket_from_seed`).
* A run killed in `terminal` has no fingerprint in its record
  (`registered_run.py:920` against 91-95); a signal while `decide()` runs may be
  decided either way (847); between the manifest and the first handler nothing can
  record a death (851).
* The bracket of the slow-roll solve can alternate between a level and the NaN level
  above it until its expansions are used up (`SlowRollInstanton.py:202`); a residual of
  exactly zero at `P1 = 0` ends as "bracketing failed"; a final integration that fails
  leaves `converged = True` in the diagnostics; brentq's RuntimeError is not caught.
* The GCI's result has no key `C_bar`, so that the stored profile's is always NULL
  (`GradientCoupledInstanton.py:895-905`); its peak and masses come from the raw nodes,
  its radii from the dense grid.
* `failure` is not restored when an FI, SRI or GCI is loaded; the failed path of a CF is
  stored with compensated and type II as 0; the threshold is no part of a CF's identity,
  so that a run with another one finds the old row.
* `zeta_C_r_at_time` keeps the answer of a failed extraction, arrays of None, in its cache.
* Two models whose masses a lookup does not tell apart share a potential; both
  trajectories are stored and the next lookup raises.  `ModelsApart` excludes it.
* Folders and files of figures are named with four or three significant digits: distinct
  points may overwrite each other's.  The gradient driver ignores `--sample-grid-csv`.
  Its detailed plots raise on scalar rows.
* `compare_stores.py` does not see: permuted serials of equal rows on two copies of a
  replicated table; the children of two equal parents exchanged; a schema that differs on
  another shard than the lowest.  Which of several near misses are paired is an accident
  of the hashes' order.

## 5. Proofs

TLAPS, for all values of the constants that satisfy the assumptions of the modules:
`PipelineAssumption`, `StagedAssumption`, `SolverAssumption`, `PicardAssumption`,
`RegisteredRunAssumption`, `StreamAssumption`, `ModelsApart`, `RunParameters`,
`NumbersApart`, `DropsFollowNames`, `ConstantsAssumption`, `NullIsNoScalars`.
They say what kind of value a constant is; beyond that, that a path of a compaction
function has a result only where its instanton was solved, that a corridor holds its
origin, and that a group of tables whose dependents have gone may be dropped.  Those of
`TrajectoryStage` say of the numbers what the choice of the tolerances is for:
`ModelsApart`, that parameters of one class are told apart by its look-up;
`NumbersApart`, that what rounding moves is within the tolerance and what is within the
tolerance is one number, and that the points of one sample grid are as many numbers.
`config/model_list.py` does not see to the first for masses nearer than their tolerance
(a hazard that has no property), and nothing is claimed of a run that asks for such.
`DistinctTasks` (the grid names a point once) and `~CodeChanges` (the solver gives the
same answers in all runs) are hypotheses of the theorems that need them, and so is
`Clear` of the one about endpoints.

* **Unified pipeline: references** (`UnifiedPipelineProofs`).  `ReferencesHold` is not
  inductive: that a CF's foreign keys are good depends on what the item had done by
  then.  `PipelineInv` adds where rows come from (`Provenance`: the serial is the item
  and the run, and unique), that an item has no row of this run before its turn
  (`Fresh`), what the lookups found is valid (`FoundIsValid`), what each stage of the
  handler has established (`FIProgress`, `SRIProgress`, `Decided`) and, for each CF,
  that it is `Founded`: its rows are validated, of one point, and solved where it has a
  result.  `TypeCorrect`, `RowsStay`, `PipelineInvariant`, `ReferencesAlwaysHold`,
  `ResultsAlwaysHaveSources` follow.
* **Unified pipeline: the ledger** (the same module).  Under `DistinctTasks`,
  `UniqueInv` adds `Absent`: a point that was looked up in vain has no validated row
  until its own item validates one.  `OneRowPerPoint` follows, and with it both
  refinements: each `Validate` is `Settle` of the ledger for one point, everything else
  a stutter.
* **Unified pipeline: regular ends** (the same module).  `FinishedIsComplete` speaks of
  the end only, so `CompletionInv` says what an item leaves behind when it is done
  (`CFProgress`), that one which never entered the queue was found complete
  (`IdleIsServed`), and that a CF exists only where both instantons of its point are
  stored (`BothSettled`): a lookup that misses one instanton has no CF to find.
  `CompactionInv` is why the lookup of the CFs, which raises on a second row as well,
  never does: a CF with both keys is written only where there was none.
  `FinishedIsAlwaysComplete` and `LookupsNeverRaise` hold also when the solver has
  changed; `NoRunRaises` and `SolvedStaysSolved` need `~CodeChanges`, and
  `RowsAreAnswers`, that rows say what the solver says.  A changed solver does raise,
  in the comparison of `PipelineWorkItem.store`, be it over a success that was a failure
  or over two successes with different numbers.
* **Staged run** (`StagedRunInv`, `StagedRunProofs`).  For any number of runs of either
  mode on one store, from an empty one, killed anywhere.  `StagedInv` says of the rows
  where they come from (`Provenance`), that an instanton's key has one validated row
  (`OneRow`), and that a CF names what is stored, of a point of which both instantons are
  (`CompactionsBelong`).  Of the current run it says that no row of its own exists where
  none was stored yet (`Fresh`, by `Pending`: in the full mode a kind at a time, in the
  scalar mode an item at a time), what the queue of a kind presupposes (`Reached`,
  `AtRest`), what it has done to the items that left it (`InstantonQueue`,
  `CompactionQueue`, `UnifiedQueue`), and what is done for good (`Brought`).  The CF is
  the delicate one: it is looked up by the serials of the instantons as found, and a
  scalar run stores one with a missing key, again and again.  What is unique is the
  validated CF that names both (`OneWhole`), since both modes store one only where the
  lookup with both serials found none.  And "done" is not the same in the two modes: after
  a full run every point has such a CF (`HomogeneousDone`), after a scalar run a point one
  of whose solves failed has one that names the other, and a point that neither solver
  solves has none (`ScalarsDone`).  `TypeCorrect`, `CompleteAtTheEnd`,
  `CompactionsAlwaysSound`, `OnlyScalarRowsRaise`, `NothingSettledIsComputed` follow.
* **Trajectory stage** (`TrajectoryStageProofs`).  That the copies agree when nobody
  writes says nothing while somebody does.  `SettledAgree` is the invariant: what a
  table holds and what is on its way to it are together the same on every shard.  Each
  step of a replicated write moves a row from one part to the other; after a kill the
  second part is lost with the next start, whose repair makes the first agree by itself.
  That writers do not hold each other's serials (`SerialsApart`), and what each writer's
  place says about the shards it has passed (`WorkShown`), carry it.  `ResultsShown`
  adds that a result's trajectory is on every shard, validated and not failed, which
  repair, prune and drop respect.  `ShardsAlwaysAgree`, `ResultsAlwaysStand`.
* **Trajectory stage: numbers and grids** (the same module).  `OneTokenPerNumber` is
  about a lookup on one shard and an insert on all of them.  `TokenInv` is why the two
  fit: the driver has one write in flight and it is what it asked for (`Landed`,
  `DriverAsks`), so that with nothing in flight any shard is all shards, by
  `SettledAgree`; what is in a table was asked for in some run (`TokensTyped`), so that
  by `NumbersApart` a lookup that finds nothing has not missed the number under another
  rounding (`TokensUnique`).  `CiteInv` follows serials to what they name: a parameter's
  serial is its token on every shard, a potential's that of its mass (`GotFits`), and
  the samples of a trajectory are, in order, the points of a grid that its own end of
  inflation gives (`MintedFits`, `TrajectoriesWhole`).  The points of a grid are as many
  numbers, so none of them is lost in a token of its neighbour, and `ValidatedSpans`
  follows.  `KeyInv` says whose a trajectory is: one validated serial for each key
  (`OneValidated`), none while its model is being solved (`Missing`), and a key tells
  models apart because it names the token of the mass.  Hence a model that is done has
  the row which `RunBranches` looks at, and a raise is the failure's
  (`RaisesOnFailure`).  `NumbersKeepOneToken`, `ValidatedTrajectoriesSpan`,
  `OnlyFailuresRaise`.
* **Compute targets** (`ComputeTargetInv`, `ComputeTargetProofs`).  For any grid points,
  step, rounding of the last multiple, profiles, outcomes of the solvers and any number
  of kills.  `SolveInv`: a field that the full solve hands on is genuine, and one that
  did not settle has used up its sweeps.  `Sound` says what an object with a result is
  before it is stored, `RowSound` what a row is, and `Done` which kinds are stored as a
  success, for good: prunes and restarts take no kind out of it.  Proxies carry samples
  of kinds in `Done` only (`Handed`), which is why a path of a CF and the seed of a GCI
  rest on stored successes (`SuccessAlwaysOnSuccess`).  `OnTurn`: the kind at work has
  one validated row at most, which is the object's own, so that the lookup of a fetch
  finds it and no other (`FetchAlwaysGivesTheResult`).  `ValuesAlwaysWhereComputed`
  rests on `SampleRange` and `OutputIsPrefix`: of the driver's samples only the last can
  lie beyond `N_total`, so that the worker leaves out no other and pairing by position
  is right.  Both argue about the least point at which they would fail.
* **Compute targets: profiles and ends** (the same module).  `MassesFollowRadii` speaks
  of what is stored or fetched, whatever the profile.  The samples of a compaction
  function are sorted by scale, so each place in the order is taken by one sample
  (`EveryPlaceIsTaken`) and the scales ascend with the places (`ScalesAscend`).  A peak
  that has a mass is a sample at or above the threshold, hence not beyond the outermost
  one that is, and as masses grow with radii it is not heavier (`Extremes`,
  `RadiiFollow`).  That a stored row keeps it is part of `Sound` and `RowSound`.
  `EndpointsAreKeptIfClear` is the other half of the finding of section 4: where
  `N_total` is a multiple of the step, as floats, or further above the last one than the
  rounding that the filter allows for (`Clear`), no stored instanton of the three kinds
  stops short of it, in whichever way its columns were put together (`SamplesReach`).
* **Shooting solver** (`ShootingSolverProofs`).  `SolverInv`: types (`Typed`), points
  between which the search moves (`Inside`, from the convexity of the corridor:
  `HalfStaysInside`, `ClampIsInside`), whose evaluation is carried (`Carried`), and
  success at the current point (`Safe`).  `CorridorSafety`, `PendingSafety`,
  `OuterSafety` follow, for every residual map, corridor and tuning.
* **Gradient-coupled solver** (`PicardSolveProofs`).  `PicardInv`: one evaluation at a
  time, at the lam that the loop asked for (`Evaluation`), grids that belong to the
  current lam wherever an iteration may commit or carry them over (`Carried`), the
  search inside of the corridor if the seed was (`Inside`), and how the counts and flags
  stand to the end that was come to (`Story`).  `ConvergedAlwaysHangsTogether`,
  `WarmStartIsAlwaysOwn`, and `ReasonIsAlwaysTrue`: the label is inferred afterwards from
  flags that three loops have set, and `Story` is what makes the inference right.
* **Registered run** (`RegisteredRunProofs`).  For any number of signals and any failing
  writes.  That the record agrees with the exit says nothing about the steps before it,
  so `RunInv` adds how far an interrupting handler is (`Framed`), that the latch and the
  decision exclude each other (`Decision`, where the order of the test and the
  assignment in `decide` matters), which handlers are whose at each place of the start
  (`Beginning`) and which can be installed together (`Handled`), what holds of every
  run, attached or not, while the writes succeed (`AnyRun`), what the record is while
  the latch is set (`RecordInv`), and what each place after main.py's end has
  established (`ProgressInv`).  One lemma for each action; `RecordTellsExitAlways` and
  `RecordStandsAlways`, of every run, and `SignalDecidesExitAlways`, whose second half
  is of armed runs, follow.
* **Its stream** (`RegisteredStreamProofs`).  For any two scripts and an exception at any
  point.  `Balanced` is the argument: what the real stream has and the copy has not is,
  piece by piece, what was cut off (`lost`) and what the two threads are in the middle of
  printing; `Orderly` is why the exit marker finds nobody in the middle.
  `CopyIsAlwaysComplete` follows.  `Exclusive` is the lock: one thread at most is past the
  copy.  `HeartbeatIsAlwaysFresh` comes from it and `Fresh`, which says the same of the
  time of the last line.

The runs check the properties that these theorems state, not all of the inductive
invariants themselves; `ValidatedRowsStay` (`RowsStay`) is proved only, the run has the
ledger for it.

Only model-checked:

* liveness (`EventuallySettles`, `RunsEnd`, `StageEnds`, `SolveEnds`,
  `EventuallyRecorded`), which needs ENABLED and fairness and is out of the prover's
  reach;
* `DesignCampaign`, whose samples are selected and sorted with operators the prover
  knows only by name;
* `StoreComparison`, which follows the code in its recursive `Identity`, in a module the
  prover cannot work in.

## 6. Not modelled

* Floating-point physics, collocation, quadrature, splines: outcomes are choices.
* raypoolkit and datastorekit: assumed to run an actor's calls one at a time, to keep
  the order of a sharded lookup's results, to write each replicated row to one shard
  after the other, and to call the handlers as their users rely on.  The shard a row
  goes to is not distinguished where nothing depends on it.
* The command line, fingerprints, authentication, the description of a run's scope.
* The inventory report, the schema snapshot and the diagnostics, which read and print.
* Of plotting: drawing, stability sweeps, value futures, file names.
* Of the gradient-coupled solver: the right-hand sides, the reduction mode without
  spatial coupling (tests only) and the Anderson mixer (never enabled).

## 7. Plan

Done, in this order: the store; the unified pipeline with its ledger and proofs;
the staged run; the registered run and its stream; the shooting solver with its
proofs; the gradient-coupled solver; the trajectory stage with the token tables; the
compute targets with their tables; the sampling design, the grid and the plotting
pass; the comparison of stores; the proofs of the registered run and its stream, of
the pipeline's regular ends, of the gradient-coupled solver, of the staged run, of the
trajectory stage with its tokens and grids, and of the compute targets with their
profiles and endpoints.

Next: `PointsMeetTheDesign` and `SettledPointsAreShown` of `DesignCampaign`.
Then, the model: the value futures of the plotting drivers, and the placement of rows
on shards where a store is opened with another number of them.

# Interrupted runs, shared sweeps and hidden-law games

The repository trains agents whose learned goal is underdetermined by their
training signal, and measures what they do where two candidate goals come apart.
Its claims rest on evidence that long runs leave on disk, so most of its code that
has *state* is about evidence: how a run is executed, killed, relaunched, resumed
and sealed; how a sweep hands runs out and what its runs share; how an interactive
game and its transcript are kept in agreement. That is what is specified here.
The numerical part (models, losses, optimizers, statistics) has no TLA+ in it: an
update or an evaluation appears as what it leaves in files and in memory.

1. [Inventory](#1-inventory)
2. [Modules](#2-modules)
3. [How the modules correspond to the code](#3-how-the-modules-correspond-to-the-code)
4. [Runs and bounds](#4-runs-and-bounds)
5. [Fairness](#5-fairness)
6. [What is proved](#6-what-is-proved)
7. [Where the code and its own words differ](#7-where-the-code-and-its-own-words-differ)
8. [What is not modelled](#8-what-is-not-modelled)
9. [Plan](#9-plan)

## 1. Inventory

Paths are below `src/src/`, the packages of the repository. "Hard" is what a unit
test hardly reaches; `PROJECT.json` lists each such place at its line, with the
properties that cover it.

### ForkWorld (`forkworld/`)

| Part | State | Operations | Hard | Right when |
|---|---|---|---|---|
| Run store and execution (`artifacts.py`, `runner.py: execute_one`) | one run directory: configuration, metadata, status, two append-only streams, checkpoints, summary, `COMPLETE` | skip, reset, write, append, save, finalize, fail | a kill between two unlinks or inside an append; `COMPLETE` is trusted unseen by every later launch | `COMPLETE` stands over the whole evidence of one attempt; launching again completes the run |
| Sweeps and navigators (`runner.py: planned_runs, run_experiment`, `navigation_support.py`) | the plan, a process pool and its futures, two navigator checkpoints shared through the artifact root | shard, submit, execute, collect, cancel; pretrain, save, load | shards race on the navigators; `cancel()` does not reach what was handed out; a dead worker breaks the pool | shards partition the plan; results are of what ran; a sweep ends; runs are evaluated with the navigators they ask for |
| Protocols and phases (`protocols*.py`, `handoff.py`, `q_pathway.py`, `multigoal_dynamics.py`) | model, optimizer and sampler handed from phase to phase | one function per experiment | what a phase inherits and what it resets | a counterfactual pair differs in its treatment only |
| Data, orders, noise (`data.py`, `evidence_order.py`, `counterbalanced_order.py`, `competing.py`, `noise.py`, `routeworld.py`, `envs.py`) | none | datasets and schedules from seeds | balance at odd sizes | schedules contain each item as often as promised |
| Training, models, metrics (`training.py`, `models.py`, `metrics.py`) | parameters, optimizer | an update, an evaluation, event times | censoring: the window after an acquisition | an event is confirmed, or the run is censored |
| Configuration, CLI, analysis, launch guard | none | expand, validate, report, compare | a sweep axis over what is read from the base configuration | - |

Execution reads the configuration, calls a protocol, appends its rows, saves
checkpoints, evaluates each level with the navigator of that level and
finalizes. Several processes of one pool, several shards on several hosts and
later relaunches meet in the file system only.

### GoalZendo, known law (`goalzendo/`)

| Part | State | Operations | Hard | Right when |
|---|---|---|---|---|
| Run (`artifacts.py`, `experiment.py`, `training.py`, `runner.py: run_one`) | run directory with manifests, two streams, checkpoints, pointer, weights snapshots and index, retirement marker, seal; hook state in memory and in the checkpoint | initialize, record, evaluate, checkpoint, snapshot, restore, retire, finalize, fail | rows already durable are replayed; retirement removes the only checkpoint before the seal exists | what is sealed verifies, is complete, has each row once, and is of one trajectory |
| Plans, G00 gate, guards (`runner.py`, `analysis.py`, `reproduction.py`) | plan, gate evidence, a cache of what was replayed | shard, check, execute, isolate failures | a cached verdict about evidence that changes | no run is launched that its gate forbids |
| Game and evaluation (`schema.py`, `rules.py`, `generation.py`, `rendering.py`, `interventions.py`, `evaluation.py`, `metrics.py`) | none | generate, render, score | - | - |
| Modelling, configuration, plots, CLI | model | numerical | - | - |

### GoalZendo, hidden law (`goalzendo_hidden_law/`)

| Part | State | Operations | Hard | Right when |
|---|---|---|---|---|
| Store and condition runner (`artifacts.py`, `runner.py`) | condition directory: manifests, three streams, checkpoints, pointer, status, summary, `completion.json`, `COMPLETE` | initialize, open and truncate the streams, train, append, save, finish, retire | training replayed from a checkpoint need not repeat what was lost; the seal attests files that are still written | a sealed run is one trajectory with exactly its evidence, and verifies |
| Game, decisions, modelling, evaluation | model | numerical | - | - |

### Interactive game (`goalzendo_interactive/`, `goalzendo_interactive_v2/`)

| Part | State | Operations | Hard | Right when |
|---|---|---|---|---|
| Game (`environment.py`, `transcripts.py`, `episodes.py`, `rollouts.py`, `query.py`, `catalog.py`, `trajectory_banks.py`) | the transcript's events, the environment's state, its version space | a test, a readiness, an answer, an abort; replay; the reference player | three components count the same moves on their own; a cut-off search is called an exact certificate | the space is what the evidence leaves; no play raises; every game ends; withheld scenes come last |
| Episode construction, partitions, banks, leakage audits | none | deterministic searches | - | - |
| Rules, rendering, action language, tokenization | none | text in and out | - | - |
| Authenticated runtime (`authenticated_*`, `sealed_runtime_v1.py`, `streaming_*`, `policy_randomness_v2.py`) | model, optimizer, update lease, manifests, corrupt flag, random streams | lease, step, roll back, publish | a failure after the optimizer has stepped | an update is published whole or not at all, or the runtime is marked corrupt |
| Census and nested-opening execution (`*_execution.py` of v2) | three processes, pipes, one deadline, receipts | claim, watch, work, verify, commit, fail | a deadline signal between two durable writes | one verdict, and the receipts agree with it |
| v2 designs, audits, exact ceilings | none | dynamic programs, audits | - | - |

### Gates, coordinator, operations

The G00-E and G00-F bridges and the H200 qualification are chains of digest
comparisons over frozen inputs. The G01 coordinator declares itself
non-executable: every entry of its lifecycle refuses. Launch scripts, supervisors
and watchdogs under `runs/` are the environment that relaunches runs. Reports,
figures, configurations and documentation have no behaviour of their own.

## 2. Modules

| Module | Models | With |
|---|---|---|
| `ResumableTrajectory` | what a resumable run promises: one trajectory, only extended, complete when sealed | abstract specification |
| `HiddenLawRun` | one hidden-law condition directory and its processes | implements `ResumableTrajectory` |
| `HiddenLawRunProofs` | theorems about it | EXTENDS `HiddenLawRun` |
| `GoalZendoRun`, `MCGoalZendoRun` | one known-law run directory and its processes, on one of several kinds of machine | implements `ResumableTrajectory` |
| `GoalZendoRunProofs` | theorems about it | EXTENDS `GoalZendoRun` |
| `ForkWorldRun`, `MCForkWorldRun` | one ForkWorld run directory and its processes | |
| `ForkWorldRunProofs` | theorems about it | EXTENDS `ForkWorldRun` |
| `ForkWorldSweep`, `MCForkWorldSweep` | sweeps over one artifact root; a run directory is complete or not | above `ForkWorldRun` |
| `ForkWorldSweepProofs` | theorems about it | EXTENDS `ForkWorldSweep` |
| `ZendoQuery` | version spaces, questions, the minimax certificate | pure operators |
| `ZendoGame`, `MCZendoGame` | an episode, the environment, the transcript, rollouts, the reference player | EXTENDS `ZendoQuery` |
| `ZendoQueryProofs`, `ZendoGameProofs` | lemmas about questions; theorems about the game | |
| `ExecutionVerdict` | what the root of a registered execution promises: decided once, complete only over a sound report, then final | abstract specification |
| `GuardedExecution` | controller, watchdogs, workers, their pipes, the deadline, a root up to the committed report | what the two lifecycles share |
| `NestedExecution` | the nested-opening lifecycle: how it seals or fails a root | EXTENDS `GuardedExecution`, implements `ExecutionVerdict` |
| `NestedExecutionProofs` | theorems about it | EXTENDS `NestedExecution` |
| `CensusExecution` | the older census lifecycle | EXTENDS `GuardedExecution` |
| `AtomicStep` | the update lease, the optimizer step with its rollback, and readers beside it | |
| `AtomicStepProofs` | theorems about it | EXTENDS `AtomicStep` |

Every definition that stands for code has its source lines in `PROJECT.json`
under `map`. Definitions marked "Mutation" are plausible bugs; each property of a
passing run is violated by one of them under the run's own configuration.

## 3. How the modules correspond to the code

### HiddenLawRun

*State.* `files` is what exists in the directory, `rows` and `tail` the streams
(a tail is clean, or a partial row ends it), `saved`, `litter` and `latest` the
checkpoint directory, `status`, `summary`, `completion` and `seal` the last four
files. `pc`, `cursor`, `step`, `lineage` and `latestEvaluation` are the process.
Every row, checkpoint and summary carries the *attempt* that computed it:
`lineage[s]` is the attempt that made update `s`. A replay is not assumed to
compute what the lost computation did, so two attempts are never the same.

*Actions.* One per durable write, because a kill may fall between any two:
`InitializeNew` .. `InitializeComplete` (`HiddenLawRunStore.initialize`, the launch),
`OpenSink` (`_RecordSink`), `WriteBankManifest`, `WriteModelManifest`, `Restore`
(`load_latest_checkpoint` and the sink's truncation to the checkpoint's step),
`Train`, `AppendRows` / `AppendInterrupted` (`append_jsonl`), `RowsWritten`,
`SaveFile`, `PointLatest` (`save_checkpoint` and its pruning), `WriteSummary`,
`WriteFinalStatus`, `Attest`, `AttestRaises`, `WriteComplete` (`finish`), `Retire`.
`Crash` kills the process; `Fail` is an exception caught by `execute_condition`,
which also writes `status.json`.

### GoalZendoRun

*State.* `disk` is the run directory as one record, `mem` the process (step,
lineage, the hooks already emitted, where it started), `pc`, `attempt`, and the
`machine` the run is executed on, the same for all its processes. A stream is the
set of its entries, a row and the append that wrote it, with how it ends (`tail`) and
the entry that lacks its newline (`last`). Of the order of rows only what a killed
append may leave matters: the rows before some point of its batch (`Before`,
`Prefixes`).

*Actions.* `Initialize`, `RecordManifests`, `Restore` or `Recover` (the run was
retired but not sealed), the hooks of a step, `AppendMetrics`, `AppendPredictions`,
`Evaluated`, `WriteSnapshot`, `WriteIndex`, `SaveFile`, `PointLatest`,
`PruneSuperseded`, `Checkpointed` (`ScheduledHooks` and the two hooks of
`GoalZendoExperiment.run`), `Train`, `CollectRows`, `BuildResult`, `WriteRetired`,
`RemovePointer`, `PruneRetired`, and `finalize`'s four writes. The difference to
the hidden-law store is the point of the model: nothing is truncated on resume;
rows whose `record_id` is already durable are skipped. A machine says whether a
replay computes the same content (`train.deterministic_algorithms` decides it), how
the last row of a killed append may end, and whether the summary holds the peak
memory of CUDA.

### ForkWorldRun

*State.* `file[f]` is the attempt that wrote file `f`, `rows` and `broken` the
streams, `state` the status; per worker `pc`, `cursor`, `force`, `me`.

*Actions.* `Launch`, `Check` (the `COMPLETE` test of `execute_one`), `Begin`,
`Reset` (one unlink per step, in `initialize`'s order), `Prepare`, `AppendRows` /
`AppendInterrupted`, `SaveCheckpoint`, `Finalize` (three writes), `Raise` and `Fail`
(`store.fail`), `Crash`.

### ForkWorldSweep

*State.* `navigator[l]` is the request that the checkpoint of level `l` answers,
`complete` the pairs with `COMPLETE`, `evaluated` the navigator each pair's
navigation metrics are of; per sweep `pc`, `level`, `future`, `results`.

*Actions.* `Ensure`, `Pretrain`, `Save`, `SameLevel` / `NextLevel`, `TrainingFails`
(`ensure_navigators`), `Submit`, and then pool and coordinator interleave:
`HandOut` (the call queue of `ProcessPoolExecutor`, external, modelled as
`run_experiment` uses it), `Start`, `Evaluate`, `Finish`, `Die`, `Collect`,
`CollectError`, `CollectedAll`, `Leave`. With one job the same actions run one
after the other, as the serial branch does.

### ZendoQuery and ZendoGame

A scene is an element of `Scenes`. The catalog keeps one rule per truth vector, so
a rule *is* the set of scenes it accepts, and a version space a set of rules.
`FeasibleDepths` is `exact_minimax_identification_depth` with its cut-offs, the
memoised `feasible` a function of depth and space whose value is `SearchStep`;
`IdentifiableDepths` is what it claims to compute.

*State.* `episode`, who plays, `env` (the transcript's events, the state, the
space), the `turns` so far, `pc`.

*Actions.* `Sample` (the policy emits any text: an action or none),
`PolicyAborts`, `Record` (the loop of `collect_rollout` has ended: abort, replay,
record checks), `ReferenceTests`, `ReferenceReady`, `ReferenceAnswers`,
`RecordReference` (`play_reference_episode` and its record). Inside a step
`Consume` is the environment, `Recount` the transcript's own recount,
`Lawful` the validation of metrics, score and transcript, `Replayed` the replay, `ValidRecord` the record's checks;
where one of them would raise, `pc` becomes `"raised"`. The hash that breaks ties
between equally good questions is any of them.

### GuardedExecution, NestedExecution, CensusExecution

*State.* `root` says of each artifact whether it is absent, partial or whole in the
directory, `durable` which of these states are on the disk; `report` whether the
builder derived a right report. `controller` is where the controller is (a
receipt's name while it writes it), `watchdog` and `worker` hold one process per
stage. The pipes are what the code uses them for, the end of file that says that
somebody is gone: `held` are the death pipes the controller keeps open, `copies`
the child's ends it has not closed yet after the spawn.

*Actions.* Controller: `Claim` .. `UnlinkDurable` (`_execute` of either module, one
action per call that waits, writes or syncs), `StageFails` .. `Drained`,
`Interrupted` and `Alarm` (the handlers and the timer), `CleanUpInterrupted`.
Watchdog: `StartWorker` .. `EmitTerminal`. Worker: `StartGuardian`, `WorkerGuardian`
(the thread that waits for the guard pipe), `SpoolReport`, `FinishWork`, `WorkFails`.
Environment: `DeadlinePasses`, kills of each process, `PowerFailure`, after which an
artifact that was not durable is what it was, partial, or gone. `NestedExecution`
adds the blocked signals, `Admit`, the completion receipt, the last deadline test
and replay, and what a failure does to a root that may hold a receipt already.
`CensusExecution` adds its own, shorter end. A digest comparison is a refusal that
may happen anywhere (`Interrupted`, `SealFails`); the production entry of the nested
lifecycle refuses to run, so what is modelled is its engineering entry.
`_start_parent_guardian` of that module is never called; the guardian that is
modelled is the one the bootstrap of a worker starts.

### AtomicStep

*State.* `bytes` and `version` are the parameters and their in-place mutation
counters, `kernel` the parameter that is written but not yet counted (PyTorch's,
external: an in-place kernel writes with the GIL released, and the counter is advanced
when it has returned; `optimizer.step()` and the `copy_` of the roll-back hold no lock
of a provider meanwhile); `provider`,
`manifest`, `active`, `corrupt`, `depth` the sealed runtime and the reentrant lock;
`step` and the variables of the attempt are the trainer; `reader`, `handle`, `seen`,
`unseen` the threads that ask. New values of step *n* are written *n*, so a policy
is a function from parameters to steps, and a mix of two policies shows.

*Actions.* `Begin`, `Check`, `Lease` (`_begin_authenticated_update`), `Backward` (the
callback), `Snapshot` (the recovery copy), `Mutate`, `StepParam` (`optimizer.step()`, one
parameter at a time: the code insists on `foreach=False`), `CountWrite`, `ZeroGrad`, `Prepare`, `PublishProvider`, `PublishManifest`,
`Retire`, `Deactivate`, `Release`, `Done`; and the handler: `ClearGradients`, `Recover`,
`RestoreParam`, `Verify`, `MarkCorrupt`. Each may fail; `KeyboardInterrupt` may strike
between any two, in the handler too (`requires-python` is 3.10 or later; Python
runs a signal handler between bytecodes, hence not while a kernel runs). A reader takes the
provider under the runtime's lock (`Fetch`) and then uses it without: `Ask`, `Look`, `Read`,
`Look` again (`Proceed` from one to the next). That is `next_token_logits` and
`full_forward_logits`. When it has read what it wants it may have the provider
authenticated in full, which ends in one more look: `Authenticate`, `Look`, `Hash`, `Look`.
That is `AuthenticatedIncrementalCacheProvider.reauthenticate_policy_state`, with which a
sampler closes a group. The streaming objectives (`_provider_bindings`,
`execute_verified_streaming_backward`) do the same, under the trainer's lease. An
authentication before the reading is left out: a reader of the model starts with less.

Half-written bytes count as the new ones, and the several kernels AdamW runs on one
parameter as one, since the first that is counted spends every guard. On CUDA a write
happens, for a reader on the same stream, when it is enqueued, which is also before the
counter moves.

## 4. Runs and bounds

| Run | Bounds | Shows |
|---|---|---|
| `hidden_law` | 4 steps, evaluations at 0, 1, 2, 4, checkpoints at 2, 4, 3 interruptions; 92 220 states | see below |
| `forkworld_run` | one worker, 2 checkpoints, both streams, 3 attempts, forced or not; 1 653 states | see below |
| `forkworld_forced` | one checkpoint, 2 attempts | `CompleteIsWhole` is violated |
| `forkworld_sweep` | 2 shards of 3 pairs, pools of 2, fail-fast, one pair may fail, 1 dead worker; 18 274 states | see below |
| `forkworld_navigators` | 2 sweeps of one run each, different requests, 1 job | `EvaluatedAsRequested` is violated |
| `goalzendo_run` | two machines, 4 steps, evaluations at 0, 1, 3, 4, checkpoints at 1, 4, snapshots at 1, 3, 4, 3 interruptions; 602 407 states | see below |
| `goalzendo_peak` | 2 steps, CUDA, 1 interruption | `RunIsSealed` is violated |
| `zendo_game` | 32 scenes, 68 rules, 3 episodes, 3 tests; 30 495 states | see below |
| `zendo_reference` | one episode, depth 5, 6 tests | `ReferenceIsRecorded` is violated |
| `nested_execution` | no bounds: any number of kills and power failures; 6 162 states | see below |
| `census_execution` | no bounds | `ReceiptsAgree` is violated |
| `atomic_step` | 2 parameters, 1 reader, 2 attempts, 1 interrupt; 1 301 028 states | see below |

**hidden_law.** `SealedTrajectory`: the sealed streams hold exactly the expected
rows, each once and unbroken, all of the one trajectory whose model was kept.
`SealedSummaryIsDurable`: the summary is of an evaluation that is in the sealed
metrics, although a resumed attempt may have evaluated nothing itself.
`SealVerifies`: nothing attested is written again. `CheckpointCoversEvidence`: the
pointer never names a missing file, and the rows it stands for are there.
`CommittedTrajectory`: the refinement of `ResumableTrajectory`.
`InitialisedRunIsSealed`: liveness. Four steps give a step before, between, at and
after a checkpoint; three interruptions let a resumed attempt be interrupted at
the same place, once after and once before the next checkpoint.

**forkworld_run.** `CompleteIsWholeOrEmptied`: under `COMPLETE` lies the whole
evidence of one attempt, or the directory is being emptied by a forced launch.
`CompletedRunIsKept`: an unforced launch leaves a completed run alone.
`RunCompletes`: liveness. Whatever is interrupted, a directory without `COMPLETE` leads
to one that holds the whole evidence of one attempt. It promises nothing for the emptied
directory that a forced launch leaves when it is killed before it unlinks `COMPLETE`:
that one is never completed unless forced again (section 7, 1). Three attempts are one that leaves anything at all
behind, one that is interrupted in clearing it away, and one that completes.

**forkworld_sweep.** `RunHasOneOwner` and `ShardsCoverThePlan`: shards partition
the plan. `ResultsAreTrue`: outcomes collected in any order are those of the pairs
they name, once each.
`EvaluatedAsRequested`: with equal requests, whichever shard's navigator is on disk
is one that was asked for. `SweepEnds`: liveness, with a dead worker and failing
pretraining. The shards
have two runs and one, and any subset of them may be complete beforehand. The
pool's queue thread may lag behind, so pending, queued and running futures coexist
although two workers could take all; a call queue that is full (it takes six runs
of one sweep) only delays `HandOut`, which may be delayed anyway.

**goalzendo_run**, on an exact machine and on one with CUDA whose replays differ
and whose appends are cut off at any byte: `CheckpointIsGood` (the pointer names a
readable checkpoint whose hook state claims exactly what is durable; the durable
half where `TailsAreSafe`, as on both machines, see section 7),
`SnapshotsAreOneModel` (snapshots and index of a complete run are of the model
that was retired), `EvaluationsAreComplete` (a complete run can be read and holds
every evaluation, once if replays are exact), `CommittedTrajectory` (the refinement
of `ResumableTrajectory`), `RunIsSealedOffCuda` (liveness). The step between the
first snapshot and the last checkpoint carries a snapshot but no checkpoint, so an
interruption after it makes a replay write the snapshot anew; three interruptions
are one before the checkpoint, one after it and one during retirement.

**zendo_game**, for any policy: `VersionSpaceIsExact` (the space is what opening
and tests leave, the target among it), `NeverRaises` (environment, transcript,
replay and record never disagree), `LoopNeverRunsOut` (a game is over when the
rollout's turns are), `ReferenceWastesNoTest` (each test of the reference player
tells surviving rules apart), `MinimaxIsExact` (the cut-offs lose no depth),
`TerminalKoansComeLast` (once a withheld scene is shown, nothing is tested). Both
regimes and both kinds of terminal occur; every scene has a twin, so a question can
be asked that tells nothing apart; three tests with five turns are the code's six
with eight in small, so the last test, the test too many and the last turn occur.

**nested_execution.** `CompletionIsEarned`: a completion receipt, even a partial
one, only ever lies in a root whose receipts and report are whole and durable,
whose spool is gone from the disk, that has no failure receipt, whose report is
the one a fresh process derived again, and that nobody writes to any more.
`VerdictIsFinal`: the refinement of `ExecutionVerdict`. `NoOrphans`: when the
controller is gone, killed or not, all processes end without the deadline's help.
`DeadlineEndsTheRun`. The model has no bound: there is one root, each artifact is
written once, and kills may come in every state.

**atomic_step.** `ServedPolicyIsLive`: what lock and flags let through is a provider
and a manifest of exactly the parameters in the model. `AnswersAreOnePolicy`: what a
reader has read and then authenticated in full was read from one policy, its
provider's, although the trainer does not wait for readers; an answer that has passed
the two looks alone may contain one parameter of another policy, that of a kernel under
way, and no more than one. All three parts are needed: without the look after the
forward pass two parameters may differ, without the hash the kernel's one is accepted,
and without the look after the hash a step that is rolled back between look and hash is
accepted (the mutant). `RaisedStepIsUndone`: a failed step that was not interrupted
has restored model and service, or the runtime is corrupt. `LeaseIsReturned`:
liveness. Two parameters make a mixed policy visible; two attempts let a reader
that fetched before the first one read after the second.

## 5. Fairness

- The three run models assume that a run which is not sealed is launched again and
  that a process that is alive goes on: weak fairness of *launch or step*. Kills
  are bounded by `MaxInterruptions` or `MaxAttempts` and never fair. `runs/` holds
  the supervisors that relaunch; the code offers resumption for exactly this use.
  `ForkWorldRun` has the fairness per worker.
- `ForkWorldSweep` has it per sweep and for the part (prepare, pool, coordinate):
  a pool's workers and the coordinator are processes of their own, and a future
  that was handed out is executed whether or not the coordinator moves. Deaths are
  not fair.
- `NestedExecution` assumes that the controller goes on, that a watchdog and the
  guardian thread of a worker act on what they can see, and nothing of what a
  worker computes or of the deadline: it need not pass. Kills are not fair.
- `AtomicStep` assumes that the trainer's thread goes on once it has begun a step. In
  the code that takes more than its own scheduling: every use of a provider holds that
  provider's own lock, which is not modelled, and the trainer uses the published
  provider too (to reauthenticate it before and after the lease, in its replay, to
  publish it). So it waits for a reader that is inside a call, and the fairness assumes
  that such calls end. Nobody waits in a circle: a reader inside a call takes no
  further lock, and the trainer takes the runtime's lock before a provider's, never the
  other way round. A trainer need not begin a step and a reader need not ask.
- No liveness is claimed of the game: a policy may take any time for a turn. That
  a game is over within its turns is a safety property.

## 6. What is proved

For every value of the constants that the named assumptions admit.

| Theorem | Property | Module |
|---|---|---|
| `TypeCorrect` | `TypeOK` | `HiddenLawRunProofs` |
| `SealedRunIsOneTrajectory` | `SealedTrajectory` | |
| `SealedSummaryIsInTheMetrics` | `SealedSummaryIsDurable` | |
| `SealedRunVerifies` | `SealVerifies` | |
| `CheckpointIsCovered` | `CheckpointCoversEvidence` | |
| `ImplementsTrajectory` | `CommittedTrajectory` | |
| `RunTypeCorrect` | `TypeOK` | `GoalZendoRunProofs` |
| `SnapshotsAgree` | `SnapshotsAreOneModel` | |
| `CheckpointGood` | `CheckpointIsGood` | |
| `EvaluationsComplete` | `EvaluationsAreComplete` | |
| `ImplementsTrajectory` | `CommittedTrajectory` | |
| `SearchIsExact` | the pruned minimax search, of every version space | `ZendoQueryProofs` |
| `GameTypeCorrect` | `TypeOK` | `ZendoGameProofs` |
| `SpaceIsWhatTheEvidenceLeaves` | `VersionSpaceIsExact` | |
| `EightTurnsSuffice` | `LoopNeverRunsOut` | |
| `KoansAreShownLast` | `TerminalKoansComeLast` | |
| `ReferenceIsEfficient` | `ReferenceWastesNoTest` | |
| `NothingRaises` | `NeverRaises` | |
| `CertificatesAreExact` | `MinimaxIsExact` | |
| `OnlyTheDoublesDisagree`, `ReferenceFindsAQuestion` | | |
| `RunTypeCorrect` | `TypeOK` | `ForkWorldRunProofs` |
| `CompleteStandsForEvidence` | `CompleteIsWholeOrEmptied` | |
| `CompletedRunStays` | `CompletedRunIsKept` | |
| `SweepTypeCorrect` | `TypeOK` | `ForkWorldSweepProofs` |
| `OwnerIsUnique` | `RunHasOneOwner` | |
| `OutcomesAreTrue` | `ResultsAreTrue` | |
| `PlanIsCovered` | `ShardsCoverThePlan` | |
| `NavigatorsAreRequested` | `EvaluatedAsRequested` | |
| `TypeCorrect` | `TypeOK` | `NestedExecutionProofs` |
| `EarnedCompletion` | `CompletionIsEarned` | |
| `ImplementsVerdict` | `VerdictIsFinal` | |
| `TypeCorrect` | `TypeOK` | `AtomicStepProofs` |
| `ServedPolicy` | `ServedPolicyIsLive` | |
| `RaisedStep` | `RaisedStepIsUndone` | |
| `OnePolicy` | `AnswersAreOnePolicy` | |

**HiddenLawRun**, from `HiddenLawConstants` (any number of steps, any schedules
within it that evaluate at the end, any number of interruptions). None of the
properties is inductive: that a sealed run is one trajectory is decided long
before the seal. The invariant is `IInv`:

- *directory*: `CheckpointInv` (a pointer names a saved checkpoint whose lineage is
  complete to its step, and evidence up to that step is of that lineage),
  `UniqueInv` (no stream has two rows of one id), `UnbrokenInv` (no row is ever
  glued to the remains of another), `RootInv` (whatever exists is in the run
  directory);
- *process*: `IdleInv`, `LineageInv` (the updates in memory extend the
  checkpoint's), `RowsInv` (at each point of a step, which of its rows are
  durable, and that all beyond the checkpoint are of this attempt),
  `EvaluationInv` (the evaluation in memory is of a row in the metrics),
  `FinishInv` (between summary and seal everything attested is in place);
- `SealInv`: a sealed directory has the three properties, and its process can only
  retire checkpoints or be gone.

`Invariance` shows it kept by each action, one step per action and under it one
per part the action can disturb; the properties follow from it, and so does that
every step is a step or a stutter of `ResumableTrajectory`, whose history is the
lineage of the checkpoint, or of the summary once sealed.

**GoalZendoRun**, from `GoalZendoConstants` and `NoneIsNothing` (any number of steps,
any evaluations that include the first and the last step, any checkpoints and
snapshots among them that `experiment.py` accepts, any machines, any number of
interruptions). Nothing is truncated on resume, so what a process finds is a mixture
of what several attempts left, and the invariant says which part of it is whose. It
comes in two halves, the second inductive relative to the first.

- `TrajectoryInv`, of the model. The hooks that a process has behind it are those of
  its step (`MemInv`, `PlaceInv`). `ContinuesInv`: a process that trains continues the
  checkpoint that is on the disk, and has made every checkpoint behind it itself.
  `SnapshotInv`: the snapshots and index entries behind it are of its own lineage,
  while those ahead of it may still be of an attempt that was lost; hence an entry
  must be *replaced*. `LatestInv`: those up to the checkpoint are of the checkpoint's.
  `RetiredInv`, `SealInv`: after retirement the marker takes the checkpoint's place.
  This half does not look at rows, and holds on every machine. From it follow
  `RunTypeCorrect`, `SnapshotsAgree` and the refinement, whose history is the lineage
  of the marker, else of the pointer. The refinement is stated for runs that have
  checkpoints: without any, a run is sealed with no history to be complete.
- `EvidenceInv`, of the rows. `ValueInv`: a row says zero on a machine that repeats
  itself, and otherwise no more than the number of the attempt. `UniqueInv`: no row
  is in a stream twice. `CleanInv`: without unterminated rows a stream ends in a
  newline while a process lives. `FullInv`: the evaluations of the checkpoint, and
  those the process has behind it, are durable in both streams. What endangers the
  last one is the repair, which takes a whole row together with the remains of the
  next if the row lacked its newline: `TailInv` says that such a row is beyond the
  checkpoint, and `OverwrittenInv` that a process which recomputed an evaluation has
  written something behind it, which is so unless the replay computes the same rows
  again. Hence the premise `TailsAreSafe`; without it `FullInv` is false (section 7).

**ZendoGame**, from `QueryConstants` and `GameConstants`. `GameInv`: the target
stays in the catalog, the environment is `Sound` (its space is what the evidence
leaves; during inquiry the events are tests only, fewer than the budget, and
nothing withheld has been shown; while an answer is awaited there are at most as
many events as the budget), and there are no more turns than events while the game is open. For the reference
player `ReferenceInv` adds that every recorded test was well spent. That the next
one will be is the interesting part: the question is the most balanced among the
scenes not yet *observed*, but the claim is about all rules that survive. The
lemmas: survivors agree on every observed scene, so an observed scene has balance
zero (`AgreementHasNoBalance`); two different survivors differ somewhere, so some
scene has positive balance (`SeveralRulesCanBeSplit`) and it is unobserved
(`BestOfTheUnseen`); a question of positive balance shrinks the space whatever the
answer (`BalancedQuestionNarrows`).

That nothing raises is about two loops over the events, the transcript's recount and
the replay, and needs no induction over sequences: the invariant `PlayInv` carries
what they compute, and an event more is a step more of each. `Counted(e, events, t)`
says that the loop's values over the prefixes of `events` exist and end in `t`
(`Redone` the same of the replay); `CountedAppend` extends them by one, `LoopsReturn`
reads the result off. The environment is `Confirmed` when the recount comes to its own
state, tests and evidence, the replay to itself, and metrics and scores are valid;
the policy's texts are `Aligned` with all events but an abort; the reference player is
`OnCourse`, never invalid, and its answer perfect. So the only exception left is the
comparison of two doubles at the end of a reference game (`OnlyTheDoublesDisagree`,
which makes the finding of `zendo_reference` exact). `NothingRaises` has the premise
that the doubles are equal for every number of tests or that no reference game is
played; `zendo_game` satisfies it. Beyond `GameConstants` nothing is assumed: that
openings and terminals consist of scenes is what `Observation` checks, that the
sizes are positive holds of the code's 10 and 2.

That the minimax search is exact is an induction over the depth. The library's
induction theorems take an operator as a parameter, which the provers cannot
instantiate, but that the order of the naturals is well founded is a statement about
sets: `LeastNatural` and `EveryNatural` follow, and with them everything below. A
search is a function of depth and space whose value is its step (`SearchStep`,
`TreeStep`) one depth below; that there is such a function is proved by extending it
depth by depth (`SearchExists`, `SearchAnswers`). `2 ^ n` is a number and doubles with
each step because it counts the subsets of `1 .. n` (`PowersOfTwo`). Then: a tree of
depth `d` tells at most `2 ^ d` rules apart, since its two halves do
(`TreesAreBounded`), so neither cut-off loses a tree and no depth below the bit length
has one (`BitLengthIsLeast`); and a question that splits nothing off, which the code
leaves out, is not needed, since what is identified at one depth is at the next
(`DeeperSearchesDoNotLose`). `SearchIsExact` states the result for every version space,
`CertificatesAreExact` for those of a game.

**ForkWorldRun**, from `ForkWorldConstants` (any checkpoints, levels, rows and
attempts). The type theorem is for any number of processes; the other two are for
one process at a time, `Workers = {o}`, because with two they are false (section 7).
The invariant `RunInv`: nothing exists before the directory (`RootInv`); only a forced
process is past the `COMPLETE` test of a completed run, and none is past the reset
(`GuardInv`); what the reset has been through is gone (`ResetInv`); from there on every
file and row is of the attempt that runs (`ConfiguredInv`, `RowsInv`, `CheckpointsInv`,
`FinalInv`), so that `COMPLETE`, the last write, stands over the evidence of one
attempt. The property itself is part of the invariant, since later launches find
what earlier ones left; its second disjunct is what the order of the unlinks may
leave of a run before `COMPLETE` is gone.

**ForkWorldSweep**, from `ForkWorldSweepConstants`. `SweepTypeCorrect` and
`OutcomesAreTrue` hold for any sweeps. The others name what they need of them:
`AreShards` (one number of shards, different indices), `AreAllShards` (and every
index, and no cap below the number of pairs), `AskTheSame` (one request). The
constants of `forkworld_sweep` satisfy all three; those of `forkworld_navigators`
do not satisfy `AskTheSame`, and there the property fails. `FuturesInv`: a sweep has
futures for its plan only, hence the one owner, and a future that says so is of a
complete pair. `CollectedInv`: a sweep leaves its loop with all it planned, or for a
failure. `NavigatorsInv`, `EvaluationInv`: from the moment a
level has been ensured, whatever replaces its checkpoint answers the common
request, so that what is loaded at the end of a run answers it too.

**NestedExecution** has no constants, so what the theorems add to TLC's verdict is the
argument. The invariant `IInv`: on the way to a completion receipt every artifact
but the one being written is durable or not begun (`ReceiptsInv`, `CommitInv`); a
watchdog that vouched for its worker did so for work that was done, and the verifier's
work is that the report is sound (`StageInv`, `WorkInv`); so whoever may find a
completion receipt, also one that was withdrawn and that a power failure brings back,
finds a root that has earned it (`CompletionInv`), and a failure receipt is only written
where none can come back (`FailureInv`). The refinement of `ExecutionVerdict` reads
the verdict off the two receipts.

**AtomicStep**, for any parameters, readers, attempts and interrupts. Two
invariants hold the proofs together. For the trainer: what step it is at decides
what the flags, the lock, the recovery copy and the published provider are, in
particular that a runtime that is neither being updated nor corrupt serves the
bytes it has. For a reader (`Watching`): counters only grow and no guard is ahead of
them, so a guard that is still true means that no write was counted since the provider
was issued, and what was seen wrong can only be what the one kernel has written that is
under way. After the forward pass this is at most one parameter. A hash that finds the
provider's bytes there says that the kernel the reader saw has been counted and undone
since, so the guard is spent, which the look after the hash sees; hence what is accepted
was seen right throughout. It needs that there is one kernel at a time (`Leased`).
`RaisedStepIsUndone` is stated of uninterrupted steps, and
needs that a failure without an interrupt always comes before publication.

**Checked by TLC only**: all liveness
(`InitialisedRunIsSealed`, `RunIsSealedOffCuda`, `RunCompletes`, `SweepEnds`, `NoOrphans`,
`DeadlineEndsTheRun`, `LeaseIsReturned`), which is beyond the prover as fairness and
ENABLED are.

## 7. Where the code and its own words differ

Five runs end in a violation; `PROJECT.json` quotes the lines.

1. *forkworld_forced.* Killed while `--force` empties a completed run, the
   directory keeps `COMPLETE` without its evidence and is skipped ever after.
2. *forkworld_navigators.* A run is evaluated with whatever navigator is on disk
   when it gets there, not with the one the sweep has compared with its request.
3. *goalzendo_peak.* On CUDA the summary holds the peak memory of the process that
   builds it; killed between summary and `COMPLETE`, every later one conflicts.
4. *zendo_reference.* A float is compared for equality with an exact fraction; for
   reference trajectories of five tests the two doubles differ. With the default
   depth of 4 such trajectories have not been met; with depth 8, which the
   specification of a bank admits, they are generated and the code raises.
5. *census_execution.* The deadline and the signals still strike after the
   completion receipt is durable. The handler then writes a failure receipt without
   looking at the root, and each of the two says that the other is absent. The
   nested lifecycle, written later, blocks the signals and withdraws or keeps the
   receipt it finds.

Met on the way, without a run of their own:

- Killed inside `initialize()`, a hidden-law directory looks initialised to the next
  launch, which then can never finish, although the module opens with "resume-safe
  artifacts" (`goalzendo_hidden_law/artifacts.py:1`); `InitialisedRunIsSealed`
  therefore starts after the last initial write.
- GoalZendo's optimization metrics of steps between a start and a checkpoint that
  are no evaluation steps live in memory until the end and are lost with the process.
- The step's contract is "byte-exact rollback or permanently corrupt sealed
  runtime" (`goalzendo_interactive/authenticated_step_v1.py`). `KeyboardInterrupt`
  breaks it: between the acquisition of the lock and the handler it leaves the lock
  held or `_update_active` set, and after publication the step raises although the
  new provider stays published. `RaisedStepIsUndone` and `LeaseIsReturned` say so in
  their premises.
- The two looks of a provider do not show a kernel of another thread that is under way
  (`AnswersAreOnePolicy`), and `AuthenticatedCausalLMProvider.reauthenticate_policy_state`
  alone, which its docstring wants "before and after each unchanged-policy eight-rollout
  group", ends with the hash: a roll-back between its look and its hash goes unseen. The
  look that is missing is made by its callers, all of those that have read answers. The
  repository's own programs sample and step in one thread, where none of this can happen.
- With two workers in one ForkWorld directory `CompleteIsWholeOrEmptied` fails (the
  code promises one process per run; `RunHasOneOwner` checks that shards keep to it).
- With a row cut off just before its newline `EvaluationsAreComplete` fails in
  `GoalZendoRun`, because the row parses, is neither completed nor removed, and the
  next append is glued to it. If that append is killed too, the repair of the next
  launch drops the one line that both have become. Where replays are exact the first
  of the two rows may by then be counted by a checkpoint, since the replay did not
  write it again: the run continues behind it and is sealed without that row. This
  is why `CheckpointIsGood` has the premise `TailsAreSafe`.
- With replays that differ a GoalZendo run is sealed with two values of one
  evaluation, since a row is recognised by its content.

## 8. What is not modelled

- *Power failures*, except in `GuardedExecution`: elsewhere a kill ends a process and
  what the page cache holds survives.
- *GoalZendoRun*: `run.resume=false`, the progress fields of `status.json`, errors
  while recording an error.
- *HiddenLawRun*: the execution smoke (one step, no evaluation),
  `select_condition`, `shard_plan`, provenance checks.
- *ForkWorldSweep*: forced sweeps, seed panels, a task that needs one navigator only,
  a sweep axis over `navigator.*`; `navigator.auto_pretrain=false` ends a sweep before
  its first run, as `TrainingFails` does.
- *GuardedExecution*: the preparation of plans and registrations, what the inventory
  compares beyond presence, and the verification of a finished root by a later
  reader. A reader may see a completion receipt that is whole but not yet durable
  and is withdrawn later. A receipt the disk has confirmed once is assumed to be
  confirmed again. A builder orphaned inside the spawn call may write its spool
  after the failure receipt, which the specification allows.
- *AtomicStep*: gradients and their plan, the sampler's random streams, what the
  manifests contain beyond the policy they bind, the lock of each provider (it makes
  readers of one provider take turns and the trainer wait for them where it uses the
  provider itself, so the model has more interleavings; kernels hold no lock).
- *ZendoGame*: grammar and rendering, prompt digests, token statistics; the
  dialogue's replay on every turn is folded into `Record`; the filter that drops
  trajectories which identified nothing is not applied, so more trajectories are
  recorded than the code would keep.
- *Parts*: everything in the inventory without a module; `PROJECT.json` names the
  reason for each. By far the most lines of the repository are of three kinds that
  have no behaviour to model: chains of digest and schema comparisons over frozen
  inputs (gates, freezes, qualification, registrations: each is a sequence of
  refusals without state), statistics and leakage audits over finished data, and
  numerical training. This is why the map covers a small share of the lines.

## 9. Plan

The order is by how much of the system's evidence depends on it.

1. *Done*: the three run directories with their abstract specification, the sweep,
   the game, the two execution lifecycles with theirs, the atomic step; the proofs
   of all of them but the liveness.
2. *Next modules*
   - `GatedPlan`: the G00 gate with its cache, hash shards, `execute_plan` with
     failure isolation, above `GoalZendoRun` as `ForkWorldSweep` is above
     `ForkWorldRun`.
   - `ForkWorldPhases`: handoff and hysteresis protocols as a phase machine.
   - Pure operators, each against its definition: the counterbalanced schedules,
     censored event times, navigation by breadth-first search, the reward-query
     dynamic program, the coordinator's schedule, policy randomness.
3. *Next proofs*: those of the next modules.

---------------------------- MODULE ForkWorldSweep ----------------------------
(***************************************************************************)
(* Sweeps over one artifact root: planned_runs and run_experiment          *)
(* (runner.py) with the process pool they submit to, and the navigator     *)
(* checkpoints that ensure_navigators, pretrain_navigator_suite and        *)
(* evaluate_task_levels (navigation_support.py) share through the root.    *)
(*                                                                         *)
(* Several sweeps run at once: the shards of one experiment, or different  *)
(* experiments.  A run directory is either complete or not; ForkWorldRun   *)
(* models what is inside.  A worker may die, which breaks its pool.        *)
(***************************************************************************)
EXTENDS Naturals, Sequences, FiniteSets

CONSTANTS
    Sweeps,         \* the sweeps that run at once
    Plans,          \* Plans[s]: its shard index and count, and its max_runs
    Pairs,          \* length of the expanded plan of (cell, seed) pairs
    Request,        \* Request[s]: the navigator its configuration asks for
    Old,            \* what a checkpoint of an earlier implementation answers
    Jobs,           \* --jobs; one job needs no pool
    FailFast,       \* --fail-fast
    MayFail,        \* pairs whose execution may end "failed"
    MaxDeaths,      \* bound on workers that die
    None

ASSUME ForkWorldSweepConstants ==
    /\ Pairs \in Nat /\ Jobs \in Nat \ {0} /\ MaxDeaths \in Nat
    /\ FailFast \in BOOLEAN /\ MayFail \subseteq 1 .. Pairs
    /\ \A s \in Sweeps : /\ Plans[s].count \in Nat \ {0}
                         /\ Plans[s].index \in 0 .. Plans[s].count - 1
                         /\ Plans[s].max \in Nat \ {0}
    /\ \A s \in Sweeps : Request[s] \notin {None, Old}
    /\ None \notin {"pending", "queued", "running", "cancelled", "raised", "broken",
                     "skipped", "complete", "failed"}

Levels == <<"fork", "navigation">>
Unevaluated == [fork |-> None, navigation |-> None]

VARIABLES
    navigator,      \* per level: the request its checkpoint file answers
    complete,       \* the pairs whose directory carries COMPLETE
    evaluated,      \* per pair: the navigator its navigation metrics are of
    pc,             \* per sweep
    level,          \* per sweep: the level being pretrained
    future,         \* per sweep and pair: its future
    results,        \* per sweep: the outcomes it collected, in order
    deaths

vars == <<navigator, complete, evaluated, pc, level, future, results, deaths>>

-------------------------------------------------------------------------------
(* planned_runs                                                            *)

\* Mutation: consecutive blocks, the last one too long.
InBlock(s, i) ==
    LET size == (Pairs + Plans[s].count - 1) \div Plans[s].count IN
    i > Plans[s].index * size /\ i <= (Plans[s].index + 1) * size + 1

\* Mutation: the shards counted from one.
InNextShard(s, i) == (i - 1) % Plans[s].count = Plans[s].index + 1

\* index % shard_count == shard_index
InShard(s, i) == (i - 1) % Plans[s].count = Plans[s].index

Shard(s) == {i \in 1 .. Pairs : InShard(s, i)}

\* pairs[:max_runs]
Planned(s) == {i \in Shard(s) : Cardinality({j \in Shard(s) : j < i}) < Plans[s].max}

Earlier(s, i) == {j \in Planned(s) : j < i}

Init ==
    /\ navigator \in [{"fork", "navigation"} -> {None, Old}]
    /\ complete \in SUBSET (1 .. Pairs)
    /\ evaluated = [i \in 1 .. Pairs |-> Unevaluated]
    /\ pc = [s \in Sweeps |-> "ensure"]
    /\ level = [s \in Sweeps |-> 1]
    /\ future = [s \in Sweeps |-> [i \in 1 .. Pairs |-> None]]
    /\ results = [s \in Sweeps |-> << >>]
    /\ deaths = 0

Goto(s, next) == pc' = [pc EXCEPT ![s] = next]

-------------------------------------------------------------------------------
(* ensure_navigators                                                       *)

\* The checkpoint is there and its metadata equals the request, the source
\* fingerprint included.
Compatible(s, l) == navigator[l] = Request[s]

\* Mutation: one compatible level is enough.
SomeCompatible(s) == \E l \in DOMAIN navigator : Compatible(s, l)

AllCompatible(s) == \A l \in DOMAIN navigator : Compatible(s, l)

\* Every level has a compatible checkpoint, or the suite is pretrained.
Ensure(s) ==
    /\ pc[s] = "ensure"
    /\ Goto(s, IF AllCompatible(s) THEN "submit" ELSE "pretrain")
    /\ UNCHANGED <<navigator, complete, evaluated, level, future, results, deaths>>

\* pretrain_navigator_suite reuses a compatible level and trains the other.
Pretrain(s) ==
    /\ pc[s] = "pretrain"
    /\ LET l == Levels[level[s]] IN
        IF Compatible(s, l)
        THEN Goto(s, "pretrained")
        ELSE Goto(s, "train")
    /\ UNCHANGED <<navigator, complete, evaluated, level, future, results, deaths>>

\* The trained navigator replaces the file, whatever it holds by now.
Save(s) ==
    /\ pc[s] = "train"
    /\ navigator' = [navigator EXCEPT ![Levels[level[s]]] = Request[s]]
    /\ Goto(s, "pretrained")
    /\ UNCHANGED <<complete, evaluated, level, future, results, deaths>>

\* The epochs end without the accuracy held for long enough: RuntimeError,
\* before the first run.
TrainingFails(s) ==
    /\ pc[s] = "train"
    /\ Goto(s, "aborted")
    /\ UNCHANGED <<navigator, complete, evaluated, level, future, results, deaths>>

\* Mutation: the level just trained comes again.
SameLevel(s) ==
    /\ pc[s] = "pretrained" /\ Goto(s, "pretrain")
    /\ UNCHANGED <<navigator, complete, evaluated, level, future, results, deaths>>

\* Mutation: one level more than there are.
OneLevelMore(s) ==
    /\ pc[s] = "pretrained" /\ Goto(s, "pretrain") /\ level' = [level EXCEPT ![s] = @ + 1]
    /\ UNCHANGED <<navigator, complete, evaluated, future, results, deaths>>

NextLevel(s) ==
    /\ pc[s] = "pretrained"
    /\ IF level[s] < Len(Levels)
       THEN level' = [level EXCEPT ![s] = @ + 1] /\ Goto(s, "pretrain")
       ELSE Goto(s, "submit") /\ UNCHANGED level
    /\ UNCHANGED <<navigator, complete, evaluated, future, results, deaths>>

-------------------------------------------------------------------------------
(* The pool.                                                               *)

\* executor.submit for every planned pair, in order.
Submit(s) ==
    /\ pc[s] = "submit"
    /\ future' = [future EXCEPT ![s] = [i \in 1 .. Pairs |->
                    IF i \in Planned(s) THEN "pending" ELSE None]]
    /\ Goto(s, "collect")
    /\ UNCHANGED <<navigator, complete, evaluated, level, results, deaths>>

In(s, states) == {i \in Planned(s) : future[s][i] \in states}

Finished == {"skipped", "complete", "failed"}
Collected(s) == {results[s][k].pair : k \in 1 .. Len(results[s])}

\* With one job the next run begins when the last one is collected.
MayHandOut(s) ==
    IF Jobs = 1
    THEN /\ pc[s] = "collect"
         /\ In(s, {"queued", "running"}) = {} /\ In(s, Finished) = Collected(s)
    ELSE Cardinality(In(s, {"queued"})) < Jobs + 1

\* The executor hands the pending work out in order, one item more than it
\* has workers; what is handed out can no longer be cancelled.
HandOut(s) ==
    \E i \in In(s, {"pending"}) :
        /\ Earlier(s, i) \cap In(s, {"pending"}) = {}
        /\ MayHandOut(s)
        /\ future' = [future EXCEPT ![s][i] = "queued"]
        /\ UNCHANGED <<navigator, complete, evaluated, pc, level, results, deaths>>

\* Mutation: what is not complete is skipped.
SkipsOther(i) == i \notin complete

\* store.complete and run.resume and not force
Skips(i) == i \in complete

\* A worker takes the next item and begins execute_one.
Start(s) ==
    \E i \in In(s, {"queued"}) :
        /\ Earlier(s, i) \cap In(s, {"queued"}) = {}
        /\ Cardinality(In(s, {"running"})) < Jobs
        /\ future' = [future EXCEPT ![s][i] = IF Skips(i) THEN "skipped" ELSE "running"]
        /\ UNCHANGED <<navigator, complete, evaluated, pc, level, results, deaths>>

\* evaluate_task_levels loads the navigators one level after the other, when
\* the protocol has run; it does not look at what request they answer.
Evaluate(s) ==
    \E i \in In(s, {"running"}), l \in DOMAIN navigator :
        /\ evaluated[i][l] = None
        /\ l = "navigation" => evaluated[i].fork # None
        /\ evaluated' = [evaluated EXCEPT ![i][l] = navigator[l]]
        /\ UNCHANGED <<navigator, complete, pc, level, future, results, deaths>>

\* The run completes; or it fails; or its directory cannot be written, and
\* initialize or fail raises out of execute_one.
Finish(s) ==
    \E i \in In(s, {"running"}) :
        \/ /\ evaluated[i].navigation # None
           /\ complete' = complete \cup {i}
           /\ future' = [future EXCEPT ![s][i] = "complete"]
           /\ UNCHANGED <<navigator, evaluated, pc, level, results, deaths>>
        \/ /\ i \in MayFail
           /\ evaluated' = [evaluated EXCEPT ![i] = Unevaluated]
           /\ \E outcome \in {"failed", "raised"} :
                future' = [future EXCEPT ![s][i] = outcome]
           /\ UNCHANGED <<navigator, complete, pc, level, results, deaths>>

\* A worker dies: the executor terminates the others and every future that is
\* not finished gets a BrokenProcessPool.
Die(s) ==
    /\ Jobs > 1 /\ deaths < MaxDeaths /\ In(s, {"running"}) # {}
    /\ deaths' = deaths + 1
    /\ evaluated' = [i \in 1 .. Pairs |->
                       IF future[s][i] = "running" THEN Unevaluated ELSE evaluated[i]]
    /\ future' = [future EXCEPT ![s] = [i \in 1 .. Pairs |->
                    IF @[i] \in {"pending", "queued", "running"} THEN "broken" ELSE @[i]]]
    /\ UNCHANGED <<navigator, complete, pc, level, results>>

-------------------------------------------------------------------------------
(* run_experiment                                                          *)

\* pending.cancel() for every future
CancelPending(s, stop) ==
    future' = [future EXCEPT ![s] = [i \in 1 .. Pairs |->
                 IF stop /\ @[i] = "pending" THEN "cancelled" ELSE @[i]]]

\* as_completed yields the finished futures in any order; the first failure
\* of a fail-fast sweep cancels the pending ones and ends the loop.
Collect(s) ==
    /\ pc[s] = "collect"
    /\ \E i \in In(s, Finished) \ Collected(s) :
        LET stop == FailFast /\ future[s][i] = "failed" IN
        /\ results' = [results EXCEPT ![s] =
                         Append(@, [pair |-> i, status |-> future[s][i]])]
        /\ CancelPending(s, stop)
        /\ IF stop THEN Goto(s, "shutdown") ELSE UNCHANGED pc
    /\ UNCHANGED <<navigator, complete, evaluated, level, deaths>>

\* future.result() raises what execute_one raised, or BrokenProcessPool.
CollectError(s) ==
    /\ pc[s] = "collect" /\ In(s, {"raised", "broken"}) # {}
    /\ Goto(s, "unwinding")
    /\ UNCHANGED <<navigator, complete, evaluated, level, future, results, deaths>>

CollectedAll(s) ==
    /\ pc[s] = "collect" /\ Collected(s) = Planned(s)
    /\ Goto(s, "shutdown")
    /\ UNCHANGED <<navigator, complete, evaluated, level, future, results, deaths>>

\* Leaving the with block, by an error too, waits for the submitted work.
Leave(s) ==
    /\ pc[s] \in {"shutdown", "unwinding"}
    /\ Jobs > 1 => In(s, {"pending", "queued", "running"}) = {}
    /\ Goto(s, IF pc[s] = "shutdown" THEN "returned" ELSE "aborted")
    /\ UNCHANGED <<navigator, complete, evaluated, level, future, results, deaths>>

-------------------------------------------------------------------------------

Prepare(s) ==
    Ensure(s) \/ Pretrain(s) \/ Save(s) \/ TrainingFails(s) \/ NextLevel(s) \/ Submit(s)
Pool(s) == HandOut(s) \/ Start(s) \/ Evaluate(s) \/ Finish(s)
Coordinate(s) == Collect(s) \/ CollectError(s) \/ CollectedAll(s) \/ Leave(s)

AllReturned ==
    /\ \A s \in Sweeps : pc[s] \in {"returned", "aborted"}
    /\ UNCHANGED vars

Next ==
    \/ \E s \in Sweeps : Prepare(s) \/ Pool(s) \/ Die(s) \/ Coordinate(s)
    \/ AllReturned

Spec == Init /\ [][Next]_vars

\* Each sweep and each worker that is alive goes on.
FairSpec ==
    Spec /\ \A s \in Sweeps :
              WF_vars(Prepare(s)) /\ WF_vars(Pool(s)) /\ WF_vars(Coordinate(s))

-------------------------------------------------------------------------------
(* Properties.                                                             *)

Request0 == {Request[s] : s \in Sweeps} \cup {None, Old}
FutureStates == {None, "pending", "queued", "running", "cancelled", "raised", "broken"} \cup Finished

TypeOK ==
    /\ navigator \in [{"fork", "navigation"} -> Request0]
    /\ complete \subseteq 1 .. Pairs
    /\ evaluated \in [1 .. Pairs -> [fork : Request0, navigation : Request0]]
    /\ pc \in [Sweeps -> {"ensure", "pretrain", "train", "pretrained", "submit",
                           "collect", "shutdown", "unwinding", "returned", "aborted"}]
    /\ level \in [Sweeps -> 1 .. Len(Levels)]
    /\ future \in [Sweeps -> [1 .. Pairs -> FutureStates]]
    /\ \A s \in Sweeps : \A k \in 1 .. Len(results[s]) :
        results[s][k] \in [pair : Planned(s), status : Finished]
    /\ deaths \in 0 .. MaxDeaths

\* No two processes of the shards execute the same run: the directory, which
\* nothing locks, has one owner.
RunHasOneOwner ==
    \A i \in 1 .. Pairs : Cardinality({s \in Sweeps : future[s][i] = "running"}) <= 1

\* Between them the shards of an uncapped plan leave no pair out: when all of
\* them have returned every pair is complete or reported as failed.
ShardsCoverThePlan ==
    (\A s \in Sweeps : pc[s] = "returned") =>
      \A i \in 1 .. Pairs :
        \/ i \in complete
        \/ \E s \in Sweeps : \E k \in 1 .. Len(results[s]) :
             \/ results[s][k] = [pair |-> i, status |-> "failed"]
             \/ FailFast /\ results[s][k].status = "failed"

\* What a sweep returns is so: each of its runs is listed once, and those it
\* calls complete or skipped are complete on disk.
ResultsAreTrue ==
    \A s \in Sweeps :
      /\ Cardinality(Collected(s)) = Len(results[s])
      /\ \A k \in 1 .. Len(results[s]) :
           results[s][k].status # "failed" => results[s][k].pair \in complete

\* The navigation metrics of a complete run are of the navigators its own
\* configuration asks for, however the sweeps pretrain and replace them.
EvaluatedAsRequested ==
    \A s \in Sweeps : \A i \in In(s, {"complete"}) :
      evaluated[i] = [fork |-> Request[s], navigation |-> Request[s]]

\* run_experiment returns or raises, also when a worker dies.
SweepEnds == \A s \in Sweeps : <>(pc[s] \in {"returned", "aborted"})

===============================================================================

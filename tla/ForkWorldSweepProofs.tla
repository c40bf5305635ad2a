------------------------- MODULE ForkWorldSweepProofs -------------------------
(***************************************************************************)
(* What holds of any number of sweeps over a plan of any length, with any   *)
(* pools, failures and deaths: the outcomes a sweep returns are so; and if  *)
(* the sweeps are the shards of one experiment, a run has one owner, an     *)
(* uncapped plan is covered, and runs are evaluated with the navigators     *)
(* their configuration asks for.                                           *)
(***************************************************************************)
EXTENDS ForkWorldSweep, FiniteSetTheorems, TLAPS

\* Distinct shards of one count.
AreShards ==
    /\ \A s, t \in Sweeps : Plans[s].count = Plans[t].count
    /\ \A s, t \in Sweeps : Plans[s].index = Plans[t].index => s = t

\* All the shards of the plan, none of them capped.
AreAllShards ==
    /\ AreShards
    /\ \E s \in Sweeps : \A n \in 0 .. Plans[s].count - 1 :
         \E t \in Sweeps : Plans[t].index = n
    /\ \A s \in Sweeps : Plans[s].max >= Pairs

\* Configurations that ask for one navigator.
AskTheSame == \A s, t \in Sweeps : Request[s] = Request[t]

-------------------------------------------------------------------------------
\* Shards.

\* A pair belongs to one of distinct shards at most.
LEMMA ShardsAreDisjoint ==
    ASSUME AreShards, NEW s \in Sweeps, NEW t \in Sweeps, NEW i \in 1 .. Pairs,
           i \in Planned(s), i \in Planned(t)
    PROVE  s = t
<1>1. (i - 1) % Plans[s].count = Plans[s].index /\ (i - 1) % Plans[t].count = Plans[t].index
  BY DEF Planned, Shard, InShard
<1> QED
  BY <1>1 DEF AreShards

\* A cap as long as the plan cuts nothing off.
LEMMA UncappedShard ==
    ASSUME NEW s \in Sweeps, Plans[s].max >= Pairs
    PROVE  Planned(s) = Shard(s)
<1> SUFFICES ASSUME NEW i \in Shard(s)
             PROVE  Cardinality({j \in Shard(s) : j < i}) < Plans[s].max
  BY DEF Planned
<1> DEFINE before == {j \in Shard(s) : j < i}
<1>1. i \in 1 .. Pairs /\ Pairs \in Nat /\ Plans[s].max \in Nat
  BY ForkWorldSweepConstants DEF Shard
<1>2. IsFiniteSet(1 .. i - 1) /\ Cardinality(1 .. i - 1) = i - 1
  <2>1. 1 \in Int /\ i - 1 \in Int
    BY <1>1
  <2>2. /\ IsFiniteSet(1 .. i - 1)
        /\ Cardinality(1 .. i - 1) = IF 1 > i - 1 THEN 0 ELSE (i - 1) - 1 + 1
    BY <2>1, FS_Interval
  <2> QED
    BY <1>1, <2>2
<1>3. before \in SUBSET (1 .. i - 1)
  BY <1>1 DEF Shard
<1>4. IsFiniteSet(before) /\ Cardinality(before) <= i - 1
  BY <1>2, <1>3, FS_Subset
<1>5. Cardinality(before) \in Nat
  BY <1>4, FS_CardinalityType
<1> QED
  BY <1>1, <1>4, <1>5

\* Every pair belongs to one of all the shards.
LEMMA ShardsCover ==
    ASSUME AreAllShards, NEW i \in 1 .. Pairs
    PROVE  \E s \in Sweeps : i \in Planned(s)
<1>1. PICK u \in Sweeps : \A n \in 0 .. Plans[u].count - 1 :
        \E t \in Sweeps : Plans[t].index = n
  BY DEF AreAllShards
<1>2. Plans[u].count \in Nat /\ Plans[u].count > 0 /\ i - 1 \in Nat
  BY ForkWorldSweepConstants
<1>3. (i - 1) % Plans[u].count \in 0 .. Plans[u].count - 1
  BY <1>2
<1>4. PICK t \in Sweeps : Plans[t].index = (i - 1) % Plans[u].count
  BY <1>1, <1>3
<1>5. i \in Shard(t)
  BY <1>4 DEF AreAllShards, AreShards, Shard, InShard
<1> QED
  BY <1>5, UncappedShard DEF AreAllShards

-------------------------------------------------------------------------------
\* Types.

Outcomes == [pair : 1 .. Pairs, status : Finished]

\* TypeOK with the results as sequences.
Typed == TypeOK /\ results \in [Sweeps -> Seq(Outcomes)]

\* A step of one future.
LEMMA OneFuture ==
    ASSUME future \in [Sweeps -> [1 .. Pairs -> FutureStates]],
           NEW s \in Sweeps, NEW i \in 1 .. Pairs, NEW x \in FutureStates,
           future' = [future EXCEPT ![s][i] = x]
    PROVE  /\ future' \in [Sweeps -> [1 .. Pairs -> FutureStates]]
           /\ future'[s][i] = x
           /\ \A t \in Sweeps, j \in 1 .. Pairs :
                t # s \/ j # i => future'[t][j] = future[t][j]
OBVIOUS

\* The futures of a sweep all change by one rule.
LEMMA AllFutures ==
    ASSUME future \in [Sweeps -> [1 .. Pairs -> FutureStates]],
           NEW s \in Sweeps, NEW f \in [1 .. Pairs -> FutureStates],
           future' = [future EXCEPT ![s] = f]
    PROVE  /\ future' \in [Sweeps -> [1 .. Pairs -> FutureStates]]
           /\ \A j \in 1 .. Pairs : future'[s][j] = f[j]
           /\ \A t \in Sweeps, j \in 1 .. Pairs : t # s => future'[t][j] = future[t][j]
OBVIOUS

\* Only what was not finished is broken by a death.
LEMMA DieFutures ==
    ASSUME Typed, NEW s \in Sweeps, Die(s)
    PROVE  /\ future' \in [Sweeps -> [1 .. Pairs -> FutureStates]]
           /\ \A j \in 1 .. Pairs :
                future'[s][j] = IF future[s][j] \in {"pending", "queued", "running"}
                                THEN "broken" ELSE future[s][j]
           /\ \A t \in Sweeps, j \in 1 .. Pairs : t # s => future'[t][j] = future[t][j]
<1> DEFINE f == [i \in 1 .. Pairs |->
                   IF future[s][i] \in {"pending", "queued", "running"}
                   THEN "broken" ELSE future[s][i]]
<1>1. future \in [Sweeps -> [1 .. Pairs -> FutureStates]]
  BY DEF Typed, TypeOK
<1>2. f \in [1 .. Pairs -> FutureStates]
  BY <1>1 DEF FutureStates
<1>3. future' = [future EXCEPT ![s] = f]
  BY <1>1 DEF Die
<1> QED
  BY <1>1, <1>2, <1>3, AllFutures

\* Submission makes the planned futures, and no others.
LEMMA SubmitFutures ==
    ASSUME Typed, NEW s \in Sweeps, Submit(s)
    PROVE  /\ future' \in [Sweeps -> [1 .. Pairs -> FutureStates]]
           /\ \A j \in 1 .. Pairs :
                future'[s][j] = IF j \in Planned(s) THEN "pending" ELSE None
           /\ \A t \in Sweeps, j \in 1 .. Pairs : t # s => future'[t][j] = future[t][j]
<1> DEFINE f == [i \in 1 .. Pairs |-> IF i \in Planned(s) THEN "pending" ELSE None]
<1>1. future \in [Sweeps -> [1 .. Pairs -> FutureStates]]
  BY DEF Typed, TypeOK
<1>2. f \in [1 .. Pairs -> FutureStates]
  BY DEF FutureStates
<1>3. future' = [future EXCEPT ![s] = f]
  BY DEF Submit
<1> QED
  BY <1>1, <1>2, <1>3, AllFutures

\* Cancelling reaches pending futures only.
LEMMA CancelledFutures ==
    ASSUME Typed, NEW s \in Sweeps, NEW stop \in BOOLEAN, CancelPending(s, stop)
    PROVE  /\ future' \in [Sweeps -> [1 .. Pairs -> FutureStates]]
           /\ \A j \in 1 .. Pairs :
                future'[s][j] = IF stop /\ future[s][j] = "pending"
                                THEN "cancelled" ELSE future[s][j]
           /\ \A t \in Sweeps, j \in 1 .. Pairs : t # s => future'[t][j] = future[t][j]
<1> DEFINE f == [i \in 1 .. Pairs |->
                   IF stop /\ future[s][i] = "pending" THEN "cancelled" ELSE future[s][i]]
<1>1. future \in [Sweeps -> [1 .. Pairs -> FutureStates]]
  BY DEF Typed, TypeOK
<1>2. f \in [1 .. Pairs -> FutureStates]
  BY <1>1 DEF FutureStates
<1>3. future' = [future EXCEPT ![s] = f]
  BY <1>1 DEF CancelPending
<1> QED
  BY <1>1, <1>2, <1>3, AllFutures

\* Where preparation, collecting and the end of a sweep take it.
LEMMA Places ==
    ASSUME Typed, NEW s \in Sweeps, Prepare(s) \/ Coordinate(s)
    PROVE  pc' \in [Sweeps -> {"ensure", "pretrain", "train", "pretrained", "submit",
                      "collect", "shutdown", "unwinding", "returned", "aborted"}]
<1>1. CASE Prepare(s)
  BY <1>1 DEF Prepare, Ensure, Pretrain, Save, TrainingFails, NextLevel, Submit, Goto, Typed, TypeOK
<1>2. CASE Coordinate(s)
  BY <1>2 DEF Coordinate, Collect, CollectError, CollectedAll, Leave, Goto, Typed, TypeOK
<1> QED
  BY <1>1, <1>2

\* The initial state is well typed.
LEMMA InitType == Init => Typed
<1> SUFFICES ASSUME Init PROVE Typed
  OBVIOUS
<1>1. navigator \in [{"fork", "navigation"} -> Request0] /\ complete \subseteq 1 .. Pairs
  BY DEF Init, Request0
<1>2. evaluated \in [1 .. Pairs -> [fork : Request0, navigation : Request0]]
  BY DEF Init, Request0, Unevaluated
<1>3. pc \in [Sweeps -> {"ensure", "pretrain", "train", "pretrained", "submit",
                "collect", "shutdown", "unwinding", "returned", "aborted"}]
  BY DEF Init
<1>4. level \in [Sweeps -> 1 .. Len(Levels)]
  BY DEF Init, Levels
<1>5. future \in [Sweeps -> [1 .. Pairs -> FutureStates]]
  BY DEF Init, FutureStates
<1>6. results \in [Sweeps -> Seq(Outcomes)] /\ \A s \in Sweeps : Len(results[s]) = 0
  BY DEF Init
<1>7. deaths \in 0 .. MaxDeaths
  BY ForkWorldSweepConstants DEF Init
<1> QED
  BY <1>1, <1>2, <1>3, <1>4, <1>5, <1>6, <1>7 DEF Typed, TypeOK

\* There are two levels.
LEMMA TwoLevels ==
    /\ Len(Levels) = 2 /\ Levels[1] = "fork" /\ Levels[2] = "navigation"
    /\ \A n \in 1 .. Len(Levels) : n = 1 \/ n = 2
BY DEF Levels

\* The next level is a level.
LEMMA LevelType ==
    ASSUME level \in [Sweeps -> 1 .. Len(Levels)], NEW s \in Sweeps, NextLevel(s)
    PROVE  level' \in [Sweeps -> 1 .. Len(Levels)]
<1>1. CASE level[s] < Len(Levels)
  <2>1. level[s] = 1
    BY <1>1, TwoLevels
  <2>2. level[s] + 1 \in 1 .. Len(Levels)
    BY <2>1, TwoLevels
  <2>3. level' = [level EXCEPT ![s] = level[s] + 1]
    BY <1>1 DEF NextLevel
  <2> QED
    BY <2>2, <2>3
<1>2. CASE ~(level[s] < Len(Levels))
  BY <1>2 DEF NextLevel
<1> QED
  BY <1>1, <1>2

\* Preparation keeps the types.
LEMMA PrepareType ==
    ASSUME Typed, NEW s \in Sweeps, Prepare(s)
    PROVE  Typed'
<1> USE Places DEF Typed, TypeOK
<1>1. CASE Ensure(s)
  BY <1>1 DEF Ensure, Prepare
<1>2. CASE Pretrain(s)
  BY <1>2 DEF Pretrain, Prepare
<1>3. CASE Save(s)
  <2>1. level[s] \in 1 .. Len(Levels)
    OBVIOUS
  <2>3. Levels[level[s]] \in {"fork", "navigation"} /\ Request[s] \in Request0
    BY <2>1, TwoLevels DEF Request0
  <2>2. navigator' \in [{"fork", "navigation"} -> Request0]
    BY <1>3, <2>3 DEF Save
  <2> QED
    BY <1>3, <2>2 DEF Save, Prepare
<1>4. CASE TrainingFails(s)
  BY <1>4 DEF TrainingFails, Prepare
<1>5. CASE NextLevel(s)
  <2>1. level' \in [Sweeps -> 1 .. Len(Levels)]
    BY <1>5, LevelType
  <2> QED
    BY <1>5, <2>1 DEF NextLevel, Prepare
<1>6. CASE Submit(s)
  <2>1. future' \in [Sweeps -> [1 .. Pairs -> FutureStates]]
    BY <1>6, SubmitFutures
  <2> QED
    BY <1>6, <2>1 DEF Submit, Prepare
<1> QED
  BY <1>1, <1>2, <1>3, <1>4, <1>5, <1>6 DEF Prepare

\* The navigators a worker reads are added to the run's evaluation.
LEMMA EvaluateType ==
    ASSUME Typed, NEW i \in 1 .. Pairs, NEW l \in {"fork", "navigation"},
           evaluated' = [evaluated EXCEPT ![i][l] = navigator[l]]
    PROVE  /\ evaluated' \in [1 .. Pairs -> [fork : Request0, navigation : Request0]]
           /\ evaluated'[i][l] = navigator[l]
           /\ l = "fork" => evaluated'[i].navigation = evaluated[i].navigation
           /\ l = "navigation" => evaluated'[i].fork = evaluated[i].fork
           /\ \A j \in 1 .. Pairs : j # i => evaluated'[j] = evaluated[j]
<1>1. CASE l = "fork"
  BY <1>1 DEF Typed, TypeOK
<1>2. CASE l = "navigation"
  BY <1>2 DEF Typed, TypeOK
<1> QED
  BY <1>1, <1>2

\* The pool keeps the types.
LEMMA PoolType ==
    ASSUME Typed, NEW s \in Sweeps, Pool(s) \/ Die(s)
    PROVE  Typed'
<1>0. DOMAIN navigator = {"fork", "navigation"}
  BY DEF Typed, TypeOK
<1>1. ASSUME NEW i \in 1 .. Pairs, NEW x \in FutureStates, future' = [future EXCEPT ![s][i] = x]
      PROVE  future' \in [Sweeps -> [1 .. Pairs -> FutureStates]]
  BY <1>1, OneFuture DEF Typed, TypeOK
<1>2. \A j \in Planned(s) : j \in 1 .. Pairs
  BY DEF Planned, Shard
<1>3. CASE HandOut(s)
  <2>1. future' \in [Sweeps -> [1 .. Pairs -> FutureStates]]
    BY <1>1, <1>2, <1>3 DEF HandOut, In, FutureStates
  <2> QED
    BY <1>3, <2>1 DEF HandOut, Typed, TypeOK
<1>4. CASE Start(s)
  <2>1. PICK i \in In(s, {"queued"}) :
          future' = [future EXCEPT ![s][i] = IF Skips(i) THEN "skipped" ELSE "running"]
    BY <1>4 DEF Start
  <2>2. (IF Skips(i) THEN "skipped" ELSE "running") \in FutureStates /\ i \in 1 .. Pairs
    BY <1>2 DEF FutureStates, Finished, In
  <2>3. future' \in [Sweeps -> [1 .. Pairs -> FutureStates]]
    BY <1>1, <2>1, <2>2
  <2> QED
    BY <1>4, <2>3 DEF Start, Typed, TypeOK
<1>5. CASE Evaluate(s)
  <2>1. evaluated' \in [1 .. Pairs -> [fork : Request0, navigation : Request0]]
    BY <1>0, <1>2, <1>5, EvaluateType DEF Evaluate, In
  <2> QED
    BY <1>5, <2>1 DEF Evaluate, Typed, TypeOK
<1>6. CASE Finish(s)
  <2>1. PICK i \in In(s, {"running"}) :
          \/ /\ complete' = complete \cup {i}
             /\ future' = [future EXCEPT ![s][i] = "complete"]
             /\ UNCHANGED <<navigator, evaluated, pc, level, results, deaths>>
          \/ /\ evaluated' = [evaluated EXCEPT ![i] = Unevaluated]
             /\ \E outcome \in {"failed", "raised"} :
                  future' = [future EXCEPT ![s][i] = outcome]
             /\ UNCHANGED <<navigator, complete, pc, level, results, deaths>>
    BY <1>6 DEF Finish
  <2>2. i \in 1 .. Pairs
    BY <1>2 DEF In
  <2>3. future' \in [Sweeps -> [1 .. Pairs -> FutureStates]]
    BY <1>1, <2>1, <2>2 DEF FutureStates, Finished
  <2>4. complete' \subseteq 1 .. Pairs
    BY <2>1, <2>2 DEF Typed, TypeOK
  <2>5. Unevaluated \in [fork : Request0, navigation : Request0]
    BY DEF Unevaluated, Request0
  <2>6. evaluated' \in [1 .. Pairs -> [fork : Request0, navigation : Request0]]
    BY <2>1, <2>5 DEF Typed, TypeOK
  <2> QED
    BY <2>1, <2>3, <2>4, <2>6 DEF Typed, TypeOK
<1>7. CASE Die(s)
  <2>1. future' \in [Sweeps -> [1 .. Pairs -> FutureStates]]
    BY <1>7, DieFutures
  <2>2. Unevaluated \in [fork : Request0, navigation : Request0]
    BY DEF Unevaluated, Request0
  <2>3. evaluated' \in [1 .. Pairs -> [fork : Request0, navigation : Request0]]
    BY <1>7, <2>2 DEF Die, Typed, TypeOK
  <2>4. deaths' \in 0 .. MaxDeaths
    BY <1>7, ForkWorldSweepConstants DEF Die, Typed, TypeOK
  <2> QED
    BY <1>7, <2>1, <2>3, <2>4 DEF Die, Typed, TypeOK
<1> QED
  BY <1>3, <1>4, <1>5, <1>6, <1>7 DEF Pool

\* One more outcome at the end of a sweep's results.
LEMMA OneResult ==
    ASSUME Typed, NEW s \in Sweeps, NEW r \in [pair : Planned(s), status : Finished],
           results' = [results EXCEPT ![s] = Append(@, r)]
    PROVE  /\ results' \in [Sweeps -> Seq(Outcomes)]
           /\ Len(results'[s]) = Len(results[s]) + 1
           /\ results'[s][Len(results[s]) + 1] = r
           /\ \A k \in 1 .. Len(results[s]) : results'[s][k] = results[s][k]
           /\ \A t \in Sweeps : t # s => results'[t] = results[t]
           /\ Len(results[s]) \in Nat
<1>1. r \in Outcomes
  BY DEF Outcomes, Planned, Shard
<1>2. results[s] \in Seq(Outcomes) /\ results'[s] = Append(results[s], r)
  BY DEF Typed
<1>3. Append(results[s], r) \in Seq(Outcomes)
  BY <1>1, <1>2
<1>4. results' \in [Sweeps -> Seq(Outcomes)]
  BY <1>3 DEF Typed
<1> QED
  BY <1>1, <1>2, <1>4 DEF Typed

\* What Collect collects.
LEMMA Collects ==
    ASSUME Typed, NEW s \in Sweeps, Collect(s)
    PROVE  \E i \in Planned(s) :
             /\ future[s][i] \in Finished /\ i \notin Collected(s)
             /\ results' = [results EXCEPT ![s] =
                              Append(@, [pair |-> i, status |-> future[s][i]])]
             /\ CancelPending(s, FailFast /\ future[s][i] = "failed")
             /\ IF FailFast /\ future[s][i] = "failed" THEN Goto(s, "shutdown") ELSE UNCHANGED pc
BY DEF Collect, In

\* The coordinator keeps the types.
LEMMA CoordinateType ==
    ASSUME Typed, NEW s \in Sweeps, Coordinate(s)
    PROVE  Typed'
<1>1. CASE Collect(s)
  <2>1. PICK i \in Planned(s) :
          /\ future[s][i] \in Finished
          /\ results' = [results EXCEPT ![s] =
                           Append(@, [pair |-> i, status |-> future[s][i]])]
          /\ CancelPending(s, FailFast /\ future[s][i] = "failed")
    BY <1>1, Collects
  <2> DEFINE r == [pair |-> i, status |-> future[s][i]]
  <2>2. r \in [pair : Planned(s), status : Finished]
    BY <2>1
  <2>3. results' = [results EXCEPT ![s] = Append(@, r)]
    BY <2>1
  <2> HIDE DEF r
  <2>4. /\ results' \in [Sweeps -> Seq(Outcomes)]
        /\ Len(results'[s]) = Len(results[s]) + 1
        /\ results'[s][Len(results[s]) + 1] = r
        /\ \A k \in 1 .. Len(results[s]) : results'[s][k] = results[s][k]
        /\ \A t \in Sweeps : t # s => results'[t] = results[t]
        /\ Len(results[s]) \in Nat
    BY <2>2, <2>3, OneResult
  <2>5. ASSUME NEW t \in Sweeps, NEW k \in 1 .. Len(results'[t])
        PROVE  results'[t][k] \in [pair : Planned(t), status : Finished]
    <3>1. CASE t # s
      BY <2>4, <2>5, <3>1 DEF Typed, TypeOK
    <3>2. CASE t = s /\ k \in 1 .. Len(results[s])
      BY <2>4, <3>2 DEF Typed, TypeOK
    <3>3. CASE t = s /\ k = Len(results[s]) + 1
      BY <2>2, <2>4, <3>3
    <3> QED
      BY <2>4, <2>5, <3>1, <3>2, <3>3
  <2>6. future' \in [Sweeps -> [1 .. Pairs -> FutureStates]]
    BY <2>1, CancelledFutures
  <2>7. UNCHANGED <<navigator, complete, evaluated, level, deaths>>
    BY <1>1 DEF Collect
  <2>8. (\A t \in Sweeps : \A k \in 1 .. Len(results[t]) :
          results[t][k] \in [pair : Planned(t), status : Finished])'
    BY <2>5 DEF Planned, Shard, InShard
  <2> QED
    BY <2>4, <2>6, <2>7, <2>8, Places DEF Typed, TypeOK, Coordinate
<1>2. CASE CollectError(s) \/ CollectedAll(s) \/ Leave(s)
  <2>1. UNCHANGED <<navigator, complete, evaluated, level, future, results, deaths>>
    BY <1>2 DEF CollectError, CollectedAll, Leave
  <2> QED
    BY <2>1, Places DEF Typed, TypeOK
<1> QED
  BY <1>1, <1>2 DEF Coordinate

LEMMA TypePreserved == Typed /\ [Next]_vars => Typed'
<1> SUFFICES ASSUME Typed, [Next]_vars PROVE Typed'
  OBVIOUS
<1>1. CASE UNCHANGED vars
  BY <1>1 DEF vars, Typed, TypeOK
<1>2. ASSUME NEW s \in Sweeps, Prepare(s) PROVE Typed'
  BY <1>2, PrepareType
<1>3. ASSUME NEW s \in Sweeps, Pool(s) \/ Die(s) PROVE Typed'
  BY <1>3, PoolType
<1>4. ASSUME NEW s \in Sweeps, Coordinate(s) PROVE Typed'
  BY <1>4, CoordinateType
<1> QED
  BY <1>1, <1>2, <1>3, <1>4 DEF Next, AllReturned

\* Every variable stays within its type.
THEOREM SweepTypeCorrect == Spec => []TypeOK
<1>1. Typed => TypeOK
  BY DEF Typed
<1> QED
  BY <1>1, InitType, TypePreserved, PTL DEF Spec

-------------------------------------------------------------------------------
\* Futures and results.

\* A future is of a planned pair, and one that finished well is of a complete
\* one.
FuturesInv ==
    \A s \in Sweeps, i \in 1 .. Pairs :
      /\ future[s][i] # None => i \in Planned(s)
      /\ future[s][i] \in {"skipped", "complete"} => i \in complete

\* A sweep that left its loop has collected everything, or a failure.
CollectedInv ==
    \A s \in Sweeps : pc[s] \in {"shutdown", "returned"} =>
      \/ Collected(s) = Planned(s)
      \/ FailFast /\ \E k \in 1 .. Len(results[s]) : results[s][k].status = "failed"

\* What is planned does not change.
LEMMA PlanIsFixed ==
    ASSUME NEW s \in Sweeps
    PROVE  /\ Planned(s)' = Planned(s)
           /\ Planned(s) \subseteq 1 .. Pairs
BY DEF Planned, Shard, InShard

\* Runs only become complete.
LEMMA CompleteGrows ==
    ASSUME [Next]_vars
    PROVE  complete \subseteq complete'
<1>1. ASSUME NEW s \in Sweeps, Prepare(s) PROVE complete \subseteq complete'
  BY <1>1 DEF Prepare, Ensure, Pretrain, Save, TrainingFails, NextLevel, Submit
<1>2. ASSUME NEW s \in Sweeps, Pool(s) PROVE complete \subseteq complete'
  BY <1>2 DEF Pool, HandOut, Start, Evaluate, Finish
<1>3. ASSUME NEW s \in Sweeps, Die(s) \/ Coordinate(s) PROVE complete \subseteq complete'
  BY <1>3 DEF Die, Coordinate, Collect, CollectError, CollectedAll, Leave
<1> QED
  BY <1>1, <1>2, <1>3 DEF Next, AllReturned, vars

\* One future that stays a planned pair's, and is true.
LEMMA OneFutureInv ==
    ASSUME Typed, FuturesInv, complete \subseteq complete',
           NEW s \in Sweeps, NEW i \in Planned(s), NEW x \in FutureStates,
           future' = [future EXCEPT ![s][i] = x],
           x \in {"skipped", "complete"} => i \in complete'
    PROVE  FuturesInv'
<1>1. i \in 1 .. Pairs
  BY PlanIsFixed
<1>2. /\ future'[s][i] = x
      /\ \A t \in Sweeps, j \in 1 .. Pairs :
           t # s \/ j # i => future'[t][j] = future[t][j]
  <2>1. future \in [Sweeps -> [1 .. Pairs -> FutureStates]]
    BY DEF Typed, TypeOK
  <2> QED
    BY <1>1, <2>1
<1>3. ASSUME NEW t \in Sweeps, NEW j \in 1 .. Pairs
      PROVE  /\ future'[t][j] # None => j \in Planned(t)'
             /\ future'[t][j] \in {"skipped", "complete"} => j \in complete'
  <2>1. CASE t = s /\ j = i
    <3>1. i \in Planned(t)'
      BY <2>1, PlanIsFixed
    <3> QED
      BY <1>2, <2>1, <3>1
  <2>2. CASE t # s \/ j # i
    <3>1. future'[t][j] = future[t][j]
      BY <1>2, <2>2
    <3> QED
      BY <3>1, PlanIsFixed DEF FuturesInv
  <2> QED
    BY <2>1, <2>2
<1> QED
  BY <1>3 DEF FuturesInv

\* The futures of one sweep change, to nothing that has finished.
LEMMA SweepFuturesInv ==
    ASSUME FuturesInv, complete \subseteq complete', NEW s \in Sweeps,
           \A j \in 1 .. Pairs :
             \/ future'[s][j] = future[s][j]
             \/ future'[s][j] = None
             \/ /\ future'[s][j] \in {"pending", "broken", "cancelled"}
                /\ j \in Planned(s),
           \A t \in Sweeps, j \in 1 .. Pairs : t # s => future'[t][j] = future[t][j]
    PROVE  FuturesInv'
<1>1. ASSUME NEW t \in Sweeps, NEW j \in 1 .. Pairs
      PROVE  /\ future'[t][j] # None => j \in Planned(t)'
             /\ future'[t][j] \in {"skipped", "complete"} => j \in complete'
  <2>1. CASE t # s
    BY <2>1, PlanIsFixed DEF FuturesInv
  <2>2. CASE t = s /\ future'[s][j] = future[s][j]
    BY <2>2, PlanIsFixed DEF FuturesInv
  <2>3. CASE t = s /\ future'[s][j] # future[s][j]
    BY <2>3, PlanIsFixed, ForkWorldSweepConstants
  <2> QED
    BY <2>1, <2>2, <2>3
<1> QED
  BY <1>1 DEF FuturesInv

\* Submission, cancelling and a death keep the futures planned and true.
LEMMA ManyFuturesInv ==
    ASSUME Typed, FuturesInv, complete \subseteq complete', NEW s \in Sweeps,
           \/ Submit(s)
           \/ Die(s)
           \/ \E stop \in BOOLEAN : CancelPending(s, stop)
    PROVE  FuturesInv'
<1>1. \A j \in 1 .. Pairs : future[s][j] # None => j \in Planned(s)
  BY DEF FuturesInv
<1>2. CASE Submit(s)
  BY <1>2, SubmitFutures, SweepFuturesInv
<1>3. CASE Die(s)
  <2>1. \A j \in 1 .. Pairs :
          \/ future'[s][j] = future[s][j]
          \/ future'[s][j] = "broken" /\ future[s][j] # None
    BY <1>3, DieFutures, ForkWorldSweepConstants
  <2>2. \A t \in Sweeps, j \in 1 .. Pairs : t # s => future'[t][j] = future[t][j]
    BY <1>3, DieFutures
  <2> QED
    BY <1>1, <2>1, <2>2, SweepFuturesInv
<1>4. ASSUME NEW stop \in BOOLEAN, CancelPending(s, stop) PROVE FuturesInv'
  <2>1. \A j \in 1 .. Pairs :
          \/ future'[s][j] = future[s][j]
          \/ future'[s][j] = "cancelled" /\ future[s][j] # None
    BY <1>4, CancelledFutures, ForkWorldSweepConstants
  <2>2. \A t \in Sweeps, j \in 1 .. Pairs : t # s => future'[t][j] = future[t][j]
    BY <1>4, CancelledFutures
  <2> QED
    BY <1>1, <2>1, <2>2, SweepFuturesInv
<1> QED
  BY <1>2, <1>3, <1>4

LEMMA FuturesPreserved ==
    ASSUME Typed, FuturesInv, [Next]_vars
    PROVE  FuturesInv'
<1>0. complete \subseteq complete'
  BY CompleteGrows
<1>1. ASSUME UNCHANGED <<future, complete>> PROVE FuturesInv'
  BY <1>1, PlanIsFixed DEF FuturesInv
<1>2. ASSUME NEW s \in Sweeps, Prepare(s) PROVE FuturesInv'
  <2>1. CASE Submit(s)
    BY <1>0, <2>1, ManyFuturesInv
  <2>2. CASE ~Submit(s)
    BY <1>1, <1>2, <2>2 DEF Prepare, Ensure, Pretrain, Save, TrainingFails, NextLevel
  <2> QED
    BY <2>1, <2>2
<1>3. ASSUME NEW s \in Sweeps, Pool(s) PROVE FuturesInv'
  <2>1. CASE HandOut(s)
    <3>1. PICK i \in Planned(s) : future' = [future EXCEPT ![s][i] = "queued"]
      BY <2>1 DEF HandOut, In
    <3>2. "queued" \in FutureStates /\ "queued" \notin {"skipped", "complete"}
      BY DEF FutureStates
    <3> QED
      BY <1>0, <3>1, <3>2, OneFutureInv
  <2>2. CASE Start(s)
    <3>1. PICK i \in Planned(s) :
            /\ future' = [future EXCEPT ![s][i] = IF Skips(i) THEN "skipped" ELSE "running"]
            /\ complete' = complete
      BY <2>2 DEF Start, In
    <3>2. CASE Skips(i)
      <4>1. "skipped" \in FutureStates /\ i \in complete'
        BY <3>1, <3>2 DEF Skips, FutureStates, Finished
      <4>2. future' = [future EXCEPT ![s][i] = "skipped"]
        BY <3>1, <3>2
      <4> QED
        BY <1>0, <4>1, <4>2, OneFutureInv
    <3>3. CASE ~Skips(i)
      <4>1. "running" \in FutureStates
        BY DEF FutureStates
      <4>2. future' = [future EXCEPT ![s][i] = "running"]
        BY <3>1, <3>3
      <4> QED
        BY <1>0, <4>1, <4>2, OneFutureInv
    <3> QED
      BY <3>2, <3>3
  <2>3. CASE Evaluate(s)
    BY <1>1, <2>3 DEF Evaluate
  <2>4. CASE Finish(s)
    <3>1. PICK i \in Planned(s) :
            \/ /\ complete' = complete \cup {i}
               /\ future' = [future EXCEPT ![s][i] = "complete"]
            \/ \E outcome \in {"failed", "raised"} :
                 future' = [future EXCEPT ![s][i] = outcome]
      BY <2>4 DEF Finish, In
    <3>2. {"complete", "failed", "raised"} \subseteq FutureStates
      BY DEF FutureStates, Finished
    <3>3. CASE /\ complete' = complete \cup {i}
               /\ future' = [future EXCEPT ![s][i] = "complete"]
      BY <1>0, <3>2, <3>3, OneFutureInv
    <3>4. ASSUME NEW outcome \in {"failed", "raised"},
                 future' = [future EXCEPT ![s][i] = outcome]
          PROVE  FuturesInv'
      BY <1>0, <3>2, <3>4, OneFutureInv
    <3> QED
      BY <3>1, <3>3, <3>4
  <2> QED
    BY <1>3, <2>1, <2>2, <2>3, <2>4 DEF Pool
<1>4. ASSUME NEW s \in Sweeps, Die(s) PROVE FuturesInv'
  BY <1>0, <1>4, ManyFuturesInv
<1>5. ASSUME NEW s \in Sweeps, Coordinate(s) PROVE FuturesInv'
  <2>1. CASE Collect(s)
    <3>1. \E stop \in BOOLEAN : CancelPending(s, stop)
      BY <2>1, ForkWorldSweepConstants DEF Collect
    <3> QED
      BY <1>0, <3>1, ManyFuturesInv
  <2>2. CASE CollectError(s) \/ CollectedAll(s) \/ Leave(s)
    BY <1>1, <2>2 DEF CollectError, CollectedAll, Leave
  <2> QED
    BY <1>5, <2>1, <2>2 DEF Coordinate
<1> QED
  BY <1>1, <1>2, <1>3, <1>4, <1>5 DEF Next, AllReturned, vars

LEMMA FuturesHold == Spec => [](Typed /\ FuturesInv)
<1>1. Init => FuturesInv
  BY ForkWorldSweepConstants DEF Init, FuturesInv
<1> QED
  BY <1>1, InitType, TypePreserved, FuturesPreserved, PTL DEF Spec

\* Whatever the number of shards and pairs: at no time do two sweeps execute
\* one run, since a future is of a planned pair and shards are disjoint.
THEOREM OwnerIsUnique ==
    ASSUME AreShards
    PROVE  Spec => []RunHasOneOwner
<1>1. FuturesInv => RunHasOneOwner
  <2> SUFFICES ASSUME FuturesInv, NEW i \in 1 .. Pairs
               PROVE  Cardinality({s \in Sweeps : future[s][i] = "running"}) <= 1
    BY DEF RunHasOneOwner
  <2> DEFINE owners == {s \in Sweeps : future[s][i] = "running"}
  <2>1. \A s, t \in owners : s = t
    BY ShardsAreDisjoint, ForkWorldSweepConstants DEF FuturesInv
  <2> HIDE DEF owners
  <2>2. owners = {} \/ \E s : owners = {s}
    <3>1. ASSUME NEW s \in owners PROVE owners = {s}
      BY <2>1
    <3> QED
      BY <3>1
  <2>3. Cardinality(owners) = 0 \/ Cardinality(owners) = 1
    BY <2>2, FS_EmptySet, FS_Singleton
  <2> QED
    BY <2>3 DEF owners
<1> QED
  BY <1>1, FuturesHold, PTL

-------------------------------------------------------------------------------
\* Outcomes.

\* The pairs of a longer list of results.
LEMMA CollectedGrows ==
    ASSUME Typed, NEW s \in Sweeps, Collect(s)
    PROVE  \E i \in Planned(s) :
             /\ i \notin Collected(s) /\ future[s][i] \in Finished
             /\ Collected(s)' = Collected(s) \cup {i}
             /\ Len(results'[s]) = Len(results[s]) + 1 /\ Len(results[s]) \in Nat
             /\ results'[s][Len(results[s]) + 1] = [pair |-> i, status |-> future[s][i]]
             /\ \A k \in 1 .. Len(results[s]) : results'[s][k] = results[s][k]
             /\ \A t \in Sweeps : t # s => results'[t] = results[t]
             /\ IF FailFast /\ future[s][i] = "failed" THEN Goto(s, "shutdown") ELSE UNCHANGED pc
<1>1. PICK i \in Planned(s) :
        /\ future[s][i] \in Finished /\ i \notin Collected(s)
        /\ results' = [results EXCEPT ![s] = Append(@, [pair |-> i, status |-> future[s][i]])]
        /\ IF FailFast /\ future[s][i] = "failed" THEN Goto(s, "shutdown") ELSE UNCHANGED pc
  BY Collects
<1> DEFINE r == [pair |-> i, status |-> future[s][i]]
           n == Len(results[s])
<1>2. r \in [pair : Planned(s), status : Finished] /\ r.pair = i
  BY <1>1
<1>3. results' = [results EXCEPT ![s] = Append(@, r)]
  BY <1>1
<1> HIDE DEF r
<1>4. /\ Len(results'[s]) = n + 1 /\ n \in Nat
      /\ results'[s][n + 1] = r
      /\ \A k \in 1 .. n : results'[s][k] = results[s][k]
      /\ \A t \in Sweeps : t # s => results'[t] = results[t]
  BY <1>2, <1>3, OneResult
<1> HIDE DEF n
<1>5. Collected(s) = {results[s][k].pair : k \in 1 .. n}
  BY DEF Collected, n
<1>6. Collected(s)' = {results'[s][k].pair : k \in 1 .. n + 1}
  BY <1>4 DEF Collected
<1>7. Collected(s)' = Collected(s) \cup {i}
  <2>1. ASSUME NEW j \in Collected(s)' PROVE j \in Collected(s) \cup {i}
    <3>1. PICK k \in 1 .. n + 1 : j = results'[s][k].pair
      BY <1>6, <2>1
    <3>2. CASE k \in 1 .. n
      BY <1>4, <1>5, <3>1, <3>2
    <3>3. CASE k = n + 1
      BY <1>2, <1>4, <3>1, <3>3
    <3> QED
      BY <1>4, <3>1, <3>2, <3>3
  <2>2. ASSUME NEW j \in Collected(s) PROVE j \in Collected(s)'
    <3>1. PICK k \in 1 .. n : j = results[s][k].pair
      BY <1>5, <2>2
    <3>2. k \in 1 .. n + 1 /\ j = results'[s][k].pair
      BY <1>4, <3>1
    <3> QED
      BY <1>6, <3>2
  <2>3. i \in Collected(s)'
    <3>1. n + 1 \in 1 .. n + 1
      BY <1>4
    <3> QED
      BY <1>2, <1>4, <1>6, <3>1
  <2> QED
    BY <2>1, <2>2, <2>3
<1> QED
  BY <1>1, <1>4, <1>7 DEF r, n

\* Only Collect changes the results.
LEMMA OnlyCollect ==
    ASSUME [Next]_vars
    PROVE  results' = results \/ \E s \in Sweeps : Collect(s)
<1>1. ASSUME NEW s \in Sweeps, Prepare(s) PROVE results' = results
  BY <1>1 DEF Prepare, Ensure, Pretrain, Save, TrainingFails, NextLevel, Submit
<1>2. ASSUME NEW s \in Sweeps, Pool(s) PROVE results' = results
  BY <1>2 DEF Pool, HandOut, Start, Evaluate, Finish
<1>3. ASSUME NEW s \in Sweeps, Die(s) \/ CollectError(s) \/ CollectedAll(s) \/ Leave(s)
      PROVE  results' = results
  BY <1>3 DEF Die, CollectError, CollectedAll, Leave
<1> QED
  BY <1>1, <1>2, <1>3 DEF Next, Coordinate, AllReturned, vars

LEMMA ResultsPreserved ==
    ASSUME Typed, FuturesInv, ResultsAreTrue, [Next]_vars
    PROVE  ResultsAreTrue'
<1>0. complete \subseteq complete'
  BY CompleteGrows
<1>1. CASE results' = results
  BY <1>0, <1>1 DEF ResultsAreTrue, Collected
<1>2. ASSUME NEW s \in Sweeps, Collect(s) PROVE ResultsAreTrue'
  <2> DEFINE n == Len(results[s])
  <2>1. PICK i \in Planned(s) :
          /\ i \notin Collected(s) /\ future[s][i] \in Finished
          /\ Collected(s)' = Collected(s) \cup {i}
          /\ Len(results'[s]) = n + 1 /\ n \in Nat
          /\ results'[s][n + 1] = [pair |-> i, status |-> future[s][i]]
          /\ \A k \in 1 .. n : results'[s][k] = results[s][k]
          /\ \A t \in Sweeps : t # s => results'[t] = results[t]
    BY <1>2, CollectedGrows
  <2>2. Cardinality(Collected(s)') = n + 1
    <3>1. IsFiniteSet(1 .. Pairs)
      BY FS_Interval, ForkWorldSweepConstants
    <3>2. Collected(s) \in SUBSET (1 .. Pairs)
      <4>1. \A k \in 1 .. Len(results[s]) : results[s][k].pair \in Planned(s)
        BY DEF Typed, TypeOK
      <4> QED
        BY <4>1, PlanIsFixed DEF Collected
    <3>3. IsFiniteSet(Collected(s))
      BY <3>1, <3>2, FS_Subset
    <3>4. Cardinality(Collected(s) \cup {i}) = Cardinality(Collected(s)) + 1
      BY <2>1, <3>3, FS_AddElement
    <3> QED
      BY <2>1, <3>4 DEF ResultsAreTrue
  <2>3. ASSUME NEW k \in 1 .. n + 1, results'[s][k].status # "failed"
        PROVE  results'[s][k].pair \in complete'
    <3>1. CASE k \in 1 .. n
      BY <1>0, <2>1, <2>3, <3>1 DEF ResultsAreTrue
    <3>2. CASE k = n + 1
      <4>1. future[s][i] \in {"skipped", "complete"} /\ i \in 1 .. Pairs
        BY <2>1, <2>3, <3>2, PlanIsFixed DEF Finished
      <4>2. i \in complete
        BY <4>1 DEF FuturesInv
      <4> QED
        BY <1>0, <2>1, <3>2, <4>2
    <3> QED
      BY <2>1, <2>3, <3>1, <3>2
  <2>4. ASSUME NEW t \in Sweeps, t # s
        PROVE  /\ Cardinality(Collected(t)') = Len(results'[t])
               /\ \A k \in 1 .. Len(results'[t]) :
                    results'[t][k].status # "failed" => results'[t][k].pair \in complete'
    <3>1. results'[t] = results[t]
      BY <2>1, <2>4
    <3> QED
      BY <1>0, <3>1 DEF ResultsAreTrue, Collected
  <2> QED
    BY <2>1, <2>2, <2>3, <2>4 DEF ResultsAreTrue
<1> QED
  BY <1>1, <1>2, OnlyCollect

\* For any plan, pool, failures and deaths: a sweep lists each run once, and
\* what it calls complete or skipped is complete on disk.
THEOREM OutcomesAreTrue == Spec => []ResultsAreTrue
<1>1. Init => ResultsAreTrue
  <2> SUFFICES ASSUME Init, NEW s \in Sweeps
               PROVE  /\ Cardinality(Collected(s)) = Len(results[s])
                      /\ 1 .. Len(results[s]) = {}
    BY DEF ResultsAreTrue
  <2>1. Len(results[s]) = 0
    BY DEF Init
  <2>2. 1 .. Len(results[s]) = {}
    BY <2>1
  <2>3. Collected(s) = {}
    BY <2>2 DEF Collected
  <2> QED
    BY <2>1, <2>2, <2>3, FS_EmptySet
<1> QED
  BY <1>1, FuturesHold, ResultsPreserved, PTL DEF Spec

-------------------------------------------------------------------------------
\* The plan is covered.

\* Leaving the loop is for having collected all, or for a failure.
LEMMA CollectedPreserved ==
    ASSUME Typed, CollectedInv, [Next]_vars
    PROVE  CollectedInv'
<1> DEFINE Excused(s) ==
             \/ Collected(s) = Planned(s)
             \/ FailFast /\ \E k \in 1 .. Len(results[s]) : results[s][k].status = "failed"
<1>1. ASSUME NEW s \in Sweeps, results'[s] = results[s] PROVE Excused(s)' <=> Excused(s)
  BY <1>1, PlanIsFixed DEF Collected
<1>2. SUFFICES ASSUME NEW s \in Sweeps, pc'[s] \in {"shutdown", "returned"}
               PROVE  Excused(s)'
  BY DEF CollectedInv
<1>3. CASE results'[s] = results[s] /\ pc[s] \in {"shutdown", "returned"}
  BY <1>1, <1>3 DEF CollectedInv
<1> HIDE DEF Excused
<1>4. ASSUME NEW t \in Sweeps, Prepare(t) PROVE Excused(s)'
  <2>1. results' = results
    BY <1>4 DEF Prepare, Ensure, Pretrain, Save, TrainingFails, NextLevel, Submit
  <2>2. pc[s] \in {"shutdown", "returned"}
    BY <1>2, <1>4 DEF Prepare, Ensure, Pretrain, Save, TrainingFails, NextLevel, Submit,
       Goto, Typed, TypeOK
  <2> QED
    BY <1>3, <2>1, <2>2
<1>5. ASSUME NEW t \in Sweeps, Pool(t) \/ Die(t) PROVE Excused(s)'
  <2>1. results' = results /\ pc' = pc
    BY <1>5 DEF Pool, HandOut, Start, Evaluate, Finish, Die
  <2> QED
    BY <1>2, <1>3, <2>1
<1>6. ASSUME NEW t \in Sweeps, Collect(t) PROVE Excused(s)'
  <2>1. PICK i \in Planned(t) :
          /\ Len(results'[t]) = Len(results[t]) + 1 /\ Len(results[t]) \in Nat
          /\ results'[t][Len(results[t]) + 1] = [pair |-> i, status |-> future[t][i]]
          /\ \A u \in Sweeps : u # t => results'[u] = results[u]
          /\ IF FailFast /\ future[t][i] = "failed" THEN Goto(t, "shutdown") ELSE UNCHANGED pc
    BY <1>6, CollectedGrows
  <2>2. pc[t] = "collect"
    BY <1>6 DEF Collect
  <2>3. CASE s # t
    BY <1>2, <1>3, <2>1, <2>3 DEF Goto, Typed, TypeOK
  <2>4. CASE s = t
    <3>1. FailFast /\ future[t][i] = "failed"
      BY <1>2, <2>1, <2>2, <2>4
    <3>2. Len(results[t]) + 1 \in 1 .. Len(results'[t])
      BY <2>1
    <3>3. results'[t][Len(results[t]) + 1].status = "failed"
      BY <2>1, <3>1
    <3> QED
      BY <2>4, <3>1, <3>2, <3>3 DEF Excused
  <2> QED
    BY <2>3, <2>4
<1>7. ASSUME NEW t \in Sweeps, CollectError(t) \/ Leave(t) PROVE Excused(s)'
  <2>1. results' = results
    BY <1>7 DEF CollectError, Leave
  <2>2. pc[s] \in {"shutdown", "returned"}
    BY <1>2, <1>7 DEF CollectError, Leave, Goto, Typed, TypeOK
  <2> QED
    BY <1>3, <2>1, <2>2
<1>8. ASSUME NEW t \in Sweeps, CollectedAll(t) PROVE Excused(s)'
  <2>1. results' = results
    BY <1>8 DEF CollectedAll
  <2>2. CASE s # t
    <3>1. pc[s] \in {"shutdown", "returned"}
      BY <1>2, <1>8, <2>2 DEF CollectedAll, Goto, Typed, TypeOK
    <3> QED
      BY <1>3, <2>1, <3>1
  <2>3. CASE s = t
    BY <1>1, <1>8, <2>1, <2>3 DEF CollectedAll, Excused
  <2> QED
    BY <2>2, <2>3
<1> QED
  BY <1>2, <1>3, <1>4, <1>5, <1>6, <1>7, <1>8 DEF Next, Coordinate, AllReturned, vars

\* For any number of shards and any plan that is not capped: when all of them
\* have returned, every pair is complete or reported as failed, or a
\* fail-fast shard has stopped for a failure.
THEOREM PlanIsCovered ==
    ASSUME AreAllShards
    PROVE  Spec => []ShardsCoverThePlan
<1>1. Init => CollectedInv
  BY DEF Init, CollectedInv
<1>2. Typed /\ CollectedInv /\ ResultsAreTrue => ShardsCoverThePlan
  <2> SUFFICES ASSUME Typed, CollectedInv, ResultsAreTrue,
                      \A s \in Sweeps : pc[s] = "returned", NEW i \in 1 .. Pairs
               PROVE  \/ i \in complete
                      \/ \E s \in Sweeps : \E k \in 1 .. Len(results[s]) :
                           \/ results[s][k] = [pair |-> i, status |-> "failed"]
                           \/ FailFast /\ results[s][k].status = "failed"
    BY DEF ShardsCoverThePlan
  <2>1. PICK s \in Sweeps : i \in Planned(s)
    BY ShardsCover
  <2>2. CASE i \in Collected(s)
    <3>1. PICK k \in 1 .. Len(results[s]) : results[s][k].pair = i
      BY <2>2 DEF Collected
    <3>2. results[s][k] \in [pair : Planned(s), status : Finished]
      BY DEF Typed, TypeOK
    <3>3. CASE results[s][k].status = "failed"
      BY <3>1, <3>2, <3>3
    <3>4. CASE results[s][k].status # "failed"
      BY <3>1, <3>4 DEF ResultsAreTrue
    <3> QED
      BY <3>3, <3>4
  <2>3. CASE i \notin Collected(s)
    BY <2>1, <2>3 DEF CollectedInv
  <2> QED
    BY <2>2, <2>3
<1>3. Spec => []CollectedInv
  BY <1>1, CollectedPreserved, InitType, TypePreserved, PTL DEF Spec
<1> QED
  BY <1>2, <1>3, FuturesHold, OutcomesAreTrue, PTL

-------------------------------------------------------------------------------
\* The navigators of the evaluation.

\* A sweep that has left preparation has seen both checkpoints answer its
\* request, and so they did when its futures were made.
NavigatorsInv ==
    \A s \in Sweeps :
      /\ pc[s] \in {"submit", "collect", "shutdown", "unwinding", "returned"} => AllCompatible(s)
      /\ pc[s] = "pretrained" => Compatible(s, Levels[level[s]])
      /\ level[s] = 2 => Compatible(s, "fork")
      /\ \A i \in 1 .. Pairs : future[s][i] # None => AllCompatible(s)

\* What has been evaluated was with the owner's navigators, the fork first,
\* and a completed run has both.
EvaluationInv ==
    \A s \in Sweeps, i \in 1 .. Pairs : i \in Planned(s) =>
      /\ evaluated[i].fork \in {None, Request[s]}
      /\ evaluated[i].navigation \in {None, Request[s]}
      /\ evaluated[i].navigation # None => evaluated[i].fork # None
      /\ future[s][i] = "complete" => evaluated[i].navigation # None

\* Both levels, or all of them.
LEMMA BothCompatible ==
    ASSUME Typed, NEW s \in Sweeps
    PROVE  AllCompatible(s) <=> Compatible(s, "fork") /\ Compatible(s, "navigation")
BY DEF AllCompatible, Typed, TypeOK

\* A checkpoint that answers the common request is replaced by another such.
LEMMA CompatibleStays ==
    ASSUME Typed, AskTheSame, [Next]_vars, NEW s \in Sweeps,
           NEW l \in {"fork", "navigation"}, Compatible(s, l)
    PROVE  Compatible(s, l)'
<1>1. CASE navigator' = navigator
  BY <1>1 DEF Compatible
<1>2. ASSUME NEW t \in Sweeps, Save(t) PROVE Compatible(s, l)'
  <2>1. Request[t] = Request[s] /\ level[t] \in 1 .. Len(Levels)
    BY DEF AskTheSame, Typed, TypeOK
  <2>2. Levels[level[t]] \in {"fork", "navigation"}
    BY <2>1, TwoLevels
  <2> DEFINE m == Levels[level[t]]
  <2>3. navigator' = [navigator EXCEPT ![m] = Request[s]]
    BY <1>2, <2>1 DEF Save
  <2> HIDE DEF m
  <2>4. navigator'[l] = navigator[l] \/ navigator'[l] = Request[s]
    BY <2>3 DEF Typed, TypeOK
  <2> QED
    BY <2>4 DEF Compatible
<1>3. ASSUME NEW t \in Sweeps, Prepare(t), ~Save(t) PROVE navigator' = navigator
  BY <1>3 DEF Prepare, Ensure, Pretrain, TrainingFails, NextLevel, Submit
<1>4. ASSUME NEW t \in Sweeps, Pool(t) \/ Die(t) PROVE navigator' = navigator
  BY <1>4 DEF Pool, HandOut, Start, Evaluate, Finish, Die
<1>5. ASSUME NEW t \in Sweeps, Coordinate(t) PROVE navigator' = navigator
  BY <1>5 DEF Coordinate, Collect, CollectError, CollectedAll, Leave
<1> QED
  BY <1>1, <1>2, <1>3, <1>4, <1>5 DEF Next, AllReturned, vars

\* Of one future that changes, nothing else does.
LEMMA OnlyOne ==
    ASSUME Typed, NEW t \in Sweeps, NEW j \in Planned(t), NEW x,
           future' = [future EXCEPT ![t][j] = x],
           NEW s \in Sweeps, NEW i \in 1 .. Pairs, future'[s][i] # future[s][i]
    PROVE  s = t /\ i = j /\ future'[s][i] = x
<1>1. future \in [Sweeps -> [1 .. Pairs -> FutureStates]]
  BY DEF Typed, TypeOK
<1>2. j \in 1 .. Pairs
  BY PlanIsFixed
<1> QED
  BY <1>1, <1>2

\* A future begins with submission.
LEMMA FuturesBegin ==
    ASSUME Typed, [Next]_vars, NEW s \in Sweeps, NEW i \in 1 .. Pairs,
           future[s][i] = None, future'[s][i] # None
    PROVE  Submit(s)
<1>1. ASSUME NEW t \in Sweeps, Prepare(t) PROVE Submit(s)
  <2>1. Submit(t)
    BY <1>1 DEF Prepare, Ensure, Pretrain, Save, TrainingFails, NextLevel
  <2> QED
    BY <2>1, SubmitFutures
<1>2. ASSUME NEW t \in Sweeps, Pool(t) PROVE FALSE
  <2>0. future' # future
    OBVIOUS
  <2>1. ~Evaluate(t)
    BY <2>0 DEF Evaluate
  <2> DEFINE Moves == \E j \in Planned(t), x \in FutureStates :
                        /\ future[t][j] \in {"pending", "queued", "running"}
                        /\ future' = [future EXCEPT ![t][j] = x]
  <2>4. {"queued", "skipped", "running", "complete", "failed", "raised"} \subseteq FutureStates
    BY DEF FutureStates, Finished
  <2>5. ASSUME HandOut(t) PROVE Moves
    BY <2>4, <2>5 DEF HandOut, In
  <2>6. ASSUME Start(t) PROVE Moves
    <3>1. PICK j \in Planned(t) :
            /\ future[t][j] = "queued"
            /\ future' = [future EXCEPT ![t][j] = IF Skips(j) THEN "skipped" ELSE "running"]
      BY <2>6 DEF Start, In
    <3>2. (IF Skips(j) THEN "skipped" ELSE "running") \in FutureStates
      BY <2>4
    <3> QED
      BY <3>1, <3>2
  <2>7. ASSUME Finish(t) PROVE Moves
    BY <2>4, <2>7 DEF Finish, In
  <2>8. Moves
    BY <1>2, <2>1, <2>5, <2>6, <2>7 DEF Pool
  <2>2. PICK j \in Planned(t), x \in FutureStates :
          /\ future[t][j] \in {"pending", "queued", "running"}
          /\ future' = [future EXCEPT ![t][j] = x]
    BY <2>8
  <2>3. s = t /\ i = j
    BY <2>2, OnlyOne
  <2> QED
    BY <2>2, <2>3, ForkWorldSweepConstants
<1>3. ASSUME NEW t \in Sweeps, Die(t) PROVE FALSE
  BY <1>3, DieFutures, ForkWorldSweepConstants
<1>4. ASSUME NEW t \in Sweeps, Coordinate(t) PROVE FALSE
  <2>1. Collect(t)
    BY <1>4 DEF Coordinate, CollectError, CollectedAll, Leave
  <2>2. PICK stop \in BOOLEAN : CancelPending(t, stop)
    BY <2>1, ForkWorldSweepConstants DEF Collect
  <2> QED
    BY <2>2, CancelledFutures, ForkWorldSweepConstants
<1> QED
  BY <1>1, <1>2, <1>3, <1>4 DEF Next, AllReturned, vars

\* A run is completed by a worker that has evaluated both levels.
LEMMA FuturesComplete ==
    ASSUME Typed, [Next]_vars, NEW s \in Sweeps, NEW i \in 1 .. Pairs,
           future[s][i] # "complete", future'[s][i] = "complete"
    PROVE  evaluated[i].navigation # None /\ evaluated' = evaluated
<1>1. ASSUME NEW t \in Sweeps, Prepare(t) PROVE FALSE
  <2>1. Submit(t)
    BY <1>1 DEF Prepare, Ensure, Pretrain, Save, TrainingFails, NextLevel
  <2> QED
    BY <2>1, SubmitFutures, ForkWorldSweepConstants
<1>2. ASSUME NEW t \in Sweeps, HandOut(t) \/ Start(t) PROVE FALSE
  <2>1. PICK j \in Planned(t), x \in {"queued", "skipped", "running"} :
          future' = [future EXCEPT ![t][j] = x]
    BY <1>2 DEF HandOut, Start, In
  <2>2. future'[s][i] = x
    BY <2>1, OnlyOne
  <2> QED
    BY <2>2
<1>3. ASSUME NEW t \in Sweeps, Evaluate(t) PROVE FALSE
  BY <1>3 DEF Evaluate
<1>4. ASSUME NEW t \in Sweeps, Finish(t)
      PROVE  evaluated[i].navigation # None /\ evaluated' = evaluated
  <2>1. PICK j \in Planned(t) :
          \/ /\ evaluated[j].navigation # None /\ evaluated' = evaluated
             /\ future' = [future EXCEPT ![t][j] = "complete"]
          \/ \E outcome \in {"failed", "raised"} :
               future' = [future EXCEPT ![t][j] = outcome]
    BY <1>4 DEF Finish, In
  <2>2. ASSUME NEW outcome \in {"failed", "raised"},
               future' = [future EXCEPT ![t][j] = outcome]
        PROVE  FALSE
    <3>1. future'[s][i] = outcome
      BY <2>2, OnlyOne
    <3> QED
      BY <3>1
  <2>3. CASE /\ evaluated[j].navigation # None /\ evaluated' = evaluated
             /\ future' = [future EXCEPT ![t][j] = "complete"]
    <3>1. i = j
      BY <2>3, OnlyOne
    <3> QED
      BY <2>3, <3>1
  <2> QED
    BY <2>1, <2>2, <2>3
<1>5. ASSUME NEW t \in Sweeps, Die(t) PROVE FALSE
  BY <1>5, DieFutures
<1>6. ASSUME NEW t \in Sweeps, Coordinate(t) PROVE FALSE
  <2>1. Collect(t)
    BY <1>6 DEF Coordinate, CollectError, CollectedAll, Leave
  <2>2. PICK stop \in BOOLEAN : CancelPending(t, stop)
    BY <2>1, ForkWorldSweepConstants DEF Collect
  <2> QED
    BY <2>2, CancelledFutures
<1> QED
  BY <1>1, <1>2, <1>3, <1>4, <1>5, <1>6 DEF Next, Pool, AllReturned, vars

\* Where a sweep that has its navigators came from.
LEMMA NavigatorsPreserved ==
    ASSUME Typed, AskTheSame, NavigatorsInv, [Next]_vars
    PROVE  NavigatorsInv'
<1> SUFFICES ASSUME NEW s \in Sweeps
             PROVE  /\ pc'[s] \in {"submit", "collect", "shutdown", "unwinding", "returned"}
                         => AllCompatible(s)'
                    /\ pc'[s] = "pretrained" => Compatible(s, Levels[level[s]])'
                    /\ level'[s] = 2 => Compatible(s, "fork")'
                    /\ \A i \in 1 .. Pairs : future'[s][i] # None => AllCompatible(s)'
  BY DEF NavigatorsInv
<1>1. Typed'
  BY TypePreserved
<1>2. AllCompatible(s) => AllCompatible(s)'
  <2>1. AllCompatible(s)' <=> Compatible(s, "fork")' /\ Compatible(s, "navigation")'
    BY <1>1 DEF AllCompatible, Typed, TypeOK
  <2> QED
    BY <2>1, BothCompatible, CompatibleStays
<1>3. \A l \in {"fork", "navigation"} : Compatible(s, l) => Compatible(s, l)'
  BY CompatibleStays
<1>4. \A i \in 1 .. Pairs : future'[s][i] # None => AllCompatible(s)'
  <2> SUFFICES ASSUME NEW i \in 1 .. Pairs, future'[s][i] # None PROVE AllCompatible(s)
    BY <1>2
  <2>1. CASE future[s][i] # None
    BY <2>1 DEF NavigatorsInv
  <2>2. CASE future[s][i] = None
    <3>1. pc[s] = "submit"
      BY <2>2, FuturesBegin DEF Submit
    <3> QED
      BY <3>1 DEF NavigatorsInv
  <2> QED
    BY <2>1, <2>2
<1>5. level[s] = 1 \/ level[s] = 2
  BY TwoLevels DEF Typed, TypeOK
<1>6. Levels[level[s]] \in {"fork", "navigation"}
  BY <1>5, TwoLevels
<1>7. CASE pc'[s] = pc[s] /\ level'[s] = level[s]
  <2>1. Compatible(s, Levels[level[s]]) => Compatible(s, Levels[level[s]])'
    <3> DEFINE l == Levels[level[s]]
    <3>1. Compatible(s, l) => navigator'[l] = Request[s]
      BY <1>3, <1>6 DEF Compatible
    <3> QED
      BY <1>7, <3>1 DEF Compatible, Levels
  <2> QED
    BY <1>2, <1>3, <1>4, <1>7, <2>1 DEF NavigatorsInv
<1>8. ASSUME NEW t \in Sweeps, t # s, Prepare(t) \/ Coordinate(t)
      PROVE  pc'[s] = pc[s] /\ level'[s] = level[s]
  BY <1>8 DEF Prepare, Ensure, Pretrain, Save, TrainingFails, NextLevel, Submit,
     Coordinate, Collect, CollectError, CollectedAll, Leave, Goto, Typed, TypeOK
<1>9. ASSUME NEW t \in Sweeps, Pool(t) \/ Die(t)
      PROVE  pc'[s] = pc[s] /\ level'[s] = level[s]
  BY <1>9 DEF Pool, HandOut, Start, Evaluate, Finish, Die
<1> DEFINE Goal == /\ pc'[s] \in {"submit", "collect", "shutdown", "unwinding", "returned"}
                         => AllCompatible(s)'
                   /\ pc'[s] = "pretrained" => Compatible(s, Levels[level[s]])'
                   /\ level'[s] = 2 => Compatible(s, "fork")'
                   /\ \A i \in 1 .. Pairs : future'[s][i] # None => AllCompatible(s)'
<1>10. CASE Ensure(s)
  <2>1. /\ pc'[s] = IF AllCompatible(s) THEN "submit" ELSE "pretrain"
        /\ level'[s] = level[s]
    BY <1>10 DEF Ensure, Goto, Typed, TypeOK
  <2> QED
    BY <1>2, <1>3, <1>4, <2>1 DEF NavigatorsInv
<1>11. CASE Pretrain(s)
  <2>1. /\ pc'[s] = IF Compatible(s, Levels[level[s]]) THEN "pretrained" ELSE "train"
        /\ level' = level /\ navigator' = navigator
    BY <1>11 DEF Pretrain, Goto, Typed, TypeOK
  <2>2. Compatible(s, Levels[level[s]])' <=> Compatible(s, Levels[level[s]])
    BY <2>1 DEF Compatible, Levels
  <2> QED
    BY <1>3, <1>4, <2>1, <2>2 DEF NavigatorsInv
<1>12. CASE Save(s)
  <2> DEFINE l == Levels[level[s]]
  <2>1. /\ pc'[s] = "pretrained" /\ level' = level
        /\ navigator' = [navigator EXCEPT ![l] = Request[s]]
    BY <1>12 DEF Save, Goto, Typed, TypeOK
  <2>2. navigator'[l] = Request[s]
    BY <1>6, <2>1 DEF Typed, TypeOK
  <2>3. Compatible(s, Levels[level[s]])'
    BY <2>1, <2>2 DEF Compatible, Levels
  <2> QED
    BY <1>3, <1>4, <2>1, <2>3 DEF NavigatorsInv
<1>13. CASE TrainingFails(s)
  <2>1. pc'[s] = "aborted" /\ level' = level
    BY <1>13 DEF TrainingFails, Goto, Typed, TypeOK
  <2> QED
    BY <1>3, <1>4, <2>1 DEF NavigatorsInv
<1>14. CASE NextLevel(s)
  <2>1. Compatible(s, Levels[level[s]])
    BY <1>14 DEF NextLevel, NavigatorsInv
  <2>2. CASE level[s] = 1
    <3>1. pc'[s] = "pretrain" /\ Compatible(s, "fork")
      BY <1>14, <2>1, <2>2, TwoLevels DEF NextLevel, Goto, Typed, TypeOK
    <3> QED
      BY <1>3, <1>4, <3>1
  <2>3. CASE level[s] = 2
    <3>1. pc'[s] = "submit" /\ level' = level /\ Compatible(s, "navigation")
      BY <1>14, <2>1, <2>3, TwoLevels DEF NextLevel, Goto, Typed, TypeOK
    <3>2. AllCompatible(s) /\ Compatible(s, "fork")
      BY <2>3, <3>1, BothCompatible DEF NavigatorsInv
    <3> QED
      BY <1>2, <1>3, <1>4, <3>1, <3>2
  <2> QED
    BY <1>5, <2>2, <2>3
<1>15. CASE Submit(s)
  <2>1. pc[s] = "submit" /\ pc'[s] = "collect" /\ level' = level
    BY <1>15 DEF Submit, Goto, Typed, TypeOK
  <2> QED
    BY <1>2, <1>3, <1>4, <2>1 DEF NavigatorsInv
<1>16. CASE Coordinate(s)
  <2>1. /\ pc[s] \in {"collect", "shutdown", "unwinding"} /\ level' = level
        /\ pc'[s] # "pretrained"
    BY <1>16 DEF Coordinate, Collect, CollectError, CollectedAll, Leave, Goto, Typed, TypeOK
  <2>2. AllCompatible(s)'
    BY <1>2, <2>1 DEF NavigatorsInv
  <2> QED
    BY <1>3, <1>4, <2>1, <2>2 DEF NavigatorsInv
<1>17. CASE UNCHANGED vars
  BY <1>7, <1>17 DEF vars
<1>18. ASSUME NEW t \in Sweeps, Prepare(t) \/ Pool(t) \/ Die(t) \/ Coordinate(t) PROVE Goal
  <2>1. CASE t # s
    BY <1>7, <1>8, <1>9, <1>18, <2>1
  <2>2. CASE t = s
    BY <1>7, <1>9, <1>10, <1>11, <1>12, <1>13, <1>14, <1>15, <1>16, <1>18, <2>2 DEF Prepare
  <2> QED
    BY <2>1, <2>2
<1> QED
  BY <1>17, <1>18 DEF Next, AllReturned

LEMMA EvaluationPreserved ==
    ASSUME Typed, AreShards, AskTheSame, FuturesInv, NavigatorsInv, EvaluationInv, [Next]_vars
    PROVE  EvaluationInv'
<1> SUFFICES ASSUME NEW s \in Sweeps, NEW i \in 1 .. Pairs, i \in Planned(s)
             PROVE  /\ evaluated'[i].fork \in {None, Request[s]}
                    /\ evaluated'[i].navigation \in {None, Request[s]}
                    /\ evaluated'[i].navigation # None => evaluated'[i].fork # None
                    /\ future'[s][i] = "complete" => evaluated'[i].navigation # None
  BY PlanIsFixed DEF EvaluationInv
<1> DEFINE Goal == /\ evaluated'[i].fork \in {None, Request[s]}
                   /\ evaluated'[i].navigation \in {None, Request[s]}
                   /\ evaluated'[i].navigation # None => evaluated'[i].fork # None
                   /\ future'[s][i] = "complete" => evaluated'[i].navigation # None
<1>1. ASSUME evaluated'[i] = evaluated[i] PROVE Goal
  BY <1>1, FuturesComplete DEF EvaluationInv
<1>2. Unevaluated.fork = None /\ Unevaluated.navigation = None
  BY DEF Unevaluated
<1>3. evaluated \in [1 .. Pairs -> [fork : Request0, navigation : Request0]]
  BY DEF Typed, TypeOK
<1>4. ASSUME NEW t \in Sweeps, i \in Planned(t) PROVE s = t
  BY <1>4, ShardsAreDisjoint
<1>5. ASSUME NEW t \in Sweeps, Prepare(t) \/ Coordinate(t) PROVE evaluated' = evaluated
  BY <1>5 DEF Prepare, Ensure, Pretrain, Save, TrainingFails, NextLevel, Submit,
     Coordinate, Collect, CollectError, CollectedAll, Leave
<1>6. ASSUME NEW t \in Sweeps, HandOut(t) \/ Start(t) PROVE evaluated' = evaluated
  BY <1>6 DEF HandOut, Start
<1>7. ASSUME NEW t \in Sweeps, Evaluate(t) PROVE Goal
  <2>1. PICK j \in Planned(t), l \in {"fork", "navigation"} :
          /\ future[t][j] = "running"
          /\ l = "navigation" => evaluated[j].fork # None
          /\ evaluated' = [evaluated EXCEPT ![j][l] = navigator[l]]
          /\ future' = future
    BY <1>7 DEF Evaluate, In, Typed, TypeOK
  <2>2. j \in 1 .. Pairs
    BY PlanIsFixed
  <2>3. /\ evaluated'[j][l] = navigator[l]
        /\ l = "fork" => evaluated'[j].navigation = evaluated[j].navigation
        /\ l = "navigation" => evaluated'[j].fork = evaluated[j].fork
        /\ \A k \in 1 .. Pairs : k # j => evaluated'[k] = evaluated[k]
    BY <2>1, <2>2, EvaluateType
  <2>4. CASE i # j
    BY <1>1, <2>3, <2>4
  <2>5. CASE i = j
    <3>1. s = t
      BY <1>4, <2>5
    <3>2. AllCompatible(s)
      BY <2>1, <2>2, <3>1, ForkWorldSweepConstants DEF NavigatorsInv
    <3>3. navigator[l] = Request[s] /\ Request[s] # None
      BY <3>2, BothCompatible, ForkWorldSweepConstants DEF Compatible
    <3>4. future'[s][i] # "complete"
      BY <2>1, <2>5, <3>1
    <3>5. /\ evaluated[i].fork \in {None, Request[s]}
          /\ evaluated[i].navigation \in {None, Request[s]}
          /\ evaluated[i].navigation # None => evaluated[i].fork # None
      BY DEF EvaluationInv
    <3>6. CASE l = "fork"
      BY <2>3, <2>5, <3>3, <3>4, <3>5, <3>6
    <3>7. CASE l = "navigation"
      BY <2>1, <2>3, <2>5, <3>3, <3>4, <3>5, <3>7
    <3> QED
      BY <3>6, <3>7
  <2> QED
    BY <2>4, <2>5
<1>8. ASSUME NEW t \in Sweeps, Finish(t) PROVE Goal
  <2>1. PICK j \in Planned(t) :
          \/ evaluated' = evaluated
          \/ /\ evaluated' = [evaluated EXCEPT ![j] = Unevaluated]
             /\ \E outcome \in {"failed", "raised"} :
                  future' = [future EXCEPT ![t][j] = outcome]
    BY <1>8 DEF Finish, In
  <2>2. CASE evaluated' = evaluated \/ i # j
    BY <1>1, <1>3, <2>1, <2>2
  <2>3. ASSUME i = j, evaluated' = [evaluated EXCEPT ![j] = Unevaluated],
               NEW outcome \in {"failed", "raised"},
               future' = [future EXCEPT ![t][j] = outcome]
        PROVE  Goal
    <3>1. s = t
      BY <1>4, <2>3
    <3>2. future'[s][i] = outcome
      BY <2>3, <3>1 DEF Typed, TypeOK
    <3>3. evaluated'[i] = Unevaluated
      BY <1>3, <2>3
    <3> QED
      BY <1>2, <3>2, <3>3
  <2> QED
    BY <2>1, <2>2, <2>3
<1>9. ASSUME NEW t \in Sweeps, Die(t) PROVE Goal
  <2>1. evaluated'[i] = IF future[t][i] = "running" THEN Unevaluated ELSE evaluated[i]
    BY <1>9 DEF Die
  <2>2. CASE future[t][i] = "running"
    <3>1. i \in Planned(t)
      BY <2>2, ForkWorldSweepConstants DEF FuturesInv
    <3>2. s = t
      BY <1>4, <3>1
    <3>3. future'[s][i] = "broken"
      BY <1>9, <2>2, <3>2, DieFutures
    <3> QED
      BY <1>2, <2>1, <2>2, <3>3
  <2>3. CASE future[t][i] # "running"
    BY <1>1, <2>1, <2>3
  <2> QED
    BY <2>2, <2>3
<1> HIDE DEF Goal
<1>10. ASSUME UNCHANGED vars PROVE Goal
  BY <1>1, <1>10 DEF vars
<1>11. ASSUME NEW t \in Sweeps, Prepare(t) \/ Pool(t) \/ Die(t) \/ Coordinate(t) PROVE Goal
  BY <1>1, <1>5, <1>6, <1>7, <1>8, <1>9, <1>11 DEF Pool
<1>12. Goal
  BY <1>10, <1>11 DEF Next, AllReturned
<1> QED
  BY <1>12 DEF Goal

\* For any number of shards that ask for one navigator, whoever trains it and
\* however often it is replaced: a complete run was evaluated with it.
THEOREM NavigatorsAreRequested ==
    ASSUME AreShards, AskTheSame
    PROVE  Spec => []EvaluatedAsRequested
<1> DEFINE Inv == Typed /\ FuturesInv /\ NavigatorsInv /\ EvaluationInv
<1>1. Init => NavigatorsInv
  BY DEF Init, NavigatorsInv
<1>2. Init => EvaluationInv
  BY ForkWorldSweepConstants DEF Init, EvaluationInv, Unevaluated
<1>3. Init => FuturesInv
  BY ForkWorldSweepConstants DEF Init, FuturesInv
<1>4. Inv /\ [Next]_vars => Inv'
  BY TypePreserved, FuturesPreserved, NavigatorsPreserved, EvaluationPreserved
<1>5. Inv => EvaluatedAsRequested
  <2> SUFFICES ASSUME Inv, NEW s \in Sweeps, NEW i \in In(s, {"complete"})
               PROVE  evaluated[i] = [fork |-> Request[s], navigation |-> Request[s]]
    BY DEF EvaluatedAsRequested
  <2>1. i \in Planned(s) /\ future[s][i] = "complete" /\ i \in 1 .. Pairs
    BY PlanIsFixed DEF In
  <2>2. evaluated[i].fork = Request[s] /\ evaluated[i].navigation = Request[s]
    BY <2>1 DEF EvaluationInv
  <2>3. evaluated[i] \in [fork : Request0, navigation : Request0]
    BY <2>1 DEF Typed, TypeOK
  <2> QED
    BY <2>2, <2>3
<1> QED
  BY <1>1, <1>2, <1>3, <1>4, <1>5, InitType, PTL DEF Spec

===============================================================================

-------------------------- MODULE ForkWorldRunProofs --------------------------
(***************************************************************************)
(* What holds of a run directory for any checkpoints, levels, rows and      *)
(* number of attempts.  Types are kept by any number of workers; what       *)
(* COMPLETE stands for, and that nobody touches a completed run, by the     *)
(* one process per run that the launcher promises.                          *)
(***************************************************************************)
EXTENDS ForkWorldRun, SequenceTheorems, TLAPS

-------------------------------------------------------------------------------
\* The orders of files.

LEMMA CheckpointFacts ==
    /\ Len(Checkpoints) \in Nat /\ DOMAIN Checkpoints = 1 .. Len(Checkpoints)
    /\ \A j \in 1 .. Len(Checkpoints) : Checkpoints[j] \in CheckpointNames
    /\ \A f \in CheckpointNames : \E j \in 1 .. Len(Checkpoints) : f = Checkpoints[j]
    /\ CheckpointNames \cap {"run_dir", "metrics", "predictions", "resolved_config",
                             "metadata", "status", "summary", "COMPLETE"} = {}
<1>1. Len(Checkpoints) \in Nat /\ DOMAIN Checkpoints = 1 .. Len(Checkpoints)
  BY ForkWorldConstants
<1> QED
  BY <1>1, ForkWorldConstants DEF CheckpointNames

LEMMA LevelFacts ==
    /\ Len(Levels) \in Nat /\ DOMAIN Levels = 1 .. Len(Levels)
    /\ Levels = << >> <=> Len(Levels) = 0
<1>1. Levels \in Seq({Levels[i] : i \in DOMAIN Levels})
  BY ForkWorldConstants
<1> QED
  BY <1>1

\* The unlinks: five fixed names, then the checkpoints.
LEMMA ResetFacts ==
    /\ Len(ResetOrder) = 5 + Len(Checkpoints)
    /\ ResetOrder[1] = "metrics" /\ ResetOrder[2] = "predictions" /\ ResetOrder[3] = "summary"
    /\ ResetOrder[4] = "status" /\ ResetOrder[5] = "COMPLETE"
    /\ \A j \in 1 .. Len(ResetOrder) : j > 5 => ResetOrder[j] \in CheckpointNames
<1> DEFINE fixed == <<"metrics", "predictions", "summary", "status", "COMPLETE">>
           S == {"metrics", "predictions", "summary", "status", "COMPLETE"} \cup CheckpointNames
<1>1. fixed \in Seq(S) /\ Len(fixed) = 5
  OBVIOUS
<1>2. Checkpoints \in Seq(S)
  <2>1. Checkpoints \in Seq(CheckpointNames)
    BY ForkWorldConstants DEF CheckpointNames
  <2> QED
    BY <2>1
<1>3. /\ fixed[1] = "metrics" /\ fixed[2] = "predictions" /\ fixed[3] = "summary"
      /\ fixed[4] = "status" /\ fixed[5] = "COMPLETE"
  OBVIOUS
<1>4. ResetOrder = fixed \o Checkpoints
  BY DEF ResetOrder
<1> HIDE DEF fixed, S
<1>8. /\ Len(ResetOrder) = Len(fixed) + Len(Checkpoints)
      /\ \A i \in 1 .. Len(fixed) + Len(Checkpoints) :
           ResetOrder[i] = IF i <= Len(fixed) THEN fixed[i] ELSE Checkpoints[i - Len(fixed)]
  BY <1>1, <1>2, <1>4, ConcatProperties
<1>5. Len(ResetOrder) = 5 + Len(Checkpoints)
  BY <1>1, <1>8
<1>6. \A j \in 1 .. 5 : ResetOrder[j] = fixed[j]
  BY <1>1, <1>8, CheckpointFacts
<1>7. ASSUME NEW j \in 1 .. Len(ResetOrder), j > 5
      PROVE  ResetOrder[j] \in CheckpointNames
  <2>1. ResetOrder[j] = Checkpoints[j - 5]
    BY <1>1, <1>5, <1>7, <1>8, CheckpointFacts
  <2>2. j - 5 \in 1 .. Len(Checkpoints)
    BY <1>5, <1>7, CheckpointFacts
  <2> QED
    BY <2>1, <2>2, CheckpointFacts
<1> QED
  BY <1>3, <1>5, <1>6, <1>7

\* Every name an order lists is a file of the directory.
LEMMA OrderedFiles ==
    /\ \A j \in 1 .. Len(ResetOrder) : ResetOrder[j] \in Files \ {"run_dir"}
    /\ \A j \in 1 .. 3 : PrepareOrder[j] \in Written /\ FinalizeOrder[j] \in Written
    /\ Len(PrepareOrder) = 3 /\ Len(FinalizeOrder) = 3
    /\ PrepareOrder[1] = "resolved_config" /\ PrepareOrder[2] = "metadata"
    /\ PrepareOrder[3] = "status"
    /\ FinalizeOrder[1] = "summary" /\ FinalizeOrder[2] = "status"
    /\ FinalizeOrder[3] = "COMPLETE"
    /\ \A j \in 1 .. Len(Checkpoints) : Checkpoints[j] \in Written
    /\ Written \subseteq Files /\ Streams \subseteq Files
<1>1. \A j \in 1 .. Len(ResetOrder) : ResetOrder[j] \in Files \ {"run_dir"}
  <2> SUFFICES ASSUME NEW j \in 1 .. Len(ResetOrder)
               PROVE  ResetOrder[j] \in Files \ {"run_dir"}
    OBVIOUS
  <2>1. CASE j > 5
    BY <2>1, ResetFacts, CheckpointFacts DEF Files, Written
  <2>2. CASE j \in 1 .. 5
    BY <2>2, ResetFacts DEF Files, Written, Streams
  <2> QED
    BY <2>1, <2>2, ResetFacts, CheckpointFacts
<1>2. /\ Len(PrepareOrder) = 3 /\ Len(FinalizeOrder) = 3
      /\ PrepareOrder[1] = "resolved_config" /\ PrepareOrder[2] = "metadata"
      /\ PrepareOrder[3] = "status"
      /\ FinalizeOrder[1] = "summary" /\ FinalizeOrder[2] = "status"
      /\ FinalizeOrder[3] = "COMPLETE"
  BY DEF PrepareOrder, FinalizeOrder
<1>3. \A j \in 1 .. 3 : PrepareOrder[j] \in Written /\ FinalizeOrder[j] \in Written
  BY <1>2 DEF Written
<1> QED
  BY <1>1, <1>2, <1>3, CheckpointFacts DEF Files, Written

-------------------------------------------------------------------------------
\* Types.

Places == {"idle", "check", "begin", "reset", "prepare", "metrics",
           "predictions", "checkpoint", "navigate", "finalize", "fail"}

\* How far a worker's cursor goes where it uses it.
Reach(place) ==
    IF place = "reset" THEN Len(ResetOrder)
    ELSE IF place = "prepare" \/ place = "finalize" THEN 3
    ELSE IF place = "checkpoint" THEN Len(Checkpoints)
    ELSE IF place = "navigate" THEN Len(Levels)
    ELSE 1

\* A worker that executes has an attempt, and its cursor is within reach.
Executing ==
    \A w \in Workers :
      /\ pc[w] \notin {"idle", "check", "begin"} => me[w] \in Attempt
      /\ cursor[w] \in 1 .. Reach(pc[w])

Typed == TypeOK /\ DOMAIN rows = Streams /\ Executing

\* What a worker is and where.
ProcessTyped ==
    /\ pc \in [Workers -> Places]
    /\ cursor \in [Workers -> 1 .. Len(ResetOrder) + Len(Levels)]
    /\ force \in [Workers -> BOOLEAN]
    /\ me \in [Workers -> Attempt \cup {None}]
    /\ attempts \in 0 .. MaxAttempts
    /\ Executing

\* What the directory holds.
DirectoryTyped ==
    /\ file \in [Files -> Attempt \cup {None}]
    /\ DOMAIN rows = Streams
    /\ \A s \in Streams :
        rows[s] \subseteq [batch : Batch(s), index : 1 .. BatchRows, by : Attempt]
    /\ broken \in [Streams -> BOOLEAN]
    /\ state \in {None, "running", "failed", "complete"}

LEMMA TwoTypes == Typed <=> DirectoryTyped /\ ProcessTyped
BY DEF Typed, TypeOK, DirectoryTyped, ProcessTyped, Places

\* A cursor within reach is within its type.
LEMMA ReachFacts ==
    ASSUME NEW place \in Places
    PROVE  /\ Reach(place) \in Nat
           /\ 1 .. Reach(place) \subseteq 1 .. Len(ResetOrder) + Len(Levels)
           /\ place \notin {"checkpoint", "navigate"} => 1 \in 1 .. Reach(place)
<1>1. Len(ResetOrder) \in Nat /\ Len(ResetOrder) >= 5 /\ Len(Levels) \in Nat
      /\ Len(Checkpoints) \in Nat /\ Len(Checkpoints) <= Len(ResetOrder)
  BY ResetFacts, CheckpointFacts, LevelFacts
<1> QED
  BY <1>1 DEF Reach, Places

\* Going to a place starts the cursor again.
LEMMA GoingTo ==
    ASSUME ProcessTyped, NEW w \in Workers, NEW place \in Places,
           place = "checkpoint" => Len(Checkpoints) > 0,
           place = "navigate" => Len(Levels) > 0,
           Goto(w, place)
    PROVE  /\ pc' \in [Workers -> Places]
           /\ cursor' \in [Workers -> 1 .. Len(ResetOrder) + Len(Levels)]
           /\ pc'[w] = place /\ cursor'[w] = 1
           /\ \A v \in Workers : v # w => pc'[v] = pc[v] /\ cursor'[v] = cursor[v]
           /\ cursor'[w] \in 1 .. Reach(pc'[w])
<1>1. 1 \in 1 .. Reach(place)
  BY ReachFacts, CheckpointFacts, LevelFacts DEF Reach
<1>2. 1 \in 1 .. Len(ResetOrder) + Len(Levels)
  BY <1>1, ReachFacts
<1> QED
  BY <1>1, <1>2 DEF Goto, ProcessTyped

\* One step further within the same place.
LEMMA GoingOn ==
    ASSUME ProcessTyped, NEW w \in Workers, cursor[w] < Reach(pc[w]),
           cursor' = [cursor EXCEPT ![w] = @ + 1], UNCHANGED pc
    PROVE  /\ cursor' \in [Workers -> 1 .. Len(ResetOrder) + Len(Levels)]
           /\ cursor'[w] = cursor[w] + 1
           /\ \A v \in Workers : v # w => cursor'[v] = cursor[v]
           /\ cursor'[w] \in 1 .. Reach(pc'[w])
<1>1. pc[w] \in Places /\ cursor[w] \in 1 .. Reach(pc[w])
  BY DEF ProcessTyped, Executing
<1>2. Reach(pc[w]) \in Nat
  BY <1>1, ReachFacts
<1>3. cursor[w] + 1 \in 1 .. Reach(pc[w])
  BY <1>1, <1>2
<1>4. cursor[w] + 1 \in 1 .. Len(ResetOrder) + Len(Levels)
  BY <1>1, <1>3, ReachFacts
<1>5. cursor \in [Workers -> 1 .. Len(ResetOrder) + Len(Levels)]
  BY DEF ProcessTyped
<1> QED
  BY <1>3, <1>4, <1>5

\* Wherever a step leads: one place further, to another place, or out.
LEMMA ProcessStep ==
    ASSUME ProcessTyped, NEW w \in Workers,
           \/ Leave(w)
           \/ /\ Stay
              /\ \/ cursor[w] < Reach(pc[w]) /\ cursor' = [cursor EXCEPT ![w] = @ + 1] /\ UNCHANGED pc
                 \/ \E place \in Places :
                      /\ Goto(w, place)
                      /\ place = "checkpoint" => Len(Checkpoints) > 0
                      /\ place = "navigate" => Len(Levels) > 0
                      /\ place \notin {"idle", "check", "begin"} => me[w] \in Attempt
    PROVE  ProcessTyped'
<1>1. CASE Leave(w)
  <2>1. /\ pc' \in [Workers -> Places]
        /\ cursor' \in [Workers -> 1 .. Len(ResetOrder) + Len(Levels)]
        /\ pc'[w] = "idle" /\ cursor'[w] \in 1 .. Reach(pc'[w])
        /\ \A v \in Workers : v # w => pc'[v] = pc[v] /\ cursor'[v] = cursor[v]
    BY <1>1, GoingTo DEF Leave, Places
  <2>2. /\ force' \in [Workers -> BOOLEAN] /\ me' \in [Workers -> Attempt \cup {None}]
        /\ \A v \in Workers : v # w => me'[v] = me[v]
        /\ attempts' = attempts
    BY <1>1 DEF Leave, ProcessTyped
  <2> QED
    BY <2>1, <2>2 DEF ProcessTyped, Executing, Reach
<1>2. CASE Stay /\ cursor[w] < Reach(pc[w])
           /\ cursor' = [cursor EXCEPT ![w] = @ + 1] /\ UNCHANGED pc
  <2>1. /\ cursor' \in [Workers -> 1 .. Len(ResetOrder) + Len(Levels)]
        /\ \A v \in Workers : v # w => cursor'[v] = cursor[v]
        /\ cursor'[w] \in 1 .. Reach(pc'[w])
    BY <1>2, GoingOn
  <2> QED
    BY <1>2, <2>1 DEF ProcessTyped, Executing, Stay, Reach
<1>3. ASSUME Stay, NEW place \in Places, Goto(w, place),
             place = "checkpoint" => Len(Checkpoints) > 0,
             place = "navigate" => Len(Levels) > 0,
             place \notin {"idle", "check", "begin"} => me[w] \in Attempt
      PROVE  ProcessTyped'
  <2>1. /\ pc' \in [Workers -> Places]
        /\ cursor' \in [Workers -> 1 .. Len(ResetOrder) + Len(Levels)]
        /\ pc'[w] = place /\ cursor'[w] \in 1 .. Reach(pc'[w])
        /\ \A v \in Workers : v # w => pc'[v] = pc[v] /\ cursor'[v] = cursor[v]
    BY <1>3, GoingTo
  <2> QED
    BY <1>3, <2>1 DEF ProcessTyped, Executing, Stay, Reach
<1> QED
  BY <1>1, <1>2, <1>3

\* Where an action leads.
LEMMA Steps ==
    ASSUME ProcessTyped, NEW w \in Workers,
           \/ Check(w) \/ Reset(w) \/ Prepare(w) \/ AppendRows(w) \/ SaveCheckpoint(w)
           \/ Finalize(w) \/ Fail(w) \/ AppendInterrupted(w) \/ Raise(w) \/ Crash(w)
    PROVE  ProcessTyped'
<1>0. pc[w] \in Places /\ (pc[w] \notin {"idle", "check", "begin"} => me[w] \in Attempt)
  BY DEF ProcessTyped, Executing
<1>1. CASE Check(w)
  BY <1>1, ProcessStep DEF Check, Places
<1>2. CASE Reset(w)
  <2>1. Reach(pc[w]) = Len(ResetOrder) /\ me[w] \in Attempt
    BY <1>0, <1>2 DEF Reset, Reach
  <2>2. "prepare" \in Places
    BY DEF Places
  <2> QED
    BY <1>2, <2>1, <2>2, ProcessStep DEF Reset
<1>3. CASE Prepare(w)
  <2>1. Reach(pc[w]) = Len(PrepareOrder) /\ me[w] \in Attempt
    BY <1>0, <1>3, OrderedFiles DEF Prepare, Reach
  <2>2. "metrics" \in Places
    BY DEF Places
  <2> QED
    BY <1>3, <2>1, <2>2, ProcessStep DEF Prepare
<1>4. ASSUME pc[w] \notin {"idle", "check", "begin"}, Stay, Goto(w, AfterCheckpoints)
      PROVE  ProcessTyped'
  <2>1. AfterCheckpoints \in {"finalize", "navigate"} /\ me[w] \in Attempt
    BY <1>0, <1>4 DEF AfterCheckpoints
  <2>2. AfterCheckpoints = "navigate" => Len(Levels) > 0
    BY LevelFacts DEF AfterCheckpoints
  <2>3. AfterCheckpoints \in Places /\ AfterCheckpoints # "checkpoint"
    BY <2>1 DEF Places
  <2> QED
    BY <1>4, <2>1, <2>2, <2>3, ProcessStep
<1>5. CASE AppendRows(w)
  <2>1. CASE pc[w] = "metrics"
    <3>1. Stay /\ Goto(w, "predictions") /\ me[w] \in Attempt
      BY <1>0, <1>5, <2>1 DEF AppendRows
    <3> QED
      BY <3>1, ProcessStep DEF Places
  <2>2. CASE pc[w] = "predictions" /\ Checkpoints = << >>
    <3>1. Stay /\ Goto(w, AfterCheckpoints)
      BY <1>5, <2>2 DEF AppendRows, AfterPredictions
    <3> QED
      BY <1>4, <2>2, <3>1
  <2>3. CASE pc[w] = "predictions" /\ Checkpoints # << >>
    <3>1. Stay /\ Goto(w, "checkpoint") /\ me[w] \in Attempt
      BY <1>0, <1>5, <2>3 DEF AppendRows, AfterPredictions
    <3>2. Len(Checkpoints) > 0
      BY <2>3, ForkWorldConstants
    <3> QED
      BY <3>1, <3>2, ProcessStep DEF Places
  <2>4. CASE pc[w] = "navigate"
    <3>1. Reach(pc[w]) = Len(Levels) /\ me[w] \in Attempt
      BY <1>0, <2>4 DEF Reach
    <3>2. "finalize" \in Places
      BY DEF Places
    <3> QED
      BY <1>5, <2>4, <3>1, <3>2, ProcessStep DEF AppendRows
  <2> QED
    BY <1>5, <2>1, <2>2, <2>3, <2>4 DEF AppendRows
<1>6. CASE SaveCheckpoint(w)
  <2>1. Reach(pc[w]) = Len(Checkpoints) /\ Stay /\ pc[w] = "checkpoint"
    BY <1>6 DEF SaveCheckpoint, Reach
  <2>2. CASE cursor[w] < Len(Checkpoints)
    BY <1>6, <2>1, <2>2, ProcessStep DEF SaveCheckpoint
  <2>3. CASE ~(cursor[w] < Len(Checkpoints))
    BY <1>4, <1>6, <2>1, <2>3 DEF SaveCheckpoint
  <2> QED
    BY <2>2, <2>3
<1>7. CASE Finalize(w)
  <2>1. Reach(pc[w]) = Len(FinalizeOrder)
    BY <1>7, OrderedFiles DEF Finalize, Reach
  <2> QED
    BY <1>7, <2>1, ProcessStep DEF Finalize
<1>8. CASE Fail(w) \/ Crash(w)
  BY <1>8, ProcessStep DEF Fail, Crash
<1>9. CASE AppendInterrupted(w) \/ Raise(w)
  <2>1. me[w] \in Attempt /\ "fail" \in Places
    BY <1>0, <1>9 DEF AppendInterrupted, Raise, Places
  <2> QED
    BY <1>9, <2>1, ProcessStep DEF AppendInterrupted, Raise
<1> QED
  BY <1>1, <1>2, <1>3, <1>5, <1>6, <1>7, <1>8, <1>9

\* A launch and the beginning of an execution.
LEMMA Beginnings ==
    ASSUME Typed, NEW w \in Workers, Launch(w) \/ Begin(w)
    PROVE  Typed'
<1>0. DirectoryTyped /\ ProcessTyped
  BY TwoTypes
<1>1. CASE Launch(w)
  <2>1. /\ pc' \in [Workers -> Places]
        /\ cursor' \in [Workers -> 1 .. Len(ResetOrder) + Len(Levels)]
        /\ pc'[w] = "check" /\ cursor'[w] \in 1 .. Reach(pc'[w])
        /\ \A v \in Workers : v # w => pc'[v] = pc[v] /\ cursor'[v] = cursor[v]
    BY <1>0, <1>1, GoingTo DEF Launch, Places
  <2>2. force' \in [Workers -> BOOLEAN] /\ me' = me /\ attempts' = attempts
    BY <1>0, <1>1, ForkWorldConstants DEF Launch, ProcessTyped
  <2>3. ProcessTyped'
    BY <1>0, <2>1, <2>2 DEF ProcessTyped, Executing, Reach
  <2>4. DirectoryTyped'
    BY <1>0, <1>1 DEF Launch, directory, DirectoryTyped, Batch, Attempt
  <2> QED
    BY <2>3, <2>4 DEF Typed, TypeOK, DirectoryTyped, ProcessTyped, Places
<1>2. CASE Begin(w)
  <2> DEFINE place == IF Resets(w) THEN "reset" ELSE "prepare"
  <2>1. place \in {"reset", "prepare"} /\ place \in Places /\ Goto(w, place)
    BY <1>2 DEF Begin, Places
  <2> HIDE DEF place
  <2>2. /\ pc' \in [Workers -> Places]
        /\ cursor' \in [Workers -> 1 .. Len(ResetOrder) + Len(Levels)]
        /\ pc'[w] = place /\ cursor'[w] \in 1 .. Reach(pc'[w])
        /\ \A v \in Workers : v # w => pc'[v] = pc[v] /\ cursor'[v] = cursor[v]
    BY <1>0, <2>1, GoingTo
  <2>3. attempts + 1 \in Attempt /\ attempts' \in 0 .. MaxAttempts
    BY <1>0, <1>2, ForkWorldConstants DEF Begin, ProcessTyped, Attempt
  <2>4. /\ me' \in [Workers -> Attempt \cup {None}] /\ me'[w] \in Attempt
        /\ \A v \in Workers : v # w => me'[v] = me[v]
        /\ force' = force
    BY <1>0, <1>2, <2>3 DEF Begin, ProcessTyped
  <2>5. ProcessTyped'
    BY <1>0, <2>2, <2>3, <2>4 DEF ProcessTyped, Executing, Reach, Attempt
  <2>6. file' \in [Files -> Attempt \cup {None}]
    BY <1>0, <1>2, <2>3 DEF Begin, DirectoryTyped
  <2>7. DirectoryTyped'
    BY <1>0, <1>2, <2>6 DEF Begin, DirectoryTyped, Batch, Attempt
  <2> QED
    BY <2>5, <2>7 DEF Typed, TypeOK, DirectoryTyped, ProcessTyped, Places
<1> QED
  BY <1>1, <1>2

\* What a worker appends is of the stream's batches.
LEMMA RowsType ==
    ASSUME Typed, NEW w \in Workers, pc[w] \in {"metrics", "predictions", "navigate"},
           Appending(w).batch \in Batch(Appending(w).stream)
    PROVE  /\ Appending(w).stream \in Streams
           /\ Rows(w) \subseteq [batch : Batch(Appending(w).stream), index : 1 .. BatchRows,
                                 by : Attempt]
<1>1. me[w] \in Attempt
  BY DEF Typed, Executing
<1>2. Appending(w).stream \in Streams
  BY DEF Appending, Streams
<1> HIDE DEF Appending
<1> QED
  BY <1>1, <1>2 DEF Rows

\* What each action leaves in the directory.
LEMMA DirectoryStep ==
    ASSUME Typed, NEW w \in Workers,
           \/ Check(w) \/ Reset(w) \/ Prepare(w) \/ AppendRows(w) \/ SaveCheckpoint(w)
           \/ Finalize(w) \/ Fail(w) \/ AppendInterrupted(w) \/ Raise(w) \/ Crash(w)
    PROVE  DirectoryTyped'
<1>0. DirectoryTyped /\ Executing
  BY DEF Typed, TypeOK, DirectoryTyped
<1>1. Executing /\ \A a \in Attempt : a # None
  BY <1>0, ForkWorldConstants DEF Attempt
<1>2. ASSUME NEW name, Create(name, me[w]), me[w] \in Attempt,
             state' \in {None, "running", "failed", "complete"}
      PROVE  DirectoryTyped'
  <2>1. file' \in [Files -> Attempt \cup {None}]
    BY <1>0, <1>2 DEF Create, DirectoryTyped
  <2> QED
    BY <1>0, <1>2, <2>1 DEF Create, DirectoryTyped, Batch, Attempt
<1>3. CASE UNCHANGED directory
  BY <1>0, <1>3 DEF directory, DirectoryTyped, Batch, Attempt
<1>4. CASE Check(w) \/ Raise(w) \/ Crash(w)
  BY <1>3, <1>4 DEF Check, Raise, Crash
<1>5. CASE Reset(w)
  <2> DEFINE name == ResetOrder[cursor[w]]
  <2>1. /\ file' = [file EXCEPT ![name] = None]
        /\ rows' = [s \in Streams |-> IF s = name THEN {} ELSE rows[s]]
        /\ broken' = [s \in Streams |-> broken[s] /\ s # name]
        /\ state' = IF name = "status" THEN None ELSE state
    BY <1>5 DEF Reset
  <2> HIDE DEF name
  <2>2. file' \in [Files -> Attempt \cup {None}]
    BY <1>0, <2>1 DEF DirectoryTyped
  <2>3. broken' \in [Streams -> BOOLEAN]
    BY <1>0, <2>1 DEF DirectoryTyped
  <2>4. state' \in {None, "running", "failed", "complete"}
    BY <1>0, <2>1 DEF DirectoryTyped
  <2>5. \A s \in Streams :
          rows'[s] \subseteq [batch : Batch(s), index : 1 .. BatchRows, by : Attempt]
    BY <1>0, <2>1 DEF DirectoryTyped
  <2> QED
    BY <2>1, <2>2, <2>3, <2>4, <2>5 DEF DirectoryTyped, Batch, Attempt
<1>6. CASE Prepare(w)
  BY <1>0, <1>2, <1>6 DEF Prepare, DirectoryTyped, Executing
<1>7. CASE SaveCheckpoint(w)
  BY <1>0, <1>2, <1>7 DEF SaveCheckpoint, DirectoryTyped, Executing
<1>8. CASE Finalize(w)
  BY <1>0, <1>2, <1>8 DEF Finalize, DirectoryTyped, Executing
<1>9. CASE Fail(w)
  BY <1>0, <1>2, <1>9 DEF Fail, DirectoryTyped, Executing
<1>10. ASSUME pc[w] \in {"metrics", "predictions", "navigate"},
              Appending(w).batch \in Batch(Appending(w).stream),
              NEW part \in SUBSET Rows(w),
              rows' = [rows EXCEPT ![Appending(w).stream] = @ \cup part],
              file' = [file EXCEPT ![Appending(w).stream] = IF @ = None THEN me[w] ELSE @],
              broken' \in [Streams -> BOOLEAN], state' = state
       PROVE  DirectoryTyped'
  <2>1. Appending(w).stream \in Streams /\ me[w] \in Attempt
    BY <1>0, <1>10, RowsType DEF Executing
  <2>2. part \subseteq [batch : Batch(Appending(w).stream), index : 1 .. BatchRows, by : Attempt]
    BY <1>10, RowsType
  <2>3. file' \in [Files -> Attempt \cup {None}]
    BY <1>0, <1>10, <2>1 DEF DirectoryTyped
  <2>4. /\ DOMAIN rows' = Streams
        /\ \A s \in Streams :
             \/ rows'[s] = rows[s]
             \/ s = Appending(w).stream /\ rows'[s] = rows[s] \cup part
    BY <1>0, <1>10, <2>1 DEF DirectoryTyped
  <2>5. \A s \in Streams :
          rows'[s] \subseteq [batch : Batch(s), index : 1 .. BatchRows, by : Attempt]
    BY <1>0, <1>10, <2>2, <2>4 DEF DirectoryTyped
  <2> QED
    BY <1>0, <1>10, <2>3, <2>4, <2>5 DEF DirectoryTyped, Batch, Attempt
<1>11. CASE AppendRows(w)
  <2>1. broken' = broken /\ state' = state /\ pc[w] \in {"metrics", "predictions", "navigate"}
    BY <1>11 DEF AppendRows
  <2>2. CASE Appending(w).batch \in Batch(Appending(w).stream)
    BY <1>0, <1>10, <1>11, <2>1, <2>2 DEF AppendRows, DirectoryTyped
  <2>3. CASE Appending(w).batch \notin Batch(Appending(w).stream)
    BY <1>3, <1>11, <2>1, <2>3 DEF AppendRows, directory
  <2> QED
    BY <2>2, <2>3
<1>12. CASE AppendInterrupted(w)
  <2>1. PICK k \in 0 .. BatchRows - 1, torn \in BOOLEAN :
          /\ rows' = [rows EXCEPT ![Appending(w).stream] = @ \cup {r \in Rows(w) : r.index <= k}]
          /\ broken' = [broken EXCEPT ![Appending(w).stream] = @ \/ torn]
    BY <1>12 DEF AppendInterrupted
  <2>2. /\ pc[w] \in {"metrics", "predictions", "navigate"} /\ state' = state
        /\ Appending(w).batch \in Batch(Appending(w).stream)
        /\ file' = [file EXCEPT ![Appending(w).stream] = IF @ = None THEN me[w] ELSE @]
    BY <1>12 DEF AppendInterrupted
  <2>3. broken' \in [Streams -> BOOLEAN]
    BY <1>0, <2>1 DEF DirectoryTyped
  <2> DEFINE part == {r \in Rows(w) : r.index <= k}
  <2>4. /\ part \in SUBSET Rows(w)
        /\ rows' = [rows EXCEPT ![Appending(w).stream] = @ \cup part]
    BY <2>1
  <2> HIDE DEF part
  <2> QED
    BY <1>10, <2>2, <2>3, <2>4
<1> QED
  BY <1>4, <1>5, <1>6, <1>7, <1>8, <1>9, <1>11, <1>12

LEMMA InitType == Init => Typed
<1> SUFFICES ASSUME Init PROVE Typed
  OBVIOUS
<1>1. DirectoryTyped
  BY DEF Init, DirectoryTyped
<1>2. 1 \in 1 .. Len(ResetOrder) + Len(Levels)
  BY ResetFacts, CheckpointFacts, LevelFacts
<1>3. ProcessTyped
  BY <1>2, ForkWorldConstants DEF Init, ProcessTyped, Places, Executing, Reach
<1> QED
  BY <1>1, <1>3, TwoTypes

LEMMA TypePreserved == Typed /\ [Next]_vars => Typed'
<1> SUFFICES ASSUME Typed, [Next]_vars PROVE Typed'
  OBVIOUS
<1>1. Typed' <=> DirectoryTyped' /\ ProcessTyped'
  BY DEF Typed, TypeOK, DirectoryTyped, ProcessTyped, Places
<1>2. CASE UNCHANGED vars
  BY <1>2 DEF vars, directory, process, Typed, TypeOK, Executing, Batch, Attempt, Reach
<1>3. ASSUME NEW w \in Workers, Launch(w) \/ Begin(w) PROVE Typed'
  BY <1>3, Beginnings
<1>4. ASSUME NEW w \in Workers,
             \/ Check(w) \/ Reset(w) \/ Prepare(w) \/ AppendRows(w) \/ SaveCheckpoint(w)
             \/ Finalize(w) \/ Fail(w) \/ AppendInterrupted(w) \/ Raise(w) \/ Crash(w)
      PROVE  Typed'
  BY <1>1, <1>4, TwoTypes, DirectoryStep, Steps
<1> QED
  BY <1>2, <1>3, <1>4 DEF Next, Execute

\* Every variable stays within its type, however many workers there are.
THEOREM RunTypeCorrect == Spec => []TypeOK
<1>1. Typed => TypeOK
  BY DEF Typed
<1> QED
  BY <1>1, InitType, TypePreserved, PTL DEF Spec

-------------------------------------------------------------------------------
\* One process per run.

\* The rows of some batches of attempt a.
Of(batches, a) == [batch : batches, index : 1 .. BatchRows, by : {a}]

Cleared(s) == rows[s] = {} /\ ~broken[s]

\* Without its directory a run has nothing.
RootInv ==
    ~Exists("run_dir") =>
      /\ \A f \in Files : file[f] = None
      /\ \A s \in Streams : Cleared(s)

\* A process past the test of COMPLETE was told to replace the run, or there
\* is no COMPLETE; and there is none once the directory is emptied.
GuardInv(w) ==
    /\ pc[w] \notin {"idle", "check", "begin"} => Exists("run_dir")
    /\ pc[w] \in {"begin", "reset"} /\ Complete => force[w]
    /\ pc[w] \notin {"idle", "check", "begin", "reset"} => ~Complete

\* What has been unlinked is gone.
ResetInv(w) ==
    pc[w] = "reset" =>
      \A j \in 1 .. cursor[w] - 1 :
        /\ file[ResetOrder[j]] = None
        /\ ResetOrder[j] \in Streams => Cleared(ResetOrder[j])

Executes == {"metrics", "predictions", "checkpoint", "navigate", "finalize"}

\* Configuration, metadata and status are this attempt's.
ConfiguredInv(w) ==
    /\ pc[w] = "prepare" => \A j \in 1 .. cursor[w] - 1 : file[PrepareOrder[j]] = me[w]
    /\ pc[w] \in Executes =>
         \A f \in {"resolved_config", "metadata", "status"} : file[f] = me[w]

\* The batches that are in the metrics.
Batches(w) ==
    IF pc[w] \in {"prepare", "metrics"} THEN {}
    ELSE IF pc[w] \in {"predictions", "checkpoint"} THEN {"protocol"}
    ELSE IF pc[w] = "navigate" THEN {"protocol"} \cup {Levels[j] : j \in 1 .. cursor[w] - 1}
    ELSE Batch("metrics")

\* The streams hold what this attempt has appended so far, unbroken.
RowsInv(w) ==
    pc[w] \in Executes \cup {"prepare"} =>
      /\ \A s \in Streams : ~broken[s]
      /\ rows["metrics"] = Of(Batches(w), me[w])
      /\ rows["predictions"] = IF pc[w] \in {"prepare", "metrics", "predictions"} THEN {}
                               ELSE Evidence("predictions", me[w])

\* The checkpoints that have been saved are this attempt's.
CheckpointsInv(w) ==
    /\ pc[w] = "checkpoint" => \A j \in 1 .. cursor[w] - 1 : file[Checkpoints[j]] = me[w]
    /\ pc[w] \in {"navigate", "finalize"} => \A f \in CheckpointNames : file[f] = me[w]

\* So are the files of finalize().
FinalInv(w) ==
    pc[w] = "finalize" =>
      /\ \A j \in 1 .. cursor[w] - 1 : file[FinalizeOrder[j]] = me[w]
      /\ cursor[w] = 3 => state = "complete"

RunInv(w) ==
    /\ RootInv /\ GuardInv(w) /\ ResetInv(w) /\ ConfiguredInv(w)
    /\ RowsInv(w) /\ CheckpointsInv(w) /\ FinalInv(w) /\ CompleteIsWholeOrEmptied

\* What is unlinked first, and then everything else, leaves no trace of
\* another attempt beside COMPLETE.
Emptied ==
    /\ ~Exists("metrics") /\ rows["metrics"] = {}
    /\ \A f \in {g \in Written : Exists(g)} : file[f] = file["COMPLETE"]
    /\ ~broken["predictions"]
    /\ \A r \in rows["predictions"] : r.by = file["COMPLETE"]

\* Whole or emptied, every file and prediction is of the marker's attempt.
LEMMA OfOneAttempt ==
    ASSUME Complete, CompleteIsWholeOrEmptied
    PROVE  /\ \A f \in {g \in Written : Exists(g)} : file[f] = file["COMPLETE"]
           /\ ~broken["predictions"]
           /\ \A r \in rows["predictions"] : r.by = file["COMPLETE"]
<1>1. ASSUME NEW a \in Attempt, WholeEvidence(a)
      PROVE  /\ \A f \in {g \in Written : Exists(g)} : file[f] = file["COMPLETE"]
             /\ ~broken["predictions"]
             /\ \A r \in rows["predictions"] : r.by = file["COMPLETE"]
  <2>1. \A f \in Written : file[f] = a
    BY <1>1 DEF WholeEvidence
  <2>2. file["COMPLETE"] = a
    BY <2>1 DEF Written
  <2>3. rows["predictions"] = Evidence("predictions", a) /\ ~broken["predictions"]
    BY <1>1 DEF WholeEvidence, Streams
  <2>4. \A r \in Evidence("predictions", a) : r.by = a
    BY DEF Evidence
  <2> QED
    BY <2>1, <2>2, <2>3, <2>4
<1> QED
  BY <1>1 DEF CompleteIsWholeOrEmptied

\* The process is gone, and the directory as it was.
LEMMA Leaving ==
    ASSUME Typed, NEW w \in Workers, RunInv(w), Leave(w), UNCHANGED directory
    PROVE  RunInv(w)'
<1>1. pc'[w] = "idle"
  BY DEF Leave, Goto, Typed, TypeOK
<1>2. RootInv' /\ CompleteIsWholeOrEmptied'
  BY DEF RunInv, RootInv, CompleteIsWholeOrEmptied, Complete, Exists, WholeEvidence, Cleared,
     Evidence, Batch, Attempt, directory
<1> QED
  BY <1>1, <1>2 DEF RunInv, GuardInv, ResetInv, ConfiguredInv, RowsInv, CheckpointsInv,
     FinalInv, Executes

LEMMA LaunchInv ==
    ASSUME Typed, NEW w \in Workers, RunInv(w), Launch(w) \/ Check(w)
    PROVE  RunInv(w)'
<1>1. UNCHANGED directory
  BY DEF Launch, Check
<1>2. RootInv' /\ CompleteIsWholeOrEmptied'
  BY <1>1 DEF RunInv, RootInv, CompleteIsWholeOrEmptied, Complete, Exists, WholeEvidence,
     Cleared, Evidence, Batch, Attempt, directory
<1>3. Complete' <=> Complete
  BY <1>1 DEF Complete, Exists, directory
<1>4. CASE Launch(w)
  <2>1. pc'[w] = "check"
    BY <1>4 DEF Launch, Goto, Typed, TypeOK
  <2> QED
    BY <1>2, <2>1 DEF RunInv, GuardInv, ResetInv, ConfiguredInv, RowsInv, CheckpointsInv,
       FinalInv, Executes
<1>5. CASE Check(w) /\ Skips(w)
  BY <1>1, <1>5, Leaving DEF Check
<1>6. CASE Check(w) /\ ~Skips(w)
  <2>1. pc'[w] = "begin" /\ (Complete => force'[w])
    BY <1>6 DEF Check, Skips, Goto, Stay, Typed, TypeOK
  <2> QED
    BY <1>2, <1>3, <2>1 DEF RunInv, GuardInv, ResetInv, ConfiguredInv, RowsInv,
       CheckpointsInv, FinalInv, Executes
<1> QED
  BY <1>4, <1>5, <1>6

\* Creating the directory changes nothing of what COMPLETE stands for.
LEMMA BeginInv ==
    ASSUME Typed, NEW w \in Workers, RunInv(w), Begin(w)
    PROVE  RunInv(w)'
<1> DEFINE a == attempts + 1
<1>1. a \in Attempt /\ a # None
  BY ForkWorldConstants DEF Begin, Typed, TypeOK, Attempt
<1>2. /\ file' = [file EXCEPT !["run_dir"] = IF @ = None THEN a ELSE @]
      /\ rows' = rows /\ broken' = broken /\ state' = state /\ force' = force
      /\ pc[w] = "begin"
  BY DEF Begin
<1> HIDE DEF a
<1>3. "run_dir" \in Files /\ "run_dir" \notin Written \cup Streams /\ "COMPLETE" \in Written
  BY CheckpointFacts DEF Files, Written, Streams
<1>4. file \in [Files -> Attempt \cup {None}]
  BY DEF Typed, TypeOK
<1>5. file'["run_dir"] # None /\ \A f \in Files : f # "run_dir" => file'[f] = file[f]
  BY <1>1, <1>2, <1>3, <1>4
<1>6. \A f \in Written \cup Streams : file'[f] = file[f]
  BY <1>3, <1>5, OrderedFiles
<1>7. RootInv'
  BY <1>5 DEF RootInv, Exists
<1>8. Complete' <=> Complete
  BY <1>3, <1>6 DEF Complete, Exists
<1>9. CompleteIsWholeOrEmptied'
  <2>1. ASSUME NEW b \in Attempt, WholeEvidence(b) PROVE WholeEvidence(b)'
    <3>1. \A f \in Written : file'[f] = b
      BY <1>6, <2>1 DEF WholeEvidence
    <3>2. \A s \in Streams : rows'[s] = Evidence(s, b) /\ ~broken'[s]
      BY <1>2, <2>1 DEF WholeEvidence
    <3> QED
      BY <1>2, <2>1, <3>1, <3>2 DEF WholeEvidence, Evidence, Batch, Written, CheckpointNames
  <2>2. CASE Complete /\ Emptied
    <3>1. Emptied'
      BY <1>2, <1>3, <1>6, <2>2 DEF Emptied, Exists, Streams
    <3> QED
      BY <3>1 DEF Emptied, CompleteIsWholeOrEmptied
  <2> QED
    BY <1>8, <2>1, <2>2 DEF RunInv, CompleteIsWholeOrEmptied, Emptied, Attempt
<1>10. /\ cursor'[w] = 1
       /\ pc'[w] = IF Resets(w) THEN "reset" ELSE "prepare"
  BY DEF Begin, Goto, Typed, TypeOK
<1>11. CASE Resets(w)
  BY <1>2, <1>5, <1>7, <1>8, <1>9, <1>10, <1>11
     DEF RunInv, GuardInv, ResetInv, ConfiguredInv, RowsInv, CheckpointsInv, FinalInv,
         Executes, Exists
<1>12. CASE ~Resets(w)
  <2>1. /\ \A f \in Files : file[f] = None
        /\ \A s \in Streams : rows[s] = {} /\ ~broken[s]
    BY <1>12 DEF Resets, RunInv, RootInv, Cleared
  <2>2. ~Complete
    BY <2>1, <1>3, OrderedFiles DEF Complete, Exists
  <2>3. pc'[w] = "prepare"
    BY <1>10, <1>12
  <2>4. Of(Batches(w), me[w])' = {}
    BY <2>3 DEF Of, Batches
  <2>5. RowsInv(w)'
    BY <1>2, <2>1, <2>3, <2>4 DEF RowsInv, Streams
  <2> QED
    BY <1>5, <1>7, <1>8, <1>9, <1>10, <2>2, <2>3, <2>5
       DEF RunInv, GuardInv, ResetInv, ConfiguredInv, CheckpointsInv, FinalInv, Executes, Exists
<1> QED
  BY <1>11, <1>12

\* Emptying a completed run leaves no evidence of another attempt beside the
\* marker, since the metrics go first.
LEMMA ResetPreserves ==
    ASSUME Typed, NEW w \in Workers, RunInv(w), Reset(w)
    PROVE  RunInv(w)'
<1> DEFINE c == cursor[w]
           name == ResetOrder[c]
<1>1. /\ pc[w] = "reset" /\ Stay
      /\ file' = [file EXCEPT ![name] = None]
      /\ rows' = [s \in Streams |-> IF s = name THEN {} ELSE rows[s]]
      /\ broken' = [s \in Streams |-> broken[s] /\ s # name]
  BY DEF Reset
<1>2. c \in 1 .. Len(ResetOrder) /\ Len(ResetOrder) \in Nat
  BY <1>1, ResetFacts, CheckpointFacts DEF Typed, Executing, Reach
<1>3. name \in Files /\ name # "run_dir"
  BY <1>2, OrderedFiles
<1> HIDE DEF name
<1>4. file \in [Files -> Attempt \cup {None}]
  BY DEF Typed, TypeOK
<1>5. file'[name] = None /\ \A f \in Files : f # name => file'[f] = file[f]
  BY <1>1, <1>3, <1>4
<1>6. \A s \in Streams :
        /\ s = name => rows'[s] = {} /\ ~broken'[s]
        /\ s # name => rows'[s] = rows[s] /\ (broken'[s] <=> broken[s])
        /\ rows'[s] \subseteq rows[s]
  BY <1>1 DEF Typed, TypeOK
<1>7. \A f \in Files : file[f] = None => file'[f] = None
  BY <1>5
<1>8. \A s \in Streams : Cleared(s) => Cleared(s)'
  BY <1>6 DEF Cleared
<1>9. \A j \in 1 .. c :
        /\ file'[ResetOrder[j]] = None
        /\ ResetOrder[j] \in Streams => Cleared(ResetOrder[j])'
  <2> SUFFICES ASSUME NEW j \in 1 .. c
               PROVE  /\ file'[ResetOrder[j]] = None
                      /\ ResetOrder[j] \in Streams => Cleared(ResetOrder[j])'
    OBVIOUS
  <2>1. CASE j = c
    BY <1>5, <1>6, <2>1 DEF name, Cleared, ResetOrder
  <2>2. CASE j \in 1 .. c - 1
    <3>1. /\ file[ResetOrder[j]] = None
          /\ ResetOrder[j] \in Streams => Cleared(ResetOrder[j])
      BY <1>1, <2>2 DEF RunInv, ResetInv
    <3>2. ResetOrder[j] \in Files
      BY <1>2, <2>2, OrderedFiles
    <3> QED
      BY <1>7, <1>8, <3>1, <3>2 DEF ResetOrder
  <2> QED
    BY <1>2, <2>1, <2>2
<1>10. file'["run_dir"] # None
  BY <1>1, <1>3, <1>5 DEF RunInv, GuardInv, Exists, Files
<1>11. RootInv'
  BY <1>10 DEF RootInv, Exists
<1>12. CompleteIsWholeOrEmptied'
  <2> SUFFICES ASSUME Complete' PROVE Emptied'
    BY DEF CompleteIsWholeOrEmptied, Emptied
  <2>1. "COMPLETE" \in Written /\ Written \subseteq Files /\ Streams \subseteq Files
    BY OrderedFiles DEF Written
  <2>2. Complete /\ file'["COMPLETE"] = file["COMPLETE"]
    BY <1>5, <2>1 DEF Complete, Exists
  <2>3. ~Exists("metrics")' /\ Cleared("metrics")'
    BY <1>2, <1>9, ResetFacts DEF Exists, Streams
  <2>4. /\ \A f \in {g \in Written : Exists(g)} : file[f] = file["COMPLETE"]
        /\ ~broken["predictions"]
        /\ \A r \in rows["predictions"] : r.by = file["COMPLETE"]
    BY <2>2, OfOneAttempt DEF RunInv
  <2>5. \A f \in {g \in Written : Exists(g)} : file[f] = file["COMPLETE"] /\ f \in Files
    BY <2>1, <2>4
  <2>6. ASSUME NEW f \in Written, file'[f] # None PROVE file'[f] = file'["COMPLETE"]
    <3>1. f # name /\ f \in Files
      BY <1>5, <2>1, <2>6
    <3>2. file'[f] = file[f] /\ file[f] # None
      BY <1>5, <2>6, <3>1
    <3> QED
      BY <2>2, <2>4, <3>2 DEF Exists
  <2>7. /\ ~broken'["predictions"]
        /\ \A r \in rows'["predictions"] : r.by = file'["COMPLETE"]
    BY <1>6, <2>2, <2>4 DEF Streams
  <2> QED
    BY <2>3, <2>6, <2>7 DEF Emptied, Exists, Cleared
<1>13. Complete' => Complete /\ force'[w]
  <2>1. "COMPLETE" \in Files
    BY OrderedFiles DEF Written
  <2>2. Complete' => Complete
    BY <1>7, <2>1 DEF Complete, Exists
  <2> QED
    BY <1>1, <2>2 DEF RunInv, GuardInv, Stay
<1>14. CASE c < Len(ResetOrder)
  <2>1. pc'[w] = "reset" /\ cursor'[w] = c + 1
    BY <1>1, <1>14 DEF Reset, Typed, TypeOK
  <2>2. ResetInv(w)'
    <3>1. \A j \in 1 .. cursor'[w] - 1 :
            /\ file'[ResetOrder[j]] = None
            /\ ResetOrder[j] \in Streams => Cleared(ResetOrder[j])'
      BY <1>2, <1>9, <2>1
    <3> QED
      BY <3>1 DEF ResetInv, ResetOrder
  <2> QED
    BY <1>10, <1>11, <1>12, <1>13, <2>1, <2>2 DEF RunInv, GuardInv, ConfiguredInv, RowsInv,
       CheckpointsInv, FinalInv, Executes, Exists
<1>15. CASE ~(c < Len(ResetOrder))
  <2>1. pc'[w] = "prepare" /\ cursor'[w] = 1
    BY <1>1, <1>15 DEF Reset, Goto, Typed, TypeOK
  <2>2. c = Len(ResetOrder)
    BY <1>2, <1>15
  <2>3. file'["COMPLETE"] = None /\ Cleared("metrics")' /\ Cleared("predictions")'
    BY <1>9, <2>2, ResetFacts, CheckpointFacts DEF Streams
  <2>4. Of(Batches(w), me[w])' = {}
    BY <2>1 DEF Of, Batches
  <2>5. RowsInv(w)'
    BY <2>1, <2>3, <2>4 DEF RowsInv, Streams, Cleared
  <2> QED
    BY <1>10, <1>11, <1>12, <2>1, <2>3, <2>5 DEF RunInv, GuardInv, ResetInv, ConfiguredInv,
       CheckpointsInv, FinalInv, Executes, Exists, Complete
<1> QED
  BY <1>14, <1>15

\* While no COMPLETE is written, it is enough to look at the new place.
LEMMA Incomplete ==
    ASSUME ~Complete' PROVE CompleteIsWholeOrEmptied'
BY DEF CompleteIsWholeOrEmptied

LEMMA PreparePreserves ==
    ASSUME Typed, NEW w \in Workers, RunInv(w), Prepare(w)
    PROVE  RunInv(w)'
<1> DEFINE c == cursor[w]
           a == me[w]
           name == PrepareOrder[c]
<1>1. /\ pc[w] = "prepare" /\ Stay /\ rows' = rows /\ broken' = broken
      /\ file' = [file EXCEPT ![name] = a]
  BY DEF Prepare, Create
<1>2. c \in 1 .. 3 /\ a \in Attempt /\ a # None
  BY <1>1, ForkWorldConstants DEF Typed, Executing, Reach, Attempt
<1>3. name \in {"resolved_config", "metadata", "status"} /\ name \in Files
  BY <1>2, OrderedFiles
<1> HIDE DEF name
<1>4. file \in [Files -> Attempt \cup {None}] /\ me' = me
  BY <1>1 DEF Typed, TypeOK, Stay
<1>5. file'[name] = a /\ \A f \in Files : f # name => file'[f] = file[f]
  BY <1>1, <1>3, <1>4
<1>6. file'["run_dir"] # None /\ file'["COMPLETE"] = None
  BY <1>1, <1>3, <1>5 DEF RunInv, GuardInv, Exists, Complete, Files, Written
<1>7. RootInv' /\ ~Complete' /\ CompleteIsWholeOrEmptied'
  BY <1>6, Incomplete DEF RootInv, Exists, Complete
<1>8. \A j \in 1 .. c : file'[PrepareOrder[j]] = a
  <2> SUFFICES ASSUME NEW j \in 1 .. c PROVE file'[PrepareOrder[j]] = a
    OBVIOUS
  <2>1. CASE j = c
    BY <1>5, <2>1 DEF name
  <2>2. CASE j \in 1 .. c - 1
    <3>1. file[PrepareOrder[j]] = a
      BY <1>1, <2>2 DEF RunInv, ConfiguredInv
    <3>2. PrepareOrder[j] \in Files
      BY <1>2, <2>2, OrderedFiles
    <3> QED
      BY <1>5, <3>1, <3>2
  <2> QED
    BY <1>2, <2>1, <2>2
<1>9. rows'["metrics"] = {} /\ rows'["predictions"] = {} /\ \A s \in Streams : ~broken'[s]
  BY <1>1 DEF RunInv, RowsInv, Batches, Of
<1>10. CASE c < 3
  <2>1. pc'[w] = "prepare" /\ cursor'[w] = c + 1
    BY <1>10, OrderedFiles DEF Prepare, Typed, TypeOK
  <2>2. Of(Batches(w), me[w])' = {}
    BY <2>1 DEF Of, Batches
  <2>3. \A j \in 1 .. cursor'[w] - 1 : file'[PrepareOrder[j]] = me'[w]
    BY <1>2, <1>4, <1>8, <2>1
  <2>4. ConfiguredInv(w)'
    BY <2>1, <2>3 DEF ConfiguredInv, Executes, PrepareOrder
  <2> QED
    BY <1>6, <1>7, <1>9, <2>1, <2>2, <2>4 DEF RunInv, GuardInv, ResetInv, RowsInv,
       CheckpointsInv, FinalInv, Exists
<1>11. CASE ~(c < 3)
  <2>1. pc'[w] = "metrics"
    BY <1>11, OrderedFiles DEF Prepare, Goto, Typed, TypeOK
  <2>2. Of(Batches(w), me[w])' = {}
    BY <2>1 DEF Of, Batches
  <2>3. c = 3
    BY <1>2, <1>11
  <2>4. ConfiguredInv(w)'
    BY <1>4, <1>8, <2>1, <2>3, OrderedFiles DEF ConfiguredInv
  <2> QED
    BY <1>6, <1>7, <1>9, <2>1, <2>2, <2>4 DEF RunInv, GuardInv, ResetInv, RowsInv,
       CheckpointsInv, FinalInv, Exists
<1> QED
  BY <1>10, <1>11

LEMMA AppendPreserves ==
    ASSUME Typed, NEW w \in Workers, RunInv(w), AppendRows(w)
    PROVE  RunInv(w)'
<1> DEFINE a == me[w]
           s == Appending(w).stream
           batch == Appending(w).batch
<1>1. /\ pc[w] \in {"metrics", "predictions", "navigate"} /\ Stay /\ broken' = broken
      /\ state' = state /\ me' = me
      /\ IF batch \in Batch(s)
         THEN /\ rows' = [rows EXCEPT ![s] = @ \cup [batch : {batch}, index : 1 .. BatchRows, by : {a}]]
              /\ file' = [file EXCEPT ![s] = IF @ = None THEN a ELSE @]
         ELSE rows' = rows /\ file' = file
  BY DEF AppendRows, Stay, Rows
<1>2. a \in Attempt /\ a # None /\ s \in Streams
  BY <1>1, ForkWorldConstants DEF Typed, Executing, Attempt, Appending, Streams
<1>3. /\ pc[w] = "metrics" => s = "metrics" /\ batch = "protocol"
      /\ pc[w] = "predictions" => s = "predictions" /\ batch = "protocol"
      /\ pc[w] = "navigate" => s = "metrics" /\ batch = Levels[cursor[w]]
  BY DEF Appending
<1> HIDE DEF s, batch
<1>4. file \in [Files -> Attempt \cup {None}] /\ DOMAIN rows = Streams
  BY DEF Typed, TypeOK
<1>5. \A f \in Files : f \notin Streams => file'[f] = file[f]
  BY <1>1, <1>2, <1>4
<1>6. Written \cap Streams = {} /\ "run_dir" \notin Streams /\ "run_dir" \in Files
  BY CheckpointFacts DEF Written, Streams, Files
<1>7. file'["run_dir"] # None /\ \A f \in Written : file'[f] = file[f]
  BY <1>1, <1>5, <1>6, OrderedFiles DEF RunInv, GuardInv, Exists
<1>8. RootInv' /\ ~Complete' /\ CompleteIsWholeOrEmptied'
  <2>1. ~Complete /\ "COMPLETE" \in Written
    BY <1>1 DEF RunInv, GuardInv, Written
  <2>2. ~Complete'
    BY <1>7, <2>1 DEF Complete, Exists
  <2> QED
    BY <1>7, <2>2, Incomplete DEF RootInv, Exists
<1>9. /\ \A f \in {"resolved_config", "metadata", "status"} : file'[f] = me'[w]
      /\ \A t \in Streams : ~broken'[t]
  BY <1>1, <1>7 DEF RunInv, ConfiguredInv, RowsInv, Executes, Written
<1>10. \A t \in Streams :
         /\ t # s => rows'[t] = rows[t]
         /\ t = s /\ batch \in Batch(s) =>
              rows'[t] = rows[t] \cup [batch : {batch}, index : 1 .. BatchRows, by : {a}]
         /\ t = s /\ batch \notin Batch(s) => rows'[t] = rows[t]
  BY <1>1, <1>2, <1>4
<1>11. ASSUME pc'[w] \in Executes, RowsInv(w)', CheckpointsInv(w)', FinalInv(w)'
       PROVE  RunInv(w)'
  BY <1>7, <1>8, <1>9, <1>11 DEF RunInv, GuardInv, ResetInv, ConfiguredInv, Executes, Exists
<1>12. "metrics" \in Streams /\ "predictions" \in Streams
  BY DEF Streams
<1>13. ASSUME pc[w] \in {"metrics", "navigate"}
       PROVE  rows'["metrics"] = Of(Batches(w) \cup {batch}, a) /\ rows'["predictions"] = rows["predictions"]
  <2>1. batch \in Batch(s) /\ s = "metrics"
    <3>1. CASE pc[w] = "metrics"
      BY <1>3, <3>1 DEF Batch
    <3>2. CASE pc[w] = "navigate"
      <4>1. cursor[w] \in DOMAIN Levels
        BY <3>2, LevelFacts DEF Typed, Executing, Reach
      <4> QED
        BY <1>3, <3>2, <4>1 DEF Batch
    <3> QED
      BY <1>13, <3>1, <3>2
  <2>2. rows["metrics"] = Of(Batches(w), a)
    BY <1>13 DEF RunInv, RowsInv, Executes
  <2>3. rows'["metrics"] =
          rows["metrics"] \cup [batch : {batch}, index : 1 .. BatchRows, by : {a}]
    BY <1>10, <1>12, <2>1
  <2>4. Of(Batches(w), a) \cup [batch : {batch}, index : 1 .. BatchRows, by : {a}]
          = Of(Batches(w) \cup {batch}, a)
    BY DEF Of
  <2>5. rows'["predictions"] = rows["predictions"]
    BY <1>10, <1>12, <2>1
  <2> QED
    BY <2>2, <2>3, <2>4, <2>5
<1>14. CASE pc[w] = "metrics"
  <2>1. pc'[w] = "predictions"
    BY <1>14 DEF AppendRows, Goto, Typed, TypeOK
  <2>2. rows'["metrics"] = Of({"protocol"}, a) /\ rows'["predictions"] = {}
    BY <1>3, <1>13, <1>14 DEF RunInv, RowsInv, Batches, Executes
  <2>3. Of(Batches(w), me[w])' = Of({"protocol"}, a)
    BY <1>1, <2>1 DEF Of, Batches
  <2>4. RowsInv(w)'
    BY <1>9, <2>1, <2>2, <2>3 DEF RowsInv
  <2> QED
    BY <1>11, <2>1, <2>4 DEF Executes, CheckpointsInv, FinalInv
<1>15. CASE pc[w] = "predictions"
  <2>1. pc'[w] = AfterPredictions /\ cursor'[w] = 1
    BY <1>15 DEF AppendRows, Goto, Typed, TypeOK
  <2>2. AfterPredictions \in {"checkpoint", "navigate", "finalize"}
    BY DEF AfterPredictions, AfterCheckpoints
  <2>3. rows'["predictions"] = Evidence("predictions", a)
    <3>1. rows["predictions"] = {} /\ s = "predictions" /\ batch = "protocol"
      BY <1>3, <1>15 DEF RunInv, RowsInv, Executes
    <3>2. CASE SavePredictions
      <4>1. Batch("predictions") = {"protocol"}
        BY <3>2 DEF Batch
      <4> QED
        BY <1>10, <1>12, <3>1, <4>1 DEF Evidence
    <3>3. CASE ~SavePredictions
      <4>1. Batch("predictions") = {}
        BY <3>3 DEF Batch
      <4>2. Evidence("predictions", a) = {}
        BY <4>1 DEF Evidence
      <4> QED
        BY <1>10, <1>12, <3>1, <4>1, <4>2
    <3> QED
      BY <3>2, <3>3
  <2>4. rows'["metrics"] = Of({"protocol"}, a)
    BY <1>3, <1>10, <1>12, <1>15 DEF RunInv, RowsInv, Batches, Executes
  <2>5. Of(Batches(w), me[w])' = Of({"protocol"}, a)
    <3>1. Batches(w)' = {"protocol"}
      <4>1. CASE pc'[w] = "checkpoint"
        BY <4>1 DEF Batches
      <4>2. CASE pc'[w] = "navigate"
        BY <2>1, <4>2 DEF Batches
      <4>3. CASE pc'[w] = "finalize"
        <5>1. Levels = << >>
          BY <2>1, <4>3 DEF AfterPredictions, AfterCheckpoints
        <5>2. DOMAIN Levels = {}
          BY <5>1
        <5> QED
          BY <4>3, <5>2 DEF Batches, Batch
      <4> QED
        BY <2>1, <2>2, <4>1, <4>2, <4>3
    <3> QED
      BY <1>1, <3>1 DEF Of
  <2>6. RowsInv(w)'
    BY <1>1, <1>9, <2>1, <2>2, <2>3, <2>4, <2>5 DEF RowsInv, Evidence, Batch
  <2>7. CheckpointsInv(w)' /\ FinalInv(w)'
    <3>1. pc'[w] # "checkpoint" => CheckpointNames = {}
      <4>1. pc'[w] # "checkpoint" => Checkpoints = << >>
        BY <2>1, <2>2 DEF AfterPredictions
      <4> QED
        BY <4>1 DEF CheckpointNames
    <3> QED
      BY <2>1, <3>1 DEF CheckpointsInv, FinalInv, CheckpointNames
  <2> QED
    BY <1>11, <2>1, <2>2, <2>6, <2>7 DEF Executes
<1>16. CASE pc[w] = "navigate"
  <2> DEFINE c == cursor[w]
  <2>1. c \in 1 .. Len(Levels) /\ Len(Levels) \in Nat
    BY <1>16, LevelFacts DEF Typed, Executing, Reach
  <2>2. rows'["metrics"] = Of({"protocol"} \cup {Levels[j] : j \in 1 .. c}, a)
    <3>1. Batches(w) \cup {batch} = {"protocol"} \cup {Levels[j] : j \in 1 .. c}
      <4>1. Batches(w) = {"protocol"} \cup {Levels[j] : j \in 1 .. c - 1} /\ batch = Levels[c]
        BY <1>3, <1>16 DEF Batches
      <4>2. 1 .. c = (1 .. c - 1) \cup {c}
        BY <2>1
      <4> QED
        BY <4>1, <4>2
    <3> QED
      BY <1>13, <1>16, <3>1
  <2>3. rows'["predictions"] = Evidence("predictions", me[w])'
    BY <1>1, <1>13, <1>16 DEF RunInv, RowsInv, Executes, Evidence, Batch
  <2>4. \A f \in CheckpointNames : file'[f] = me'[w]
    BY <1>1, <1>7, <1>16 DEF RunInv, CheckpointsInv, Written
  <2>5. CASE c < Len(Levels)
    <3>1. pc'[w] = "navigate" /\ cursor'[w] = c + 1
      BY <1>16, <2>5 DEF AppendRows, Typed, TypeOK
    <3>2. Of(Batches(w), me[w])' = Of({"protocol"} \cup {Levels[j] : j \in 1 .. c}, a)
      <4>1. (c + 1) - 1 = c
        BY <2>1
      <4>2. Batches(w)' = {"protocol"} \cup {Levels[j] : j \in 1 .. c}
        BY <3>1, <4>1 DEF Batches
      <4> QED
        BY <1>1, <4>2 DEF Of
    <3>3. RowsInv(w)'
      BY <1>9, <2>2, <2>3, <3>1, <3>2 DEF RowsInv
    <3> QED
      BY <1>11, <2>4, <3>1, <3>3 DEF Executes, CheckpointsInv, FinalInv, CheckpointNames
  <2>6. CASE ~(c < Len(Levels))
    <3>1. pc'[w] = "finalize" /\ cursor'[w] = 1
      BY <1>16, <2>6 DEF AppendRows, Goto, Typed, TypeOK
    <3>2. Of(Batches(w), me[w])' = Of({"protocol"} \cup {Levels[j] : j \in 1 .. c}, a)
      <4>1. c = Len(Levels)
        BY <2>1, <2>6
      <4>2. Batches(w)' = {"protocol"} \cup {Levels[j] : j \in 1 .. c}
        BY <3>1, <4>1, LevelFacts DEF Batches, Batch
      <4> QED
        BY <1>1, <4>2 DEF Of
    <3>3. RowsInv(w)'
      BY <1>9, <2>2, <2>3, <3>1, <3>2 DEF RowsInv
    <3> QED
      BY <1>11, <2>4, <3>1, <3>3 DEF Executes, CheckpointsInv, FinalInv, CheckpointNames
  <2> QED
    BY <2>5, <2>6
<1> QED
  BY <1>1, <1>14, <1>15, <1>16

LEMMA SaveCheckpointPreserves ==
    ASSUME Typed, NEW w \in Workers, RunInv(w), SaveCheckpoint(w)
    PROVE  RunInv(w)'
<1> DEFINE c == cursor[w]
           a == me[w]
           name == Checkpoints[c]
<1>1. /\ pc[w] = "checkpoint" /\ Stay /\ rows' = rows /\ broken' = broken
      /\ file' = [file EXCEPT ![name] = a] /\ me' = me
  BY DEF SaveCheckpoint, Create, Stay
<1>2. c \in 1 .. Len(Checkpoints) /\ a \in Attempt /\ a # None /\ Len(Checkpoints) \in Nat
  BY <1>1, ForkWorldConstants, CheckpointFacts DEF Typed, Executing, Reach, Attempt
<1>3. name \in CheckpointNames /\ name \in Files
  BY <1>2, CheckpointFacts, OrderedFiles
<1> HIDE DEF name
<1>4. file \in [Files -> Attempt \cup {None}]
  BY DEF Typed, TypeOK
<1>5. file'[name] = a /\ \A f \in Files : f # name => file'[f] = file[f]
  BY <1>1, <1>3, <1>4
<1>6. name \notin {"run_dir", "resolved_config", "metadata", "status", "COMPLETE"}
  BY <1>3, CheckpointFacts
<1>7. {"run_dir", "resolved_config", "metadata", "status", "COMPLETE"} \subseteq Files
  BY DEF Files, Written
<1>8. /\ file'["run_dir"] # None /\ file'["COMPLETE"] = None
      /\ \A f \in {"resolved_config", "metadata", "status"} : file'[f] = me'[w]
  BY <1>1, <1>5, <1>6, <1>7 DEF RunInv, GuardInv, ConfiguredInv, Executes, Exists, Complete
<1>9. RootInv' /\ ~Complete' /\ CompleteIsWholeOrEmptied'
  BY <1>8, Incomplete DEF RootInv, Exists, Complete
<1>10. \A j \in 1 .. c : file'[Checkpoints[j]] = a
  <2> SUFFICES ASSUME NEW j \in 1 .. c PROVE file'[Checkpoints[j]] = a
    OBVIOUS
  <2>1. CASE Checkpoints[j] = name
    BY <1>5, <2>1
  <2>2. CASE Checkpoints[j] # name
    <3>1. j \in 1 .. c - 1
      BY <1>2, <2>2 DEF name
    <3>2. file[Checkpoints[j]] = a /\ Checkpoints[j] \in Files
      BY <1>1, <1>2, <3>1, OrderedFiles DEF RunInv, CheckpointsInv
    <3> QED
      BY <1>5, <2>2, <3>2
  <2> QED
    BY <2>1, <2>2
<1>11. /\ \A t \in Streams : ~broken'[t]
       /\ rows'["metrics"] = Of({"protocol"}, a)
       /\ rows'["predictions"] = Evidence("predictions", a)
  BY <1>1 DEF RunInv, RowsInv, Executes, Batches
<1>12. Evidence("predictions", me[w])' = Evidence("predictions", a)
  BY <1>1 DEF Evidence, Batch
<1>13. CASE c < Len(Checkpoints)
  <2>1. pc'[w] = "checkpoint" /\ cursor'[w] = c + 1
    BY <1>13 DEF SaveCheckpoint, Typed, TypeOK
  <2>2. Of(Batches(w), me[w])' = Of({"protocol"}, a)
    BY <1>1, <2>1 DEF Of, Batches
  <2>3. RowsInv(w)'
    BY <1>11, <1>12, <2>1, <2>2 DEF RowsInv
  <2>4. \A j \in 1 .. cursor'[w] - 1 : file'[Checkpoints[j]] = me'[w]
    BY <1>1, <1>2, <1>10, <2>1
  <2> QED
    BY <1>8, <1>9, <2>1, <2>3, <2>4 DEF RunInv, GuardInv, ResetInv, ConfiguredInv,
       CheckpointsInv, FinalInv, Exists
<1>14. CASE ~(c < Len(Checkpoints))
  <2>1. pc'[w] = AfterCheckpoints /\ cursor'[w] = 1
    BY <1>14 DEF SaveCheckpoint, Goto, Typed, TypeOK
  <2>2. AfterCheckpoints \in {"navigate", "finalize"}
    BY DEF AfterCheckpoints
  <2>3. Of(Batches(w), me[w])' = Of({"protocol"}, a)
    <3>1. CASE pc'[w] = "navigate"
      <4>1. Batches(w)' = {"protocol"}
        BY <2>1, <3>1 DEF Batches
      <4> QED
        BY <1>1, <4>1 DEF Of
    <3>2. CASE pc'[w] = "finalize"
      <4>1. Levels = << >>
        BY <2>1, <3>2 DEF AfterCheckpoints
      <4>2. DOMAIN Levels = {}
        BY <4>1
      <4>3. Batches(w)' = {"protocol"}
        BY <3>2, <4>2 DEF Batches, Batch
      <4> QED
        BY <1>1, <4>3 DEF Of
    <3> QED
      BY <2>1, <2>2, <3>1, <3>2
  <2>4. RowsInv(w)'
    BY <1>11, <1>12, <2>1, <2>2, <2>3 DEF RowsInv
  <2>5. \A f \in CheckpointNames : file'[f] = me'[w]
    <3>1. c = Len(Checkpoints)
      BY <1>2, <1>14
    <3> QED
      BY <1>1, <1>10, <3>1, CheckpointFacts
  <2>6. CheckpointsInv(w)' /\ FinalInv(w)'
    BY <2>1, <2>2, <2>5 DEF CheckpointsInv, FinalInv, CheckpointNames
  <2> QED
    BY <1>8, <1>9, <2>1, <2>2, <2>4, <2>6 DEF RunInv, GuardInv, ResetInv, ConfiguredInv, Exists
<1> QED
  BY <1>13, <1>14

\* The marker is the last of three files, over everything of this attempt.
LEMMA FinalizePreserves ==
    ASSUME Typed, NEW w \in Workers, RunInv(w), Finalize(w)
    PROVE  RunInv(w)'
<1> DEFINE c == cursor[w]
           a == me[w]
           name == FinalizeOrder[c]
<1>1. /\ pc[w] = "finalize" /\ rows' = rows /\ broken' = broken
      /\ file' = [file EXCEPT ![name] = a]
      /\ state' = IF name = "status" THEN "complete" ELSE state
  BY DEF Finalize, Create
<1>2. c \in 1 .. 3 /\ a \in Attempt /\ a # None
  BY <1>1, ForkWorldConstants DEF Typed, Executing, Reach, Attempt
<1>3. name \in {"summary", "status", "COMPLETE"} /\ name \in Files
  BY <1>2, OrderedFiles DEF Files, Written
<1>0. c < 3 => name # "COMPLETE"
  BY <1>2, OrderedFiles
<1> HIDE DEF name
<1>4. file \in [Files -> Attempt \cup {None}]
  BY DEF Typed, TypeOK
<1>5. file'[name] = a /\ \A f \in Files : f # name => file'[f] = file[f]
  BY <1>1, <1>3, <1>4
<1>6. {"run_dir", "resolved_config", "metadata", "status", "COMPLETE"} \cup CheckpointNames \subseteq Files
  BY DEF Files, Written
<1>7. file'["run_dir"] # None
  BY <1>1, <1>3, <1>5, <1>6 DEF RunInv, GuardInv, Exists
<1>8. /\ \A f \in {"resolved_config", "metadata", "status"} : file'[f] = a
      /\ \A f \in CheckpointNames : file'[f] = a
  <2>1. /\ \A f \in {"resolved_config", "metadata", "status"} : file[f] = a
        /\ \A f \in CheckpointNames : file[f] = a
    BY <1>1 DEF RunInv, ConfiguredInv, CheckpointsInv, Executes
  <2> QED
    BY <1>5, <1>6, <2>1
<1>9. \A j \in 1 .. c : file'[FinalizeOrder[j]] = a
  <2> SUFFICES ASSUME NEW j \in 1 .. c PROVE file'[FinalizeOrder[j]] = a
    OBVIOUS
  <2>1. CASE j = c
    BY <1>5, <2>1 DEF name
  <2>2. CASE j \in 1 .. c - 1
    <3>1. file[FinalizeOrder[j]] = a
      BY <1>1, <2>2 DEF RunInv, FinalInv
    <3>2. FinalizeOrder[j] \in Files
      BY <1>2, <2>2, OrderedFiles
    <3> QED
      BY <1>5, <3>1, <3>2
  <2> QED
    BY <1>2, <2>1, <2>2
<1>10. /\ \A t \in Streams : ~broken'[t]
       /\ rows'["metrics"] = Of(Batch("metrics"), a)
       /\ rows'["predictions"] = Evidence("predictions", a)
  BY <1>1 DEF RunInv, RowsInv, Executes, Batches
<1>11. RootInv'
  BY <1>7 DEF RootInv, Exists
<1>12. CASE c < 3
  <2>1. pc'[w] = "finalize" /\ cursor'[w] = c + 1 /\ me' = me
    BY <1>1, <1>12, OrderedFiles DEF Finalize, Stay, Typed, TypeOK
  <2>2. file'["COMPLETE"] = None
    BY <1>0, <1>1, <1>5, <1>6, <1>12 DEF RunInv, GuardInv, Exists, Complete
  <2>3. ~Complete' /\ CompleteIsWholeOrEmptied'
    BY <2>2, Incomplete DEF Exists, Complete
  <2>4. Of(Batches(w), me[w])' = Of(Batch("metrics"), a)
    BY <2>1 DEF Of, Batches, Batch
  <2>5. RowsInv(w)'
    BY <1>10, <2>1, <2>4 DEF RowsInv, Evidence, Batch
  <2>6. FinalInv(w)'
    <3>1. \A j \in 1 .. cursor'[w] - 1 : file'[FinalizeOrder[j]] = me'[w]
      BY <1>2, <1>9, <2>1
    <3>2. cursor'[w] = 3 => state' = "complete"
      <4>1. cursor'[w] = 3 => c = 2
        BY <1>2, <2>1
      <4> QED
        BY <1>1, <4>1, OrderedFiles DEF name
    <3> QED
      BY <3>1, <3>2 DEF FinalInv, FinalizeOrder
  <2>7. ConfiguredInv(w)' /\ CheckpointsInv(w)'
    BY <1>8, <2>1 DEF ConfiguredInv, CheckpointsInv, CheckpointNames
  <2> QED
    BY <1>7, <1>11, <2>1, <2>3, <2>5, <2>6, <2>7 DEF RunInv, GuardInv, ResetInv, Exists
<1>13. CASE ~(c < 3)
  <2>1. c = 3
    BY <1>2, <1>13
  <2>2. pc'[w] = "idle"
    BY <1>13, OrderedFiles DEF Finalize, Leave, Goto, Typed, TypeOK
  <2>3. file'["summary"] = a /\ file'["COMPLETE"] = a /\ file'["status"] = a
    BY <1>9, <2>1, OrderedFiles
  <2>4. \A f \in Written : file'[f] = a
    BY <1>8, <2>3 DEF Written
  <2>5. state' = "complete"
    BY <1>1, <2>1 DEF RunInv, FinalInv
  <2>6. rows'["metrics"] = Evidence("metrics", a)
    BY <1>10 DEF Of, Evidence
  <2>9. PICK b \in Attempt : b = a
    BY <1>2
  <2>7. WholeEvidence(b)'
    <3>1. \A f \in Written : file'[f] = b
      BY <2>4, <2>9
    <3>2. \A t \in Streams : rows'[t] = Evidence(t, b) /\ ~broken'[t]
      BY <1>10, <2>6, <2>9 DEF Streams
    <3> QED
      BY <2>5, <3>1, <3>2 DEF WholeEvidence, Evidence, Batch, Written, CheckpointNames
  <2>8. CompleteIsWholeOrEmptied'
    BY <2>7 DEF CompleteIsWholeOrEmptied, Attempt
  <2> QED
    BY <1>11, <2>2, <2>8 DEF RunInv, GuardInv, ResetInv, ConfiguredInv, RowsInv,
       CheckpointsInv, FinalInv, Executes
<1> QED
  BY <1>12, <1>13

\* An interrupted attempt leaves a directory without COMPLETE.
LEMMA InterruptedPreserves ==
    ASSUME Typed, NEW w \in Workers, RunInv(w), AppendInterrupted(w) \/ Raise(w) \/ Fail(w)
    PROVE  RunInv(w)'
<1>1. pc'[w] \in {"idle", "fail"}
  BY DEF AppendInterrupted, Raise, Fail, Leave, Goto, Typed, TypeOK
<1>2. pc[w] \notin {"idle", "check", "begin", "reset"}
  BY DEF AppendInterrupted, Raise, Fail
<1>3. file["run_dir"] # None /\ file["COMPLETE"] = None
  BY <1>2 DEF RunInv, GuardInv, Exists, Complete
<1>4. /\ "run_dir" \in Files /\ "COMPLETE" \in Files
      /\ {"run_dir", "COMPLETE"} \cap (Streams \cup {"status"}) = {}
  BY DEF Files, Written, Streams
<1>5. \A f \in {"run_dir", "COMPLETE"} : file'[f] = file[f]
  <2>1. CASE AppendInterrupted(w)
    <3>1. Appending(w).stream \in Streams
      BY DEF Appending, Streams
    <3>2. file' = [file EXCEPT ![Appending(w).stream] = IF @ = None THEN me[w] ELSE @]
      BY <2>1 DEF AppendInterrupted
    <3> HIDE DEF Appending
    <3> QED
      BY <1>4, <3>1, <3>2 DEF Typed, TypeOK
  <2>2. CASE Fail(w)
    BY <1>4, <2>2 DEF Fail, Create, Typed, TypeOK
  <2>3. CASE Raise(w)
    BY <2>3 DEF Raise, directory
  <2> QED
    BY <2>1, <2>2, <2>3
<1>6. RootInv' /\ ~Complete' /\ CompleteIsWholeOrEmptied' /\ Exists("run_dir")'
  BY <1>3, <1>5, Incomplete DEF RootInv, Exists, Complete
<1> QED
  BY <1>1, <1>6 DEF RunInv, GuardInv, ResetInv, ConfiguredInv, RowsInv, CheckpointsInv,
     FinalInv, Executes

LEMMA RunPreserved ==
    ASSUME NEW w, Workers = {w}, Typed, RunInv(w), [Next]_vars
    PROVE  RunInv(w)'
<1>1. CASE UNCHANGED vars
  <2>1. RootInv' /\ CompleteIsWholeOrEmptied'
    BY <1>1 DEF vars, directory, RunInv, RootInv, CompleteIsWholeOrEmptied, Complete, Exists,
       WholeEvidence, Cleared, Evidence, Batch, Attempt
  <2>2. GuardInv(w)' /\ ResetInv(w)' /\ ConfiguredInv(w)' /\ CheckpointsInv(w)' /\ FinalInv(w)'
    BY <1>1 DEF vars, directory, process, RunInv, GuardInv, ResetInv, ConfiguredInv,
       CheckpointsInv, FinalInv, Complete, Exists, Cleared, Executes, ResetOrder, PrepareOrder,
       FinalizeOrder, CheckpointNames
  <2>3. RowsInv(w)'
    BY <1>1 DEF vars, directory, process, RunInv, RowsInv, Of, Batches, Batch, Evidence, Executes
  <2> QED
    BY <2>1, <2>2, <2>3 DEF RunInv
<1>2. w \in Workers
  OBVIOUS
<1>3. CASE Launch(w) \/ Execute(w) \/ AppendInterrupted(w) \/ Raise(w) \/ Crash(w)
  BY <1>2, <1>3, LaunchInv, BeginInv, ResetPreserves, PreparePreserves, AppendPreserves,
     SaveCheckpointPreserves, FinalizePreserves, InterruptedPreserves, Leaving DEF Execute, Crash
<1> QED
  BY <1>1, <1>3 DEF Next

LEMMA RunHolds ==
    ASSUME NEW o, Workers = {o}
    PROVE  Spec => [](Typed /\ RunInv(o))
<1>1. Init => RunInv(o)
  <2> SUFFICES ASSUME Init PROVE RunInv(o)
    OBVIOUS
  <2>1. pc[o] = "idle" /\ ~Exists("run_dir") /\ ~Complete
    BY DEF Init, Exists, Complete, Files, Written
  <2>2. RootInv /\ CompleteIsWholeOrEmptied
    BY <2>1 DEF Init, RootInv, Cleared, CompleteIsWholeOrEmptied
  <2>3. GuardInv(o) /\ ResetInv(o) /\ ConfiguredInv(o)
    BY <2>1 DEF GuardInv, ResetInv, ConfiguredInv, Executes
  <2>4. pc[o] \notin Executes \cup {"prepare"}
    BY <2>1 DEF Executes
  <2>5. RowsInv(o)
    BY <2>4 DEF RowsInv
  <2>6. CheckpointsInv(o) /\ FinalInv(o)
    BY <2>1 DEF CheckpointsInv, FinalInv
  <2> QED
    BY <2>2, <2>3, <2>5, <2>6 DEF RunInv
<1>2. Typed /\ RunInv(o) /\ [Next]_vars => (Typed /\ RunInv(o))'
  BY TypePreserved, RunPreserved
<1> QED
  BY <1>1, <1>2, InitType, PTL DEF Spec

\* For any checkpoints, levels, rows and interruptions of one process at a
\* time: COMPLETE stands over the whole evidence of one attempt, or the
\* directory is being emptied and has lost its metrics.
THEOREM CompleteStandsForEvidence ==
    ASSUME NEW o, Workers = {o}
    PROVE  Spec => []CompleteIsWholeOrEmptied
<1>1. RunInv(o) => CompleteIsWholeOrEmptied
  BY DEF RunInv
<1> QED
  BY <1>1, RunHolds, PTL

\* And only a process that was told to replace a completed run touches it.
THEOREM CompletedRunStays ==
    ASSUME NEW o, Workers = {o}
    PROVE  Spec => CompletedRunIsKept
<1> DEFINE Kept == Complete => UNCHANGED directory \/ \E w \in Workers : force[w]
<1>1. ASSUME Typed, RunInv(o), [Next]_vars
      PROVE  [Kept]_vars
  <2> SUFFICES ASSUME Complete, ~(UNCHANGED directory) PROVE force[o] \/ UNCHANGED vars
    OBVIOUS
  <2>1. Workers = {o}
    OBVIOUS
  <2>2. pc[o] \in {"idle", "check", "begin", "reset"}
    BY <1>1 DEF RunInv, GuardInv
  <2>3. pc[o] \in {"begin", "reset"} => force[o]
    BY <1>1 DEF RunInv, GuardInv
  <2>4. CASE UNCHANGED vars
    BY <2>4 DEF vars
  <2>5. CASE Launch(o) \/ Check(o) \/ Raise(o) \/ Crash(o)
    BY <2>5 DEF Launch, Check, Raise, Crash
  <2>6. CASE Begin(o) \/ Reset(o)
    BY <2>3, <2>6 DEF Begin, Reset
  <2>7. CASE \/ Prepare(o) \/ AppendRows(o) \/ SaveCheckpoint(o) \/ Finalize(o) \/ Fail(o)
             \/ AppendInterrupted(o)
    BY <2>2, <2>7 DEF Prepare, AppendRows, SaveCheckpoint, Finalize, Fail, AppendInterrupted
  <2> QED
    BY <1>1, <2>1, <2>4, <2>5, <2>6, <2>7 DEF Next, Execute
<1>2. Typed /\ RunInv(o) /\ [Next]_vars => [Kept]_vars
  BY <1>1
<1> HIDE DEF Kept
<1>3. Spec => [](Typed /\ RunInv(o))
  BY RunHolds, PTL
<1>4. Spec => [][Kept]_vars
  BY <1>2, <1>3, PTL DEF Spec
<1> QED
  BY <1>4 DEF Kept, CompletedRunIsKept

===============================================================================

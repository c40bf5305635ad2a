----------------------------- MODULE HiddenLawRun -----------------------------
(***************************************************************************)
(* One condition directory of the hidden-law experiment and the processes  *)
(* that execute and resume it: HiddenLawRunStore (artifacts.py) and        *)
(* _RecordSink, save_checkpoint, load_latest_checkpoint,                   *)
(* retire_checkpoints and execute_condition (runner.py) of                 *)
(* goalzendo_hidden_law.                                                   *)
(*                                                                         *)
(* At most one process owns the directory.  It may be killed between any   *)
(* two durable writes and in the middle of an append; an exception is the  *)
(* same interruption followed by status.json saying "failed".  Every       *)
(* interruption starts a new attempt.  A row, a checkpoint and the summary *)
(* remember which attempt computed them: training is replayed after an     *)
(* interruption, and a replay need not reproduce the lost computation bit  *)
(* for bit, so the evidence of a sealed run is only sound when all of it   *)
(* comes from the one trajectory whose model was kept.                     *)
(***************************************************************************)
EXTENDS Naturals, Sequences, FiniteSets

CONSTANTS
    Steps,              \* training.steps
    EvaluationSteps,    \* training.evaluation_steps
    CheckpointSteps,    \* training.checkpoint_steps
    TrajectoryRows,     \* transcript rows of one training block
    EvaluationRows,     \* rows one evaluation appends to a stream
    MaxInterruptions,   \* bound on kills and exceptions
    None                \* an absent file, an absent value

ASSUME HiddenLawConstants ==
    /\ Steps \in Nat \ {0}
    /\ EvaluationSteps \subseteq 0 .. Steps
    /\ Steps \in EvaluationSteps
    /\ CheckpointSteps \subseteq 1 .. Steps
    /\ TrajectoryRows \in Nat \ {0}
    /\ EvaluationRows \in Nat \ {0}
    /\ MaxInterruptions \in Nat
    /\ None \notin [step : CheckpointSteps,
                    lineage : [1 .. Steps -> 0 .. MaxInterruptions + 1]]
    /\ None \notin [step : EvaluationSteps, by : 1 .. MaxInterruptions + 1]

VARIABLES
    \* the directory
    files,          \* the directories, manifests, streams and seal that exist
    rows,           \* the parseable rows of each stream
    tail,           \* whether a stream ends in, or hides, a partial row
    saved,          \* checkpoints/step-*.pt, by step
    litter,         \* a temporary file was left behind in checkpoints/
    latest,         \* checkpoints/latest.json
    status,         \* the state written to status.json
    summary,        \* summary.json
    completion,     \* completion.json: what it attests
    seal,           \* COMPLETE: the completion whose digest it holds
    \* the process
    pc, cursor, step, lineage, latestEvaluation,
    attempt         \* the current attempt, one more than the interruptions

directory == <<files, rows, tail, saved, litter, latest, status, summary,
               completion, seal>>
memory == <<cursor, step, lineage, latestEvaluation>>
vars == <<directory, pc, memory, attempt>>

-------------------------------------------------------------------------------
(* The evidence an attempt emits.                                          *)

Streams == {"metrics", "transcripts", "predictions"}
StreamAt == <<"metrics", "transcripts", "predictions">>

\* The rows a training block or an evaluation appends to a stream.  The last
\* metrics row of an evaluation is its checkpoint summary.
Emitted(stream, kind) ==
    IF kind = "evaluate" THEN 1 .. EvaluationRows
    ELSE IF stream = "metrics" THEN {1}
    ELSE IF stream = "transcripts" THEN 1 .. TrajectoryRows
    ELSE {}

\* Every record_id a run appends to a stream up to a step.
Expected(stream, upto) ==
    [step : 1 .. upto, kind : {"train"}, index : Emitted(stream, "train")]
      \cup [step : EvaluationSteps \cap 0 .. upto, kind : {"evaluate"},
            index : Emitted(stream, "evaluate")]

Attempts == 1 .. MaxInterruptions + 1

\* lineage[s] is the attempt that made the update of step s, 0 if none has.
Lineages == [1 .. Steps -> 0 .. MaxInterruptions + 1]
Blank == [s \in 1 .. Steps |-> 0]

Ids(stream) == {r.id : r \in rows[stream]}

-------------------------------------------------------------------------------
(* The directory.                                                          *)

\* initialize() creates these in order and then writes status.json.
InitWrites ==
    <<"run_dir", "checkpoints", "identity.json", "resolved_config.yaml",
      "implementation.json", "environment.json",
      "metrics", "transcripts", "predictions">>

\* Mutation: the inventory names a file that is only written after it is checked.
InventoryWithSeal ==
    {"identity.json", "resolved_config.yaml", "implementation.json",
     "environment.json", "bank-manifest.json", "model-manifest.json",
     "completion.json"} \cup Streams

\* COMPLETION_FILES, without summary.json and status.json, which finish()
\* writes itself.
CompletionFiles ==
    {"identity.json", "resolved_config.yaml", "implementation.json",
     "environment.json", "bank-manifest.json", "model-manifest.json"}
      \cup Streams

AllFiles == CompletionFiles \cup {"run_dir", "checkpoints", "COMPLETE"}

\* What completion.json attests: the contents of the files that change.
Snapshot(summaryNow, statusNow) ==
    [rows |-> rows, tail |-> tail, summary |-> summaryNow, status |-> statusNow]

Sealed == "COMPLETE" \in files

Init ==
    /\ files = {} /\ litter = FALSE
    /\ rows = [s \in Streams |-> {}]
    /\ tail = [s \in Streams |-> "clean"]
    /\ saved = [s \in CheckpointSteps |-> None]
    /\ latest = None /\ status = None /\ summary = None
    /\ completion = None /\ seal = None
    /\ pc = "down" /\ cursor = 1 /\ step = 0 /\ lineage = Blank
    /\ latestEvaluation = None /\ attempt = 1

\* The process is gone and its memory with it.
Gone ==
    /\ pc' = "down" /\ cursor' = 1 /\ step' = 0 /\ lineage' = Blank
    /\ latestEvaluation' = None

\* The next launch is a new attempt.
Interrupted ==
    /\ attempt <= MaxInterruptions
    /\ attempt' = attempt + 1
    /\ Gone

Continue(next) ==
    /\ pc' = next
    /\ UNCHANGED <<memory, attempt>>

-------------------------------------------------------------------------------
(* HiddenLawRunStore.initialize                                            *)

\* The directory does not exist.  A kill after the k-th write leaves the
\* first k entries.
InitializeNew ==
    /\ pc = "down" /\ "run_dir" \notin files
    /\ \E k \in 1 .. Len(InitWrites) :
        /\ files' = {InitWrites[i] : i \in 1 .. k}
        /\ \/ Interrupted /\ UNCHANGED status
           \/ /\ k = Len(InitWrites)
              /\ status' = "running"
              /\ Continue("sink")
    /\ UNCHANGED <<rows, tail, saved, litter, latest, summary, completion, seal>>

\* read_json(identity.json) raises, before execute_condition's handler.
InitializeRaises ==
    /\ pc = "down" /\ "run_dir" \in files /\ "identity.json" \notin files
    /\ UNCHANGED vars

\* Mutation: a complete directory is executed again.
ResumeAlways ==
    /\ pc = "down" /\ "identity.json" \in files
    /\ Continue("sink")
    /\ UNCHANGED directory

InitializeResume ==
    /\ pc = "down" /\ "identity.json" \in files /\ ~Sealed
    /\ Continue("sink")
    /\ UNCHANGED directory

\* A complete directory is verified against its seal and skipped; what is
\* left of its checkpoints is retired.
InitializeComplete ==
    /\ pc = "down" /\ Sealed
    /\ seal = completion /\ completion = Snapshot(summary, status)
    /\ Continue("retire")
    /\ UNCHANGED directory

-------------------------------------------------------------------------------
(* execute_condition up to the training loop.                              *)

\* _jsonl_rows drops what follows the last newline of a stream.
Repaired == [s \in Streams |-> "clean"]

\* _RecordSink: drop what follows the last newline of each stream, refuse a
\* stream with a broken line or a repeated record_id.
OpenSink ==
    /\ pc = "sink"
    /\ \A s \in Streams :
        /\ tail[s] # "merged"
        /\ \A r, q \in rows[s] : r.id = q.id => r = q
    /\ tail' = Repaired
    /\ Continue("bank")
    /\ UNCHANGED <<files, rows, saved, litter, latest, status, summary,
                   completion, seal>>

WriteManifest(from, name, next) ==
    /\ pc = from
    /\ files' = files \cup {name}
    /\ Continue(next)
    /\ UNCHANGED <<rows, tail, saved, litter, latest, status, summary,
                   completion, seal>>

WriteBankManifest == WriteManifest("bank", "bank-manifest.json", "model")
WriteModelManifest == WriteManifest("model", "model-manifest.json", "restore")

\* Mutation: a checkpoint is ignored and training starts again.
LoadedNothing == [step |-> 0, lineage |-> Blank]

\* load_latest_checkpoint
Loaded == IF latest = None THEN [step |-> 0, lineage |-> Blank] ELSE latest

\* Mutation: the rows after the checkpoint are kept.
RetainedAll(stream) == rows[stream]

\* truncate_after_step
Retained(stream) == {r \in rows[stream] : r.id.step <= Loaded.step}

\* load_latest_checkpoint and truncate_after_step, which rewrites the streams
\* one after the other; then the step-0 evaluation of a run without a
\* checkpoint, or the training loop.
Restore ==
    /\ pc = "restore"
    /\ latest # None => saved[latest.step] = latest.lineage
    /\ \E k \in 0 .. Len(StreamAt) :
        /\ rows' = [s \in Streams |->
                      IF \E i \in 1 .. k : StreamAt[i] = s THEN Retained(s) ELSE rows[s]]
        /\ \/ Interrupted /\ status' \in {status, "failed"}
           \/ /\ k = Len(StreamAt)
              /\ step' = Loaded.step
              /\ lineage' = Loaded.lineage
              /\ pc' = IF Loaded.step = 0 /\ 0 \in EvaluationSteps
                       THEN "evaluate" ELSE "loop"
              /\ UNCHANGED <<cursor, latestEvaluation, attempt, status>>
    /\ UNCHANGED <<files, tail, saved, litter, latest, summary, completion, seal>>

-------------------------------------------------------------------------------
(* The training loop.                                                      *)

\* Mutation: the loop runs one step too far.
OneTooMany == step <= Steps

\* for step in range(start_step + 1, total_steps + 1)
Remaining == step < Steps

\* train_role_neutral_block updates the model in place.
Train ==
    /\ pc = "loop" /\ Remaining
    /\ step' = step + 1
    /\ lineage' = [lineage EXCEPT ![step + 1] = attempt]
    /\ pc' = "train"
    /\ UNCHANGED <<directory, cursor, latestEvaluation, attempt>>

\* _RecordSink.append drops the rows whose record_id is already durable.
Novel(stream) ==
    {[id |-> [step |-> step, kind |-> pc, index |-> i], by |-> attempt] :
        i \in {j \in Emitted(stream, pc) :
                 [step |-> step, kind |-> pc, index |-> j] \notin Ids(stream)}}

Current == StreamAt[cursor]

\* append_jsonl: what is written after a partial row is glued to it.
Write(stream, written, end) ==
    /\ rows' = [rows EXCEPT ![stream] = @ \cup written]
    /\ tail' = [tail EXCEPT ![stream] =
                  IF @ = "clean" THEN end ELSE IF written = {} THEN @ ELSE "merged"]

AppendRows ==
    /\ pc \in {"train", "evaluate"} /\ cursor <= Len(StreamAt)
    /\ Write(Current, Novel(Current), "clean")
    /\ files' = IF Novel(Current) = {} THEN files ELSE files \cup {Current}
    /\ cursor' = cursor + 1
    /\ UNCHANGED <<saved, litter, latest, status, summary, completion, seal,
                   pc, step, lineage, latestEvaluation, attempt>>

\* Killed, or failing, in the middle of an append: the first k rows of the
\* batch are durable, and perhaps part of the next one.
AppendInterrupted ==
    /\ pc \in {"train", "evaluate"} /\ cursor <= Len(StreamAt)
    /\ \E k \in 0 .. EvaluationRows + TrajectoryRows, end \in {"clean", "torn"} :
         LET written == {r \in Novel(Current) : r.id.index <= k}
         IN written # Novel(Current) /\ Write(Current, written, end)
    /\ files' = files \cup {Current}
    /\ status' \in {status, "failed"}
    /\ Interrupted
    /\ UNCHANGED <<saved, litter, latest, summary, completion, seal>>

\* Mutation: the checkpoint of a step is saved before its evaluation.
SaveFirst == IF pc = "train" /\ step \in CheckpointSteps THEN "save"
             ELSE IF pc = "train" /\ step \in EvaluationSteps THEN "evaluate" ELSE "loop"

AfterRows == IF pc = "train" /\ step \in EvaluationSteps THEN "evaluate"
             ELSE IF step \in CheckpointSteps THEN "save" ELSE "loop"

\* Mutation: the first evaluation of an attempt is kept.
FirstEvaluation ==
    IF pc = "evaluate" /\ latestEvaluation = None THEN [step |-> step, by |-> attempt]
    ELSE latestEvaluation

Evaluation ==
    IF pc = "evaluate" THEN [step |-> step, by |-> attempt] ELSE latestEvaluation

\* The three streams are written: keep the evaluation, write the status and
\* go on with the evaluation or the checkpoint due at this step.
RowsWritten ==
    /\ pc \in {"train", "evaluate"} /\ cursor = Len(StreamAt) + 1
    /\ cursor' = 1
    /\ latestEvaluation' = Evaluation
    /\ status' = "running"
    /\ pc' = AfterRows
    /\ UNCHANGED <<files, rows, tail, saved, litter, latest, summary,
                   completion, seal, step, lineage, attempt>>

\* save_checkpoint: the checkpoint file, the pointer, then the file the old
\* pointer named.
SaveFile ==
    /\ pc = "save"
    /\ saved' = [saved EXCEPT ![step] = lineage]
    /\ Continue("point")
    /\ UNCHANGED <<files, rows, tail, litter, latest, status, summary,
                   completion, seal>>

PointLatest ==
    /\ pc = "point"
    /\ latest' = [step |-> step, lineage |-> lineage]
    /\ \/ Interrupted /\ status' \in {status, "failed"} /\ UNCHANGED saved
       \/ /\ saved' = [s \in CheckpointSteps |->
                         IF latest # None /\ s = latest.step /\ s # step
                         THEN None ELSE saved[s]]
          /\ status' = "running"
          /\ Continue("loop")
    /\ UNCHANGED <<files, rows, tail, litter, summary, completion, seal>>

-------------------------------------------------------------------------------
(* The end of execute_condition and HiddenLawRunStore.finish.              *)

\* The durable checkpoint summaries of the last step, for an attempt that
\* evaluated nothing itself.
FinalSummaryRows ==
    {r \in rows["metrics"] :
        r.id = [step |-> Steps, kind |-> "evaluate", index |-> EvaluationRows]}

WriteSummary ==
    /\ pc = "loop" /\ ~Remaining
    /\ latestEvaluation = None => Cardinality(FinalSummaryRows) = 1
    /\ summary' =
         [lineage |-> lineage,
          evaluation |-> IF latestEvaluation # None THEN latestEvaluation
                         ELSE [step |-> Steps,
                               by |-> (CHOOSE r \in FinalSummaryRows : TRUE).by]]
    /\ Continue("finish")
    /\ UNCHANGED <<files, rows, tail, saved, litter, latest, status,
                   completion, seal>>

WriteFinalStatus ==
    /\ pc = "finish"
    /\ status' = "complete"
    /\ Continue("attest")
    /\ UNCHANGED <<files, rows, tail, saved, litter, latest, summary,
                   completion, seal>>

Attest ==
    /\ pc = "attest" /\ CompletionFiles \subseteq files
    /\ completion' = Snapshot(summary, status)
    /\ Continue("seal")
    /\ UNCHANGED <<files, rows, tail, saved, litter, latest, status, summary, seal>>

\* finish() raises "missing files"; the handler writes the failed status.
AttestRaises ==
    /\ pc = "attest" /\ ~(CompletionFiles \subseteq files)
    /\ status' = "failed"
    /\ Gone
    /\ attempt' = IF attempt <= MaxInterruptions THEN attempt + 1 ELSE attempt
    /\ UNCHANGED <<files, rows, tail, saved, litter, latest, summary,
                   completion, seal>>

WriteComplete ==
    /\ pc = "seal"
    /\ seal' = completion
    /\ files' = files \cup {"COMPLETE"}
    /\ Continue("retire")
    /\ UNCHANGED <<rows, tail, saved, litter, latest, status, summary,
                   completion>>

\* retire_checkpoints: refuse an unexpected file, otherwise unlink the
\* children in the order the directory lists them and remove the directory.
Retire ==
    /\ pc = "retire"
    /\ \/ /\ litter
          /\ Gone
          /\ UNCHANGED <<saved, latest, files, attempt>>
       \/ /\ ~litter
          /\ saved' = [s \in CheckpointSteps |-> None]
          /\ latest' = None
          /\ files' = files \ {"checkpoints"}
          /\ Gone
          /\ UNCHANGED attempt
       \/ /\ ~litter
          /\ \E gone \in SUBSET CheckpointSteps :
               saved' = [s \in CheckpointSteps |->
                           IF s \in gone THEN None ELSE saved[s]]
          /\ latest' \in {latest, None}
          /\ UNCHANGED files
          /\ Interrupted
    /\ UNCHANGED <<rows, tail, litter, status, summary, completion, seal>>

-------------------------------------------------------------------------------
(* Interruptions.                                                          *)

\* The process is killed between two durable writes.  Killed while it writes
\* a temporary file in checkpoints/, it leaves that file behind.
Crash ==
    /\ pc # "down"
    /\ Interrupted
    /\ litter' \in {litter} \cup (IF pc \in {"save", "point"} THEN {TRUE} ELSE {})
    /\ UNCHANGED <<files, rows, tail, saved, latest, status, summary,
                   completion, seal>>

\* An exception inside the try block of execute_condition.
Fail ==
    /\ pc \notin {"down", "retire"}
    /\ Interrupted
    /\ status' = "failed"
    /\ UNCHANGED <<files, rows, tail, saved, litter, latest, summary,
                   completion, seal>>

-------------------------------------------------------------------------------

Launch == InitializeNew \/ InitializeRaises \/ InitializeResume \/ InitializeComplete

Run ==
    \/ OpenSink \/ WriteBankManifest \/ WriteModelManifest \/ Restore
    \/ Train \/ AppendRows \/ AppendInterrupted \/ RowsWritten
    \/ SaveFile \/ PointLatest
    \/ WriteSummary \/ WriteFinalStatus \/ Attest \/ AttestRaises
    \/ WriteComplete \/ Retire

Next == Launch \/ Run \/ Crash \/ Fail

Spec == Init /\ [][Next]_vars

\* The operator relaunches a condition until it is done, and the process that
\* runs it goes on.
FairSpec == Spec /\ WF_vars(Launch \/ Run)

-------------------------------------------------------------------------------
(* Properties.                                                             *)

Checkpoint == [step : CheckpointSteps, lineage : Lineages]

RowsType ==
    /\ rows = [s \in Streams |-> rows[s]]
    /\ \A s \in Streams :
         rows[s] \subseteq [id : Expected(s, Steps), by : Attempts]

DirectoryType ==
    /\ files \subseteq AllFiles
    /\ litter \in BOOLEAN
    /\ tail \in [Streams -> {"clean", "torn", "merged"}]
    /\ saved \in [CheckpointSteps -> Lineages \cup {None}]
    /\ latest \in Checkpoint \cup {None}
    /\ status \in {None, "running", "failed", "complete"}

ProcessType ==
    /\ pc \in {"down", "sink", "bank", "model", "restore", "loop", "train",
               "evaluate", "save", "point", "finish", "attest", "seal", "retire"}
    /\ cursor \in 1 .. Len(StreamAt) + 1
    /\ step \in 0 .. Steps
    /\ lineage \in Lineages
    /\ attempt \in Attempts
    /\ pc = "train" => step > 0
    /\ pc = "evaluate" => step \in EvaluationSteps
    /\ pc \in {"save", "point"} => step \in CheckpointSteps

\* The variables have their types; in particular every row is one the plan
\* calls for, and a batch is only appended at a step that emits it.
TypeOK == RowsType /\ DirectoryType /\ ProcessType

\* The rows of a stream up to a step are exactly the expected ones, each once,
\* and each was written by the attempt that made the update of its step.  The
\* initial model is the same in every attempt, so step 0 has no such attempt.
Faithful(stream, upto, history) ==
    LET kept == {r \in rows[stream] : r.id.step <= upto} IN
    /\ {r.id : r \in kept} = Expected(stream, upto)
    /\ \A r, q \in kept : r.id = q.id => r = q
    /\ \A r \in kept : r.id.step > 0 => r.by = history[r.id.step]

\* A sealed run holds the complete evidence of one uninterrupted trajectory,
\* however often it was interrupted: nothing lost, nothing twice, and no row of
\* an update that an interruption threw away.
SealedTrajectory ==
    Sealed =>
      \A s \in Streams : tail[s] = "clean" /\ Faithful(s, Steps, summary.lineage)

\* The evaluation in the summary of a sealed run is the one in its metrics,
\* also when the attempt that sealed the run read it back from them.
SealedSummaryIsDurable ==
    Sealed =>
      \E r \in FinalSummaryRows :
        summary.evaluation = [step |-> Steps, by |-> r.by]

\* A sealed directory never fails its own verification: what COMPLETE and
\* completion.json attest is what the directory holds, and nothing is missing.
SealVerifies ==
    Sealed => /\ seal = completion
              /\ completion = Snapshot(summary, status)
              /\ status = "complete"
              /\ CompletionFiles \subseteq files

\* Until the run is sealed, latest.json names a checkpoint file with the digest
\* it records, and every row of the steps up to it is durable and belongs to
\* the model in that file.
CheckpointCoversEvidence ==
    (~Sealed /\ latest # None) =>
      /\ saved[latest.step] = latest.lineage
      /\ \A s \in Streams : Faithful(s, latest.step, latest.lineage)

\* Once initialize() has written environment.json, the run is sealed in the
\* end, wherever it is interrupted and whatever rows or temporary files that
\* leaves behind.
InitialisedRunIsSealed == ("environment.json" \in files) ~> Sealed

-------------------------------------------------------------------------------
(* The trajectory a reader of the directory may rely on.                   *)

Committed == IF Sealed THEN summary.lineage
             ELSE IF latest # None THEN latest.lineage ELSE Blank

Trajectory == INSTANCE ResumableTrajectory WITH history <- Committed, sealed <- Sealed

\* Checkpoints and the seal only ever extend the trajectory: an interruption,
\* a resumption or the retirement of the checkpoints never replaces a step that
\* a checkpoint had committed.
CommittedTrajectory == Trajectory!Spec

===============================================================================

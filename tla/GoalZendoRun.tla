----------------------------- MODULE GoalZendoRun -----------------------------
(***************************************************************************)
(* One known-law GoalZendo run and the processes that execute and resume   *)
(* it: RunStore (artifacts.py), run_one (runner.py), ScheduledHooks and    *)
(* train_steps (training.py) and GoalZendoExperiment.run (experiment.py)   *)
(* with its checkpoints, weights snapshots and their retirement.           *)
(*                                                                         *)
(* Unlike the hidden-law store, a resumed run truncates nothing: it replays *)
(* from the checkpoint, and rows whose record_id, a digest of their whole  *)
(* content, is already durable are not written again.  What that is worth  *)
(* depends on whether a replay reproduces the lost computation.            *)
(*                                                                         *)
(* status.json says "running" from initialize() to finalize() or fail();   *)
(* the progress fields that record_progress adds are not modelled.         *)
(***************************************************************************)
EXTENDS Naturals, Sequences

CONSTANTS
    Steps,              \* train.steps
    EvalSteps,          \* train.eval_steps and the last step
    CheckpointSteps,    \* run.checkpoint_steps
    SnapshotSteps,      \* run.snapshot_steps
    EvalRows,           \* rows one evaluation appends to a stream
    Machines,           \* what a run may be executed on, see below
    MaxInterruptions,   \* bound on kills and exceptions
    None

\* tails: how the last row of a killed append may end.
\* reproducible: a replay computes what the lost computation did.
\* cuda: the summary holds the peak memory of the process.
Machine == [tails : SUBSET {"partial", "unterminated"}, reproducible : BOOLEAN, cuda : BOOLEAN]

\* The attempt that made each step's update, 0 if none has.
Lineages == [1 .. Steps -> 0 .. MaxInterruptions + 1]

\* A checkpoint: the model and what the hooks have done.
Payloads == [lineage : Lineages, emitted : SUBSET ({"evaluate", "checkpoint"} \X (0 .. Steps))]

Rows == [kind : {"evaluation", "optimization"}, step : 0 .. Steps,
         index : 1 .. EvalRows, value : 0 .. MaxInterruptions + 1]

\* A row in a stream: its content and the append that wrote it.
Entries == [row : Rows, by : (1 .. MaxInterruptions + 1) \X {"evaluate", "predict", "loop"}]

Pointers  == [step : CheckpointSteps, payload : Payloads]
Markers   == [final : Lineages \cup {None}, history : Lineages]
Summaries == [final : SUBSET Rows, peak : {None, "training", "no training"}]

ASSUME GoalZendoConstants ==
    /\ Steps \in Nat \ {0} /\ EvalRows \in Nat \ {0} /\ MaxInterruptions \in Nat
    /\ EvalSteps \subseteq 0 .. Steps /\ {0, Steps} \subseteq EvalSteps
    /\ CheckpointSteps \subseteq EvalSteps \ {0}
    /\ SnapshotSteps \subseteq EvalSteps
    /\ IF CheckpointSteps = {} THEN SnapshotSteps = {} ELSE Steps \in CheckpointSteps
    /\ Machines \subseteq Machine

ASSUME NoneIsNothing ==
    /\ None \notin {"running", "failed", "complete", "training", "no training"}
    /\ None \notin Lineages /\ None \notin Payloads /\ None \notin Entries
    /\ None \notin Pointers /\ None \notin Markers /\ None \notin Summaries

VARIABLES
    machine,    \* the same for every process of the run
    disk,       \* the run directory
    mem,        \* the memory of the process
    pc,
    attempt     \* the current attempt, one more than the interruptions

vars == <<machine, disk, mem, pc, attempt>>

Streams == {"metrics", "predictions"}
Manifests == <<"dataset", "model", "tokenizer">>

\* initialize() writes these once, in this order, and then status.json.
InitWrites == <<"identity", "resolved_config", "implementation", "environment">>

Attested == {InitWrites[i] : i \in 1 .. Len(InitWrites)}
              \cup {Manifests[i] : i \in 1 .. Len(Manifests)}

Blank == [s \in 1 .. Steps |-> 0]

Empty ==
    [files |-> {},
     rows |-> [s \in Streams |-> {}],
     tail |-> [s \in Streams |-> "clean"],          \* how the stream ends
     last |-> [s \in Streams |-> None],             \* its row without a newline
     saved |-> [s \in CheckpointSteps |-> None],    \* resume-step-*.pt
     latest |-> None,                               \* latest.json
     snapshot |-> [s \in SnapshotSteps |-> None],   \* weights-step-*.pt
     index |-> [s \in SnapshotSteps |-> None],      \* snapshots/index.json
     retired |-> None,                              \* retired.json
     status |-> None, summary |-> None, completion |-> None]

\* start: the step the process began at; it keeps the optimization metrics of
\* the later ones in memory.
Lost == [resumed |-> FALSE, start |-> 0, step |-> 0, lineage |-> Blank, emitted |-> {}]

Init ==
    /\ machine \in Machines
    /\ disk = Empty /\ mem = Lost /\ pc = "down" /\ attempt = 1

Sealed == "COMPLETE" \in disk.files

-------------------------------------------------------------------------------
(* Interruptions.                                                          *)

Gone == pc' = "down" /\ mem' = Lost

\* Killed, or an exception that run_one's handler records: the directory is
\* left as d.
InterruptedWith(d) ==
    /\ attempt <= MaxInterruptions
    /\ attempt' = attempt + 1
    /\ disk' \in {d, [d EXCEPT !.status = "failed"]}
    /\ Gone

\* The code itself refuses to go on.
Raise ==
    /\ disk' = [disk EXCEPT !.status = "failed"]
    /\ attempt' = IF attempt <= MaxInterruptions THEN attempt + 1 ELSE attempt
    /\ Gone

Crash == pc # "down" /\ InterruptedWith(disk)

Continue(d, next) ==
    /\ disk' = d
    /\ pc' = next
    /\ UNCHANGED <<mem, attempt>>

-------------------------------------------------------------------------------
(* RunStore.initialize and the manifests.                                  *)

\* Mutation: nothing is repaired.
RepairedNothing == disk.tail

\* _repair_incomplete_jsonl_tail drops a last line that does not parse; a last
\* line that only lacks its newline does.
Repaired ==
    [s \in Streams |-> IF disk.tail[s] = "partial" THEN "clean" ELSE disk.tail[s]]

\* A kill after the k-th write leaves the first k files.
Initialize ==
    /\ pc = "down" /\ ~Sealed
    /\ \E k \in 0 .. Len(InitWrites) :
        LET written == disk.files \cup {InitWrites[i] : i \in 1 .. k} IN
        \/ /\ attempt <= MaxInterruptions /\ attempt' = attempt + 1
           /\ disk' = [disk EXCEPT !.files = written]
           /\ UNCHANGED <<mem, pc>>
        \/ /\ k = Len(InitWrites)
           /\ \A s \in Streams : disk.tail[s] # "glued"
           /\ disk' = [disk EXCEPT !.files = written, !.tail = Repaired,
                                   !.status = "running"]
           /\ mem' = [mem EXCEPT !.resumed = disk.status # None]
           /\ pc' = "manifests"
           /\ UNCHANGED attempt

\* A complete run is verified and skipped; a corrupt stream raises before
\* run_one's handler.  Neither writes.
InitializeStops ==
    /\ pc = "down"
    /\ Sealed \/ \E s \in Streams : disk.tail[s] = "glued"
    /\ UNCHANGED <<disk, mem, pc, attempt>>

\* record_manifest, which compares a manifest that exists.
RecordManifests ==
    /\ pc = "manifests"
    /\ \E k \in 0 .. Len(Manifests) :
        LET d == [disk EXCEPT !.files = @ \cup {Manifests[i] : i \in 1 .. k}] IN
        InterruptedWith(d) \/ (k = Len(Manifests) /\ Continue(d, "restore"))

-------------------------------------------------------------------------------
(* Rows.                                                                   *)

\* What distinguishes the values computed at a step.
Value(s) == IF machine.reproducible \/ s = 0 THEN 0 ELSE mem.lineage[s]

Row(kind, s, i) == [kind |-> kind, step |-> s, index |-> i, value |-> Value(s)]

\* The rows of an evaluation; the last one is its checkpoint summary.
EvaluationRows == {Row("evaluation", mem.step, i) : i \in 1 .. EvalRows}

\* After an update its optimization metrics follow the evaluation's rows.
EvaluationMetrics ==
    EvaluationRows \cup (IF mem.start < mem.step THEN {Row("optimization", mem.step, 1)} ELSE {})

\* result.metrics: the updates of this process.
OptimizationRows == {Row("optimization", s, 1) : s \in mem.start + 1 .. Steps}

\* The order of the rows of a batch.
Before(q, r) ==
    \/ q.kind = "evaluation" /\ r.kind = "optimization"
    \/ q.kind = r.kind /\ (q.step < r.step \/ (q.step = r.step /\ q.index < r.index))

Durable(stream) == {e.row : e \in disk.rows[stream]}

\* Mutation: a step some of whose rows are durable is not written again.
NovelSteps(stream, batch) ==
    {r \in batch : \A q \in Durable(stream) : <<q.kind, q.step>> # <<r.kind, r.step>>}

\* append_metrics, append_predictions: metric_ids and prediction_ids hold what
\* the stream held at the start and what was appended since.
Novel(stream, batch) == {r \in batch : r \notin Durable(stream)}

Entry(r) == [row |-> r, by |-> <<attempt, pc>>]

\* The directory after some new rows and then end.  What follows an
\* unterminated row is glued to it; when the result does not end in a newline
\* either, the repair drops both.
Written(stream, new, end, last) ==
    LET nothing == new = {} /\ end = "clean"
        both == disk.tail[stream] = "unterminated" /\ new = {} /\ end = "partial"
    IN [disk EXCEPT
         !.rows[stream] = (IF both THEN @ \ {disk.last[stream]} ELSE @) \cup {Entry(r) : r \in new},
         !.tail[stream] = IF nothing THEN @
                          ELSE IF @ = "clean" \/ both THEN end ELSE "glued",
         !.last[stream] = IF nothing THEN @ ELSE last]

\* What a write that is cut short between two rows has written.
Prefixes(new) == {w \in SUBSET new : \A r \in w, q \in new : Before(q, r) => q \in w}

\* _append_json_lines: one batch, written and fsynced under the lock, or cut
\* short anywhere: between two rows, inside one, before a newline.
AppendBatch(stream, batch, next) ==
    LET new == Novel(stream, batch) IN
    \/ Continue(Written(stream, new, "clean", None), next)
    \/ \E w \in Prefixes(new) :
        \/ /\ w # new
           /\ \E end \in {"clean", "partial"} \cap (machine.tails \cup {"clean"}) :
                InterruptedWith(Written(stream, w, end, None))
        \/ /\ "unterminated" \in machine.tails
           /\ \E r \in w : /\ \A q \in w \ {r} : Before(q, r)
                           /\ InterruptedWith(Written(stream, w, "unterminated", Entry(r)))

-------------------------------------------------------------------------------
(* The start of the backend.                                               *)

\* Mutation: the checkpoint is not loaded.
LoadedNothing == Lost

\* The checkpoint that latest.json names.
Loaded ==
    IF mem.resumed /\ disk.latest # None
    THEN [start |-> disk.latest.step, step |-> disk.latest.step, resumed |-> TRUE,
          lineage |-> disk.latest.payload.lineage, emitted |-> disk.latest.payload.emitted]
    ELSE [mem EXCEPT !.start = 0]

\* Mutation: the checkpoint before the one that is kept survives instead.
SupersededByOld(keep) == {s \in CheckpointSteps : s >= keep}

\* What _prune_resume_checkpoints removes.
Superseded(keep) == CheckpointSteps \ {keep}

Pruned(gone) == [disk EXCEPT !.saved = [s \in CheckpointSteps |->
                                          IF s \in gone THEN None ELSE @[s]]]

Prune(keep, next) ==
    \/ Continue(Pruned(Superseded(keep)), next)
    \/ \E gone \in SUBSET Superseded(keep) : InterruptedWith(Pruned(gone))

Readable == \A s \in Streams : disk.tail[s] \notin {"partial", "glued"}

\* A retired run is recovered from its durable metrics; its final snapshot
\* must be the one that retired.json names.
Recovers == mem.resumed /\ disk.latest = None /\ disk.retired # None

Recover ==
    /\ pc = "restore" /\ Recovers
    /\ IF Readable /\ (Steps \in SnapshotSteps => disk.snapshot[Steps] = disk.retired.final)
       THEN \/ /\ disk' = Pruned(CheckpointSteps) /\ pc' = "recovered"
               /\ mem' = [mem EXCEPT !.start = Steps, !.step = Steps]
               /\ UNCHANGED attempt
            \/ \E gone \in SUBSET CheckpointSteps : InterruptedWith(Pruned(gone))
       ELSE Raise

\* Otherwise the checkpoint is loaded, or training begins at step 0.
Restore ==
    /\ pc = "restore" /\ ~Recovers
    /\ IF Readable /\ (disk.latest # None => disk.saved[disk.latest.step] = disk.latest.payload)
       THEN \/ /\ disk' = IF mem.resumed THEN Pruned(Superseded(Loaded.step)) ELSE disk
               /\ mem' = Loaded /\ pc' = "evaluate"
               /\ UNCHANGED attempt
            \/ \E gone \in SUBSET Superseded(Loaded.step) : InterruptedWith(Pruned(gone))
       ELSE Raise

-------------------------------------------------------------------------------
(* ScheduledHooks.emit: the evaluation, then the checkpoint.               *)

EvaluationDue == mem.step \in EvalSteps /\ <<"evaluate", mem.step>> \notin mem.emitted

CheckpointDue ==
    /\ mem.step \in CheckpointSteps \cup SnapshotSteps
    /\ <<"checkpoint", mem.step>> \notin mem.emitted

Emit(kind, next) ==
    /\ mem' = [mem EXCEPT !.emitted = @ \cup {<<kind, mem.step>>}]
    /\ pc' = next
    /\ UNCHANGED <<disk, attempt>>

SkipHook ==
    \/ pc = "evaluate" /\ ~EvaluationDue /\ Continue(disk, "checkpoint")
    \/ pc = "checkpoint" /\ ~CheckpointDue /\ Continue(disk, "loop")

\* evaluate_callback
AppendMetrics == pc = "evaluate" /\ EvaluationDue /\ AppendBatch("metrics", EvaluationMetrics, "predict")
AppendPredictions == pc = "predict" /\ AppendBatch("predictions", EvaluationRows, "evaluated")
Evaluated == pc = "evaluated" /\ Emit("evaluate", "checkpoint")

\* checkpoint_callback: a snapshot and its index entry first, then, at a
\* resumable step, the checkpoint, the pointer and the pruning.
WriteSnapshot ==
    /\ pc = "checkpoint" /\ CheckpointDue
    /\ IF mem.step \in SnapshotSteps
       THEN Continue([disk EXCEPT !.snapshot[mem.step] = mem.lineage], "index")
       ELSE Continue(disk, "save")

\* Mutation: an entry that is there stays.
IndexOnce == IF disk.index[mem.step] = None THEN mem.lineage ELSE disk.index[mem.step]

\* The entry of a step is replaced.
IndexEntry == mem.lineage

WriteIndex ==
    /\ pc = "index"
    /\ Continue([disk EXCEPT !.index[mem.step] = IndexEntry],
                IF mem.step \in CheckpointSteps THEN "save" ELSE "checkpointed")

\* The saved hook state already has this checkpoint's own marker.
Payload == [lineage |-> mem.lineage, emitted |-> mem.emitted \cup {<<"checkpoint", mem.step>>}]

SaveFile ==
    /\ pc = "save"
    /\ Continue([disk EXCEPT !.saved[mem.step] = Payload], "point")

PointLatest ==
    /\ pc = "point"
    /\ Continue([disk EXCEPT !.latest = [step |-> mem.step, payload |-> Payload]], "prune")

PruneSuperseded == pc = "prune" /\ Prune(mem.step, "checkpointed")

Checkpointed == pc = "checkpointed" /\ Emit("checkpoint", "loop")

-------------------------------------------------------------------------------
(* train_steps                                                             *)

\* Mutation: one update more.
OneTooMany == mem.step <= Steps

\* while current.global_step < total_steps
Remaining == mem.step < Steps

Train ==
    /\ pc = "loop" /\ Remaining
    /\ mem' = [mem EXCEPT !.step = @ + 1, !.lineage[mem.step + 1] = attempt]
    /\ pc' = "evaluate"
    /\ UNCHANGED <<disk, attempt>>

CollectRows ==
    /\ pc = "loop" /\ ~Remaining
    /\ AppendBatch("metrics", OptimizationRows, "result")

-------------------------------------------------------------------------------
(* The end of the backend and RunStore.finalize.                           *)

FinalSummaries ==
    {r \in Durable("metrics") :
        r.kind = "evaluation" /\ r.step = Steps /\ r.index = EvalRows}

\* completed_backend_result reads the final evaluation back.
ResultReady ==
    /\ disk.tail["metrics"] # "glued" /\ FinalSummaries # {}
    /\ (pc = "result" /\ Steps \in SnapshotSteps) => disk.index[Steps] # None

BuildResult ==
    /\ pc \in {"result", "recovered"} /\ ResultReady
    /\ Continue(disk, IF pc = "result" /\ CheckpointSteps # {} THEN "retire" ELSE "summary")

ResultRaises == pc \in {"result", "recovered"} /\ ~ResultReady /\ Raise

\* _retire_resume_checkpoint.  history is not in the file: it is the model
\* that the marker vouches for.
WriteRetired ==
    /\ pc = "retire"
    /\ Continue([disk EXCEPT !.retired =
                   [final |-> IF Steps \in SnapshotSteps THEN disk.index[Steps] ELSE None,
                    history |-> mem.lineage]], "unpoint")

RemovePointer == pc = "unpoint" /\ Continue([disk EXCEPT !.latest = None], "unlink")

PruneRetired == pc = "unlink" /\ Prune(0, "summary")

\* cuda_memory_summary: the peak of this process since train_steps began.
Peak == IF ~machine.cuda THEN None ELSE IF mem.start < Steps THEN "training" ELSE "no training"

Summary == [final |-> FinalSummaries, peak |-> Peak]

\* A summary that exists must be the same.
WriteSummary ==
    /\ pc = "summary"
    /\ {Manifests[i] : i \in 1 .. Len(Manifests)} \subseteq disk.files
    /\ disk.summary \in {None, Summary}
    /\ Continue([disk EXCEPT !.summary = Summary], "status")

SummaryRaises == pc = "summary" /\ disk.summary \notin {None, Summary} /\ Raise

WriteStatus == pc = "status" /\ Continue([disk EXCEPT !.status = "complete"], "attest")

Contents ==
    [rows |-> disk.rows, tail |-> disk.tail, summary |-> disk.summary, status |-> disk.status]

Terminated == \A s \in Streams : disk.tail[s] \in {"clean", "glued"}

\* _file_attestation wants a final newline; it does not parse the rows.
Attest ==
    /\ pc = "attest" /\ Terminated /\ Attested \subseteq disk.files
    /\ Continue([disk EXCEPT !.completion = Contents], "complete")

AttestRaises == pc = "attest" /\ ~Terminated /\ Raise

WriteComplete ==
    /\ pc = "complete"
    /\ disk' = [disk EXCEPT !.files = @ \cup {"COMPLETE"}]
    /\ Gone /\ UNCHANGED attempt

-------------------------------------------------------------------------------

Launch == Initialize \/ InitializeStops

Hooks ==
    \/ SkipHook \/ AppendMetrics \/ AppendPredictions \/ Evaluated
    \/ WriteSnapshot \/ WriteIndex \/ SaveFile \/ PointLatest
    \/ PruneSuperseded \/ Checkpointed

Finish ==
    \/ CollectRows \/ BuildResult \/ ResultRaises
    \/ WriteRetired \/ RemovePointer \/ PruneRetired
    \/ WriteSummary \/ SummaryRaises \/ WriteStatus
    \/ Attest \/ AttestRaises \/ WriteComplete

Run ==
    \/ RecordManifests \/ Recover \/ Restore
    \/ Hooks \/ Train \/ Finish

Next == (Launch \/ Run \/ Crash) /\ UNCHANGED machine

Spec == Init /\ [][Next]_vars

\* The operator launches the run until it is complete, and its process goes on.
FairSpec == Spec /\ WF_vars((Launch \/ Run) /\ UNCHANGED machine)

-------------------------------------------------------------------------------
(* Properties.                                                             *)

Directories ==
    [files : SUBSET (Attested \cup {"COMPLETE"}),
     rows : [Streams -> SUBSET Entries],
     tail : [Streams -> {"clean", "partial", "unterminated", "glued"}],
     last : [Streams -> Entries \cup {None}],
     saved : [CheckpointSteps -> Payloads \cup {None}],
     latest : Pointers \cup {None},
     snapshot : [SnapshotSteps -> Lineages \cup {None}],
     index : [SnapshotSteps -> Lineages \cup {None}],
     retired : Markers \cup {None},
     status : {None, "running", "failed", "complete"},
     summary : Summaries \cup {None},
     completion : [rows : [Streams -> SUBSET Entries],
                   tail : [Streams -> {"clean", "partial", "unterminated", "glued"}],
                   summary : Summaries \cup {None},
                   status : {None, "running", "failed", "complete"}] \cup {None}]

Processes ==
    [resumed : BOOLEAN, start : 0 .. Steps, step : 0 .. Steps, lineage : Lineages,
     emitted : SUBSET ({"evaluate", "checkpoint"} \X (0 .. Steps))]

Places ==
    {"down", "manifests", "restore", "recovered", "evaluate", "predict", "evaluated",
     "checkpoint", "index", "save", "point", "prune", "checkpointed", "loop", "result",
     "retire", "unpoint", "unlink", "summary", "status", "attest", "complete"}

TypeOK ==
    /\ machine \in Machines
    /\ disk \in Directories
    /\ mem \in Processes
    /\ pc \in Places
    /\ attempt \in 1 .. MaxInterruptions + 1

Of(stream, kind, s) == {r \in Durable(stream) : r.kind = kind /\ r.step = s}

\* Every append was cut off inside a row or between two, never before a newline.
NoRowIsGlued == "unterminated" \notin machine.tails

\* Where a replay writes the same rows, none of them is cut off before its newline:
\* it would not be written again, and with what follows it lost in a repair.
TailsAreSafe == NoRowIsGlued \/ ~machine.reproducible

Same(r, q) == r.kind = q.kind /\ r.step = q.step /\ r.index = q.index

\* A complete run can be read and holds every row of every scheduled evaluation,
\* however its processes were interrupted between the two streams and the
\* checkpoint.  It says everything once if a replay says what was lost.
EvaluationsAreComplete ==
    (Sealed /\ NoRowIsGlued) => \A s \in Streams :
      /\ disk.tail[s] = "clean"
      /\ \A t \in EvalSteps : {r.index : r \in Of(s, "evaluation", t)} = 1 .. EvalRows
      /\ machine.reproducible =>
           \A e, f \in disk.rows[s] : Same(e.row, f.row) => e = f

\* latest.json names a checkpoint file with the digest it records, and the
\* hook state in it claims only what is durable, as far as tails are safe.
CheckpointIsGood ==
    disk.latest # None =>
      LET checkpoint == disk.saved[disk.latest.step] IN
      /\ checkpoint = disk.latest.payload
      /\ \A t \in EvalSteps :
           <<"evaluate", t>> \in checkpoint.emitted <=> t <= disk.latest.step
      /\ TailsAreSafe =>
           \A s \in Streams, t \in EvalSteps \cap 0 .. disk.latest.step :
             {r.index : r \in Of(s, "evaluation", t)} = 1 .. EvalRows

\* The snapshots of a complete run are of one model's training, the one that
\* was retired, and the index has their digests, also when an interruption came
\* between a snapshot and its index entry and the replay computed another model.
SnapshotsAreOneModel ==
    (Sealed /\ CheckpointSteps # {}) =>
      \A s \in SnapshotSteps :
        /\ disk.snapshot[s] = [t \in 1 .. Steps |-> IF t <= s THEN disk.retired.history[t] ELSE 0]
        /\ disk.index[s] = disk.snapshot[s]

\* "a crash either leaves a valid latest checkpoint or a durable completion
\* marker" (experiment.py:2203): what a checkpoint has committed, a later
\* attempt extends or retires, and never replaces.
Committed ==
    IF disk.retired # None THEN disk.retired.history
    ELSE IF disk.latest # None THEN disk.latest.payload.lineage ELSE Blank

Trajectory == INSTANCE ResumableTrajectory WITH history <- Committed, sealed <- Sealed

CommittedTrajectory == Trajectory!Spec

\* A run that is launched again after every interruption completes, where replays
\* are exact and no row is glued.
RunIsSealed == (machine.reproducible /\ NoRowIsGlued) => <>Sealed

\* The same where the summary does not depend on the process.
RunIsSealedOffCuda == ~machine.cuda => RunIsSealed

===============================================================================

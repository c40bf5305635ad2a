----------------------------- MODULE ForkWorldRun -----------------------------
(***************************************************************************)
(* One run directory of ForkWorld and the processes that execute it:       *)
(* RunStore (artifacts.py) and execute_one (runner.py) of forkworld.       *)
(*                                                                         *)
(* There is no incremental resumption: a directory without COMPLETE is     *)
(* emptied and executed from the beginning.  Nothing locks the directory,  *)
(* so the model has a set of workers; every launch is an attempt of its    *)
(* own, and every file and row remembers the attempt that wrote it.  A     *)
(* process may be killed between any two file operations and in the middle *)
(* of an append, and any operation may raise.                              *)
(***************************************************************************)
EXTENDS Naturals, Sequences, FiniteSets

CONSTANTS
    Workers,            \* processes that may execute the run
    Forces,             \* whether launches replace a completed run: --force, or
                        \* run.resume off
    Checkpoints,        \* names of the checkpoints, "final" last; << >> if not saved
    Levels,             \* task levels with a navigation evaluation, in order
    SavePredictions,    \* evaluation.save_predictions
    BatchRows,          \* rows of one append
    MaxAttempts,        \* bound on the executions
    None

ASSUME ForkWorldConstants ==
    /\ Forces \subseteq BOOLEAN /\ SavePredictions \in BOOLEAN
    /\ BatchRows \in Nat \ {0} /\ MaxAttempts \in Nat \ {0}
    /\ None \notin 1 .. MaxAttempts /\ None \notin Workers
    /\ Levels \in Seq({Levels[i] : i \in DOMAIN Levels})
    /\ Checkpoints \in Seq({Checkpoints[i] : i \in DOMAIN Checkpoints})
    /\ \A i \in DOMAIN Checkpoints :
         Checkpoints[i] \notin {"run_dir", "metrics", "predictions", "resolved_config",
                               "metadata", "status", "summary", "COMPLETE"}

VARIABLES
    file,       \* the attempt that wrote each file, None if it does not exist
    rows,       \* the rows of metrics.jsonl and predictions.jsonl
    broken,     \* whether a stream holds part of a row
    state,      \* the state written to status.json
    pc, cursor, \* per worker
    force,      \* per worker: it was launched to replace a completed run
    me,         \* per worker: its attempt
    attempts    \* executions begun so far

directory == <<file, rows, broken, state>>
process == <<pc, cursor, force, me, attempts>>
vars == <<directory, process>>

-------------------------------------------------------------------------------

Attempt == 1 .. MaxAttempts
Streams == {"metrics", "predictions"}
CheckpointNames == {Checkpoints[i] : i \in DOMAIN Checkpoints}
Written == {"resolved_config", "metadata", "status", "summary", "COMPLETE"} \cup CheckpointNames
Files == {"run_dir"} \cup Streams \cup Written

Exists(name) == file[name] # None
Complete == Exists("COMPLETE")

\* Mutation: the predictions of an earlier attempt are kept.
ResetMetricsOnly == <<"metrics", "summary", "status", "COMPLETE">> \o Checkpoints

\* initialize(reset=True) unlinks these in order, COMPLETE last, then the
\* checkpoints/*.pt; a temporary file of an interrupted save stays.
ResetOrder ==
    <<"metrics", "predictions", "summary", "status", "COMPLETE">> \o Checkpoints

\* What initialize() then writes.
PrepareOrder == <<"resolved_config", "metadata", "status">>

\* The appends of an attempt: the protocol's metrics and predictions, and the
\* metrics of each navigation level.
Batch(stream) ==
    IF stream = "metrics"
    THEN {"protocol"} \cup {Levels[i] : i \in DOMAIN Levels}
    ELSE IF SavePredictions THEN {"protocol"} ELSE {}

\* Everything an attempt leaves in a stream.
Evidence(stream, a) ==
    [batch : Batch(stream), index : 1 .. BatchRows, by : {a}]

\* Mutation: the marker is written before the summary.
MarkerFirst == <<"COMPLETE", "summary", "status">>

\* finalize()
FinalizeOrder == <<"summary", "status", "COMPLETE">>

Init ==
    /\ file = [f \in Files |-> None]
    /\ rows = [s \in Streams |-> {}]
    /\ broken = [s \in Streams |-> FALSE]
    /\ state = None
    /\ pc = [w \in Workers |-> "idle"]
    /\ cursor = [w \in Workers |-> 1]
    /\ force = [w \in Workers |-> FALSE]
    /\ me = [w \in Workers |-> None]
    /\ attempts = 0

Goto(w, next) ==
    /\ pc' = [pc EXCEPT ![w] = next]
    /\ cursor' = [cursor EXCEPT ![w] = 1]

Stay == UNCHANGED <<force, me, attempts>>

\* The process is gone.
Leave(w) ==
    /\ Goto(w, "idle")
    /\ force' = [force EXCEPT ![w] = FALSE]
    /\ me' = [me EXCEPT ![w] = None]
    /\ UNCHANGED attempts

\* The bound: an execution is only interrupted when another one may follow.
Interruptible == attempts < MaxAttempts

Create(name, a) ==
    /\ file' = [file EXCEPT ![name] = a]
    /\ UNCHANGED <<rows, broken>>

-------------------------------------------------------------------------------
(* execute_one up to the protocol.                                         *)

\* Mutation: a run whose directory exists is taken for complete.
SkipsExisting(w) == Exists("run_dir") /\ ~force[w]

\* Mutation: a completed run is executed again.
NeverSkips(w) == FALSE

\* store.complete and run.resume and not force
Skips(w) == Complete /\ ~force[w]

Launch(w) ==
    /\ pc[w] = "idle"
    /\ \E f \in Forces :
        /\ f => attempts < MaxAttempts
        /\ force' = [force EXCEPT ![w] = f]
    /\ Goto(w, "check")
    /\ UNCHANGED <<directory, me, attempts>>

Check(w) ==
    /\ pc[w] = "check"
    /\ IF Skips(w) THEN Leave(w) ELSE Goto(w, "begin") /\ Stay
    /\ UNCHANGED directory

\* reset = force or store.path.exists()
Resets(w) == force[w] \/ Exists("run_dir")

\* initialize() creates the directory ...
Begin(w) ==
    /\ pc[w] = "begin" /\ attempts < MaxAttempts
    /\ attempts' = attempts + 1
    /\ me' = [me EXCEPT ![w] = attempts + 1]
    /\ Goto(w, IF Resets(w) THEN "reset" ELSE "prepare")
    /\ file' = [file EXCEPT !["run_dir"] = IF @ = None THEN attempts + 1 ELSE @]
    /\ UNCHANGED <<rows, broken, state, force>>

\* ... removes what an earlier attempt left, one file after the other ...
Reset(w) ==
    /\ pc[w] = "reset"
    /\ LET name == ResetOrder[cursor[w]] IN
        /\ file' = [file EXCEPT ![name] = None]
        /\ rows' = [s \in Streams |-> IF s = name THEN {} ELSE rows[s]]
        /\ broken' = [s \in Streams |-> broken[s] /\ s # name]
        /\ state' = IF name = "status" THEN None ELSE state
    /\ IF cursor[w] < Len(ResetOrder)
       THEN cursor' = [cursor EXCEPT ![w] = @ + 1] /\ UNCHANGED pc
       ELSE Goto(w, "prepare")
    /\ Stay

\* ... and writes the configuration, the metadata and the status.
Prepare(w) ==
    /\ pc[w] = "prepare"
    /\ LET name == PrepareOrder[cursor[w]] IN
        /\ Create(name, me[w])
        /\ state' = IF name = "status" THEN "running" ELSE state
    /\ IF cursor[w] < Len(PrepareOrder)
       THEN cursor' = [cursor EXCEPT ![w] = @ + 1] /\ UNCHANGED pc
       ELSE Goto(w, "metrics")
    /\ Stay

-------------------------------------------------------------------------------
(* execute_one after the protocol has run in memory.                       *)

\* What follows the checkpoints: the navigation metrics of each level, then
\* finalize().
AfterCheckpoints == IF Levels = << >> THEN "finalize" ELSE "navigate"
AfterPredictions == IF Checkpoints = << >> THEN AfterCheckpoints ELSE "checkpoint"

\* The rows that w appends now.
Appending(w) ==
    IF pc[w] = "metrics" THEN [stream |-> "metrics", batch |-> "protocol"]
    ELSE IF pc[w] = "predictions" THEN [stream |-> "predictions", batch |-> "protocol"]
    ELSE [stream |-> "metrics", batch |-> Levels[cursor[w]]]

\* Mutation: one row too many.
OneRowMore(w) == [batch : {Appending(w).batch}, index : 1 .. BatchRows + 1, by : {me[w]}]

Rows(w) == [batch : {Appending(w).batch}, index : 1 .. BatchRows, by : {me[w]}]

AppendRows(w) ==
    /\ pc[w] \in {"metrics", "predictions", "navigate"}
    /\ LET s == Appending(w).stream IN
        IF Appending(w).batch \in Batch(s)
        THEN /\ rows' = [rows EXCEPT ![s] = @ \cup Rows(w)]
             /\ file' = [file EXCEPT ![s] = IF @ = None THEN me[w] ELSE @]
        ELSE UNCHANGED <<rows, file>>
    /\ IF pc[w] = "metrics" THEN Goto(w, "predictions")
       ELSE IF pc[w] = "predictions" THEN Goto(w, AfterPredictions)
       ELSE IF cursor[w] < Len(Levels)
            THEN cursor' = [cursor EXCEPT ![w] = @ + 1] /\ UNCHANGED pc
            ELSE Goto(w, "finalize")
    /\ UNCHANGED <<broken, state>>
    /\ Stay

\* Killed, or failing, in the middle of an append: the first k rows are in the
\* file, and perhaps part of the next one.
AppendInterrupted(w) ==
    /\ pc[w] \in {"metrics", "predictions", "navigate"} /\ Interruptible
    /\ LET s == Appending(w).stream IN
        /\ Appending(w).batch \in Batch(s)
        /\ file' = [file EXCEPT ![s] = IF @ = None THEN me[w] ELSE @]
        /\ \E k \in 0 .. BatchRows - 1, torn \in BOOLEAN :
            /\ rows' = [rows EXCEPT ![s] = @ \cup {r \in Rows(w) : r.index <= k}]
            /\ broken' = [broken EXCEPT ![s] = @ \/ torn]
    /\ UNCHANGED state
    /\ \/ Leave(w)
       \/ Goto(w, "fail") /\ Stay

\* save_checkpoint_payload for each checkpoint, save_checkpoint for "final".
SaveCheckpoint(w) ==
    /\ pc[w] = "checkpoint"
    /\ Create(Checkpoints[cursor[w]], me[w])
    /\ UNCHANGED state
    /\ IF cursor[w] < Len(Checkpoints)
       THEN cursor' = [cursor EXCEPT ![w] = @ + 1] /\ UNCHANGED pc
       ELSE Goto(w, AfterCheckpoints)
    /\ Stay

Finalize(w) ==
    /\ pc[w] = "finalize"
    /\ LET name == FinalizeOrder[cursor[w]] IN
        /\ Create(name, me[w])
        /\ state' = IF name = "status" THEN "complete" ELSE state
    /\ IF cursor[w] < Len(FinalizeOrder)
       THEN cursor' = [cursor EXCEPT ![w] = @ + 1] /\ UNCHANGED pc /\ Stay
       ELSE Leave(w)

-------------------------------------------------------------------------------
(* Interruptions.                                                          *)

\* An exception after initialize(): the handler writes the failed status.
Raise(w) ==
    /\ pc[w] \in {"metrics", "predictions", "checkpoint", "navigate", "finalize"}
    /\ Interruptible
    /\ Goto(w, "fail")
    /\ UNCHANGED directory
    /\ Stay

Fail(w) ==
    /\ pc[w] = "fail"
    /\ Create("status", me[w])
    /\ state' = "failed"
    /\ Leave(w)

\* Killed between two file operations, or an exception inside initialize(),
\* which is outside the try block.
Crash(w) ==
    /\ pc[w] \notin {"idle", "check", "begin"} /\ Interruptible
    /\ Leave(w)
    /\ UNCHANGED directory

-------------------------------------------------------------------------------

Execute(w) ==
    \/ Check(w) \/ Begin(w) \/ Reset(w) \/ Prepare(w)
    \/ AppendRows(w) \/ SaveCheckpoint(w) \/ Finalize(w) \/ Fail(w)

Next ==
    \E w \in Workers :
        Launch(w) \/ Execute(w) \/ AppendInterrupted(w) \/ Raise(w) \/ Crash(w)

Spec == Init /\ [][Next]_vars

\* The operator launches the run again until it is complete, and a process
\* that is not interrupted goes on.
FairSpec == Spec /\ \A w \in Workers : WF_vars(Launch(w) \/ Execute(w))

-------------------------------------------------------------------------------
(* Properties.                                                             *)

TypeOK ==
    /\ file \in [Files -> Attempt \cup {None}]
    /\ \A s \in Streams :
        rows[s] \subseteq [batch : Batch(s), index : 1 .. BatchRows, by : Attempt]
    /\ broken \in [Streams -> BOOLEAN]
    /\ state \in {None, "running", "failed", "complete"}
    /\ pc \in [Workers -> {"idle", "check", "begin", "reset", "prepare", "metrics",
                           "predictions", "checkpoint", "navigate", "finalize", "fail"}]
    /\ cursor \in [Workers -> 1 .. Len(ResetOrder) + Len(Levels)]
    /\ force \in [Workers -> BOOLEAN]
    /\ me \in [Workers -> Attempt \cup {None}]
    /\ attempts \in 0 .. MaxAttempts

\* The directory holds all that attempt a produced and nothing else.
WholeEvidence(a) ==
    /\ \A name \in Written : file[name] = a
    /\ \A s \in Streams : rows[s] = Evidence(s, a) /\ ~broken[s]
    /\ state = "complete"

\* A run that readers take for complete (discover_runs, and the next launch,
\* which skips it) holds the whole evidence of one attempt and no row, file or
\* half-written line of another.
CompleteIsWhole == Complete => \E a \in Attempt : WholeEvidence(a)

\* Also with launches that replace completed runs: a directory with COMPLETE is
\* whole, or is being emptied, its metrics first, and has nothing of another
\* attempt.
CompleteIsWholeOrEmptied ==
    Complete =>
      \/ \E a \in Attempt : WholeEvidence(a)
      \/ /\ ~Exists("metrics") /\ rows["metrics"] = {}
         /\ \A f \in {g \in Written : Exists(g)} : file[f] = file["COMPLETE"]
         /\ ~broken["predictions"]
         /\ \A r \in rows["predictions"] : r.by = file["COMPLETE"]

\* Nobody touches a completed run unless a launch was told to replace it.
CompletedRunIsKept ==
    [][Complete => UNCHANGED directory \/ \E w \in Workers : force[w]]_vars

\* Whatever an interrupted attempt leaves behind without COMPLETE, a replacement
\* that got as far as unlinking it included, launching the run again ends in the
\* whole evidence of one attempt.  A replacement killed before it unlinks COMPLETE
\* is the exception: the emptied directory keeps the marker, so every later launch
\* that is not forced skips it.
RunCompletes == ~Complete ~> \E a \in Attempt : WholeEvidence(a)

===============================================================================

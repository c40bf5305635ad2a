-------------------------- MODULE HiddenLawRunProofs --------------------------
(***************************************************************************)
(* Theorems about HiddenLawRun, for every number of steps, every choice of *)
(* evaluation and checkpoint steps and every number of interruptions.      *)
(***************************************************************************)
EXTENDS HiddenLawRun, TLAPS

-------------------------------------------------------------------------------
(* The inductive invariant.                                                *)

\* The process has restored its model.
Live == pc \in {"loop", "train", "evaluate", "save", "point", "finish",
                "attest", "seal"}

\* The turn of a stream in the current batch of appends is over.
Appended(stream) == \E i \in 1 .. cursor - 1 : StreamAt[i] = stream

\* What a live process must have made durable.
Due(stream) ==
    {e \in Expected(stream, step) :
        \/ pc \notin {"train", "evaluate"}
        \/ e.step < step
        \/ e.kind = "train" /\ (pc = "evaluate" \/ Appended(stream))
        \/ e.kind = "evaluate" /\ pc = "evaluate" /\ Appended(stream)}

\* A trajectory consists of the steps up to n.
UpTo(history, n) == \A i \in 1 .. Steps : history[i] > 0 <=> i <= n

\* The directory: until it is sealed, the pointer names a readable checkpoint
\* that the rows cover; no record_id occurs twice; no line is broken.
CheckpointInv ==
    (~Sealed /\ latest # None) =>
      /\ saved[latest.step] = latest.lineage
      /\ UpTo(latest.lineage, latest.step)
      /\ \A s \in Streams : Faithful(s, latest.step, latest.lineage)

UniqueInv == \A s \in Streams : \A r, q \in rows[s] : r.id = q.id => r = q

UnbrokenInv == \A s \in Streams : tail[s] # "merged"

\* Whatever exists is in the run directory.
RootInv == (files # {} \/ pc # "down") => "run_dir" \in files

\* The process: what holds outside the training loop and its epilogue,
IdleInv ==
    /\ pc \notin {"train", "evaluate"} => cursor = 1
    /\ ~Live /\ pc # "retire" => latestEvaluation = None
    /\ pc = "retire" => Sealed
    /\ Live \/ pc \in {"bank", "model", "restore"} =>
         \A s \in Streams : tail[s] = "clean"

\* what its model is and how it relates to the latest checkpoint,
LineageInv ==
    Live =>
      /\ UpTo(lineage, step)
      /\ (pc \in {"train", "evaluate"} /\ step > 0) => lineage[step] = attempt
      /\ pc = "point" => saved[step] = lineage
      /\ latest # None =>
           /\ latest.step <= step
           /\ pc \in {"train", "evaluate", "save", "point"} => latest.step < step
           /\ \A i \in 1 .. latest.step : lineage[i] = latest.lineage[i]

\* that its rows are those of its model and that all that are due are there,
RowsInv ==
    Live =>
      \A s \in Streams :
        /\ \A r \in rows[s] :
             r.id.step <= step /\ (r.id.step > 0 => r.by = lineage[r.id.step])
        /\ \A e \in Due(s) : \E r \in rows[s] : r.id = e

\* that an evaluation in memory is of a step this attempt trained, and at the
\* end of a step the evaluation of that step,
EvaluationInv ==
    (Live /\ latestEvaluation # None) =>
      /\ latestEvaluation \in [step : EvaluationSteps, by : Attempts]
      /\ latestEvaluation.step <= step
      /\ latestEvaluation.step > 0 => lineage[latestEvaluation.step] = latestEvaluation.by
      /\ (pc \in {"loop", "save", "point"} /\ step \in EvaluationSteps) =>
           latestEvaluation.step = step

SummaryMatches ==
    \E r \in FinalSummaryRows : summary.evaluation = [step |-> Steps, by |-> r.by]

\* and what finish() has written so far.
FinishInv ==
    /\ pc \in {"finish", "attest", "seal"} =>
         step = Steps /\ summary.lineage = lineage /\ SummaryMatches
    /\ pc \in {"attest", "seal"} => status = "complete"
    /\ pc = "seal" => completion = Snapshot(summary, status) /\ CompletionFiles \subseteq files

SealInv ==
    Sealed =>
      /\ pc \in {"down", "retire"} /\ "run_dir" \in files
      /\ UpTo(summary.lineage, Steps)
      /\ SealedTrajectory /\ SealedSummaryIsDurable /\ SealVerifies

DirectoryInv == CheckpointInv /\ UniqueInv /\ UnbrokenInv /\ RootInv

ProcessInv == IdleInv /\ LineageInv /\ RowsInv /\ EvaluationInv /\ FinishInv

IInv == TypeOK /\ DirectoryInv /\ ProcessInv /\ SealInv

-------------------------------------------------------------------------------
(* Facts about the constants.                                              *)

LEMMA StreamAtFacts ==
    /\ Len(StreamAt) = 3
    /\ \A i \in 1 .. 3 : StreamAt[i] \in Streams
    /\ \A s \in Streams : \E i \in 1 .. 3 : StreamAt[i] = s
    /\ \A i, j \in 1 .. 3 : StreamAt[i] = StreamAt[j] => i = j
BY DEF StreamAt, Streams

\* An expected record is of a step up to the last.
LEMMA ExpectedShape ==
    ASSUME NEW stream \in Streams, NEW n \in 0 .. Steps, NEW e \in Expected(stream, n)
    PROVE  /\ e.step \in 0 .. n
           /\ e.kind \in {"train", "evaluate"}
           /\ e.index \in Emitted(stream, e.kind)
           /\ e = [step |-> e.step, kind |-> e.kind, index |-> e.index]
           /\ e.kind = "train" => e.step > 0
           /\ e.kind = "evaluate" => e.step \in EvaluationSteps
BY HiddenLawConstants DEF Expected

\* The records expected up to a step are the expected ones of its steps.
LEMMA ExpectedUpTo ==
    ASSUME NEW stream \in Streams, NEW n \in 0 .. Steps, NEW m \in 0 .. n, NEW e
    PROVE  e \in Expected(stream, m) <=> e \in Expected(stream, n) /\ e.step <= m
BY HiddenLawConstants DEF Expected

\* What a training block or an evaluation emits is expected.
LEMMA EmittedExpected ==
    ASSUME NEW stream \in Streams, NEW n \in 0 .. Steps,
           NEW kind \in {"train", "evaluate"}, NEW i \in Emitted(stream, kind),
           kind = "train" => n > 0,
           kind = "evaluate" => n \in EvaluationSteps
    PROVE  [step |-> n, kind |-> kind, index |-> i] \in Expected(stream, n)
BY HiddenLawConstants DEF Expected

-------------------------------------------------------------------------------
(* Type correctness.                                                       *)

\* An interruption leaves no process behind.
LEMMA InterruptedType ==
    ASSUME ProcessType, Interrupted
    PROVE  ProcessType'
BY HiddenLawConstants, StreamAtFacts
   DEF ProcessType, Interrupted, Gone, Blank, Lineages, Attempts

LEMMA GoneType ==
    ASSUME ProcessType, Gone, attempt' \in Attempts
    PROVE  ProcessType'
BY HiddenLawConstants, StreamAtFacts DEF ProcessType, Gone, Blank, Lineages

\* A step of the process that leaves its memory alone.
LEMMA ContinueType ==
    ASSUME ProcessType,
           NEW next \in {"sink", "bank", "model", "restore", "loop", "finish",
                         "attest", "seal", "retire"},
           Continue(next)
    PROVE  ProcessType'
BY DEF ProcessType, Continue, memory

LEMMA InitType == Init => TypeOK
<1> SUFFICES ASSUME Init PROVE TypeOK
  OBVIOUS
<1> USE HiddenLawConstants, StreamAtFacts DEF Init
<1>1. RowsType
  BY DEF RowsType
<1>2. DirectoryType
  BY DEF DirectoryType
<1>3. ProcessType
  BY DEF ProcessType, Blank, Lineages, Attempts
<1>4. QED
  BY <1>1, <1>2, <1>3 DEF TypeOK

LEMMA NovelType ==
    ASSUME ProcessType, pc \in {"train", "evaluate"}, NEW s \in Streams,
           NEW r \in Novel(s)
    PROVE  /\ r.id \in Expected(s, step) /\ r.id \in Expected(s, Steps)
           /\ r.by = attempt /\ r \in [id : Expected(s, Steps), by : Attempts]
<1>1. PICK i \in Emitted(s, pc) :
        /\ [step |-> step, kind |-> pc, index |-> i] \notin Ids(s)
        /\ r = [id |-> [step |-> step, kind |-> pc, index |-> i], by |-> attempt]
  BY DEF Novel
<1>2. [step |-> step, kind |-> pc, index |-> i] \in Expected(s, step)
  BY EmittedExpected DEF ProcessType
<1>3. [step |-> step, kind |-> pc, index |-> i] \in Expected(s, Steps)
  BY <1>2, ExpectedUpTo, HiddenLawConstants DEF ProcessType
<1>4. QED
  BY <1>1, <1>2, <1>3 DEF ProcessType

LEMMA WriteType ==
    ASSUME RowsType, DirectoryType, ProcessType, pc \in {"train", "evaluate"},
           NEW s \in Streams, NEW written \in SUBSET Novel(s),
           NEW end \in {"clean", "torn"}, Write(s, written, end)
    PROVE  RowsType' /\ tail' \in [Streams -> {"clean", "torn", "merged"}]
<1>1. written \subseteq [id : Expected(s, Steps), by : Attempts]
  BY NovelType
<1>2. RowsType'
  BY <1>1 DEF RowsType, Write
<1>3. QED
  BY <1>2 DEF DirectoryType, Write

\* A resumed process starts from a step and a model of the run.
LEMMA LoadedType ==
    ASSUME DirectoryType
    PROVE  Loaded.step \in 0 .. Steps /\ Loaded.lineage \in Lineages
<1>1. CASE latest = None
  <2>1. Blank \in Lineages
    BY HiddenLawConstants DEF Blank, Lineages
  <2>2. QED
    BY <1>1, <2>1, HiddenLawConstants DEF Loaded
<1>2. CASE latest # None
  <2>1. latest \in Checkpoint
    BY <1>2 DEF DirectoryType
  <2>2. latest.step \in 1 .. Steps /\ latest.lineage \in Lineages
    BY <2>1, HiddenLawConstants DEF Checkpoint
  <2>3. QED
    BY <1>2, <2>2, HiddenLawConstants DEF Loaded
<1>3. QED
  BY <1>1, <1>2

LEMMA TypeStep == TypeOK /\ [Next]_vars => TypeOK'
<1> SUFFICES ASSUME TypeOK, [Next]_vars PROVE TypeOK'
  OBVIOUS
<1>a. RowsType /\ DirectoryType /\ ProcessType
  BY DEF TypeOK
<1> USE HiddenLawConstants, StreamAtFacts, <1>a
<1>1. CASE InitializeNew
  <2>1. RowsType'
    BY <1>1 DEF InitializeNew, RowsType
  <2>2. files' \subseteq AllFiles
    BY <1>1 DEF InitializeNew, InitWrites, AllFiles, CompletionFiles, Streams
  <2>3. DirectoryType'
    BY <1>1, <2>2 DEF InitializeNew, DirectoryType
  <2>4. ProcessType'
    BY <1>1, InterruptedType, ContinueType DEF InitializeNew
  <2>5. QED
    BY <2>1, <2>3, <2>4 DEF TypeOK
<1>2. CASE InitializeRaises
  BY <1>2 DEF InitializeRaises, vars, directory, memory, TypeOK, RowsType, DirectoryType, ProcessType
<1>3. CASE InitializeResume
  <2>1. RowsType' /\ DirectoryType'
    BY <1>3 DEF InitializeResume, directory, RowsType, DirectoryType
  <2>2. ProcessType'
    BY <1>3, ContinueType DEF InitializeResume
  <2>3. QED
    BY <2>1, <2>2 DEF TypeOK
<1>4. CASE InitializeComplete
  <2>1. RowsType' /\ DirectoryType'
    BY <1>4 DEF InitializeComplete, directory, RowsType, DirectoryType
  <2>2. ProcessType'
    BY <1>4, ContinueType DEF InitializeComplete
  <2>3. QED
    BY <2>1, <2>2 DEF TypeOK
<1>5. CASE OpenSink
  <2>1. RowsType' /\ DirectoryType'
    BY <1>5 DEF OpenSink, Repaired, RowsType, DirectoryType
  <2>2. ProcessType'
    BY <1>5, ContinueType DEF OpenSink
  <2>3. QED
    BY <2>1, <2>2 DEF TypeOK
<1>6. CASE WriteBankManifest
  <2>1. RowsType' /\ DirectoryType'
    BY <1>6 DEF WriteBankManifest, WriteManifest, RowsType, DirectoryType, AllFiles, CompletionFiles
  <2>2. ProcessType'
    BY <1>6, ContinueType DEF WriteBankManifest, WriteManifest
  <2>3. QED
    BY <2>1, <2>2 DEF TypeOK
<1>7. CASE WriteModelManifest
  <2>1. RowsType' /\ DirectoryType'
    BY <1>7 DEF WriteModelManifest, WriteManifest, RowsType, DirectoryType, AllFiles, CompletionFiles
  <2>2. ProcessType'
    BY <1>7, ContinueType DEF WriteModelManifest, WriteManifest
  <2>3. QED
    BY <2>1, <2>2 DEF TypeOK
<1>8. CASE Restore
  <2>1. RowsType'
    BY <1>8 DEF Restore, RowsType, Retained
  <2>2. DirectoryType'
    BY <1>8 DEF Restore, DirectoryType
  <2>3. Loaded.step \in 0 .. Steps /\ Loaded.lineage \in Lineages
    BY LoadedType
  <2>4. ProcessType'
    BY <1>8, <2>3, InterruptedType DEF Restore, ProcessType
  <2>5. QED
    BY <2>1, <2>2, <2>4 DEF TypeOK
<1>9. CASE Train
  <2>1. RowsType' /\ DirectoryType'
    BY <1>9 DEF Train, directory, RowsType, DirectoryType
  <2>2. ProcessType'
    BY <1>9 DEF Train, ProcessType, Remaining, Lineages, Attempts
  <2>3. QED
    BY <2>1, <2>2 DEF TypeOK
<1>10. CASE AppendRows
  <2>1. Current \in Streams
    BY <1>10 DEF AppendRows, ProcessType, Current
  <2>2. RowsType' /\ tail' \in [Streams -> {"clean", "torn", "merged"}]
    BY <1>10, <2>1, WriteType DEF AppendRows
  <2>3. files' \subseteq AllFiles
    BY <1>10, <2>1 DEF AppendRows, DirectoryType, AllFiles, CompletionFiles
  <2>4. DirectoryType'
    BY <1>10, <2>2, <2>3 DEF AppendRows, DirectoryType
  <2>5. ProcessType'
    BY <1>10 DEF AppendRows, ProcessType
  <2>6. QED
    BY <2>2, <2>4, <2>5 DEF TypeOK
<1>24. CASE AppendInterrupted
  <2>1. Current \in Streams
    BY <1>24 DEF AppendInterrupted, ProcessType, Current
  <2>2. PICK written \in SUBSET Novel(Current), end \in {"clean", "torn"} :
          Write(Current, written, end)
    BY <1>24 DEF AppendInterrupted
  <2>3. RowsType' /\ tail' \in [Streams -> {"clean", "torn", "merged"}]
    BY <1>24, <2>1, <2>2, WriteType DEF AppendInterrupted
  <2>4. files' \subseteq AllFiles
    BY <1>24, <2>1 DEF AppendInterrupted, DirectoryType, AllFiles, CompletionFiles
  <2>5. DirectoryType'
    BY <1>24, <2>3, <2>4 DEF AppendInterrupted, DirectoryType
  <2>6. ProcessType'
    BY <1>24, InterruptedType DEF AppendInterrupted
  <2>7. QED
    BY <2>3, <2>5, <2>6 DEF TypeOK
<1>11. CASE RowsWritten
  <2>1. RowsType' /\ DirectoryType'
    BY <1>11 DEF RowsWritten, RowsType, DirectoryType
  <2>2. ProcessType'
    BY <1>11 DEF RowsWritten, ProcessType, AfterRows
  <2>3. QED
    BY <2>1, <2>2 DEF TypeOK
<1>12. CASE SaveFile
  <2>1. RowsType' /\ DirectoryType'
    BY <1>12 DEF SaveFile, RowsType, DirectoryType, ProcessType
  <2>2. ProcessType'
    BY <1>12 DEF SaveFile, Continue, memory, ProcessType
  <2>3. QED
    BY <2>1, <2>2 DEF TypeOK
<1>13. CASE PointLatest
  <2>1. RowsType'
    BY <1>13 DEF PointLatest, RowsType
  <2>2. latest' \in Checkpoint
    BY <1>13 DEF PointLatest, ProcessType, Checkpoint
  <2>3. DirectoryType'
    BY <1>13, <2>2 DEF PointLatest, DirectoryType
  <2>4. ProcessType'
    BY <1>13, InterruptedType, ContinueType DEF PointLatest
  <2>5. QED
    BY <2>1, <2>3, <2>4 DEF TypeOK
<1>14. CASE WriteSummary
  <2>1. RowsType' /\ DirectoryType'
    BY <1>14 DEF WriteSummary, RowsType, DirectoryType
  <2>2. ProcessType'
    BY <1>14, ContinueType DEF WriteSummary
  <2>3. QED
    BY <2>1, <2>2 DEF TypeOK
<1>15. CASE WriteFinalStatus
  <2>1. RowsType' /\ DirectoryType'
    BY <1>15 DEF WriteFinalStatus, RowsType, DirectoryType
  <2>2. ProcessType'
    BY <1>15, ContinueType DEF WriteFinalStatus
  <2>3. QED
    BY <2>1, <2>2 DEF TypeOK
<1>16. CASE Attest
  <2>1. RowsType' /\ DirectoryType'
    BY <1>16 DEF Attest, RowsType, DirectoryType
  <2>2. ProcessType'
    BY <1>16, ContinueType DEF Attest
  <2>3. QED
    BY <2>1, <2>2 DEF TypeOK
<1>17. CASE AttestRaises
  <2>1. RowsType' /\ DirectoryType'
    BY <1>17 DEF AttestRaises, RowsType, DirectoryType
  <2>2. ProcessType'
    BY <1>17, GoneType DEF AttestRaises, ProcessType, Attempts
  <2>3. QED
    BY <2>1, <2>2 DEF TypeOK
<1>18. CASE WriteComplete
  <2>1. RowsType' /\ DirectoryType'
    BY <1>18 DEF WriteComplete, RowsType, DirectoryType, AllFiles
  <2>2. ProcessType'
    BY <1>18, ContinueType DEF WriteComplete
  <2>3. QED
    BY <2>1, <2>2 DEF TypeOK
<1>19. CASE Retire
  <2>1. RowsType'
    BY <1>19 DEF Retire, RowsType
  <2>2. saved' \in [CheckpointSteps -> Lineages \cup {None}] /\ latest' \in {latest, None}
    BY <1>19 DEF Retire, DirectoryType
  <2>3. DirectoryType'
    BY <1>19, <2>2 DEF Retire, DirectoryType
  <2>4. ProcessType'
    BY <1>19, InterruptedType, GoneType DEF Retire, ProcessType
  <2>5. QED
    BY <2>1, <2>3, <2>4 DEF TypeOK
<1>20. CASE Crash
  <2>1. RowsType' /\ DirectoryType'
    BY <1>20 DEF Crash, RowsType, DirectoryType
  <2>2. ProcessType'
    BY <1>20, InterruptedType DEF Crash
  <2>3. QED
    BY <2>1, <2>2 DEF TypeOK
<1>21. CASE Fail
  <2>1. RowsType' /\ DirectoryType'
    BY <1>21 DEF Fail, RowsType, DirectoryType
  <2>2. ProcessType'
    BY <1>21, InterruptedType DEF Fail
  <2>3. QED
    BY <2>1, <2>2 DEF TypeOK
<1>22. CASE UNCHANGED vars
  BY <1>22 DEF vars, directory, memory, TypeOK, RowsType, DirectoryType, ProcessType
<1>23. QED
  BY <1>1, <1>2, <1>3, <1>4, <1>5, <1>6, <1>7, <1>8, <1>9, <1>10, <1>11,
     <1>12, <1>13, <1>14, <1>15, <1>16, <1>17, <1>18, <1>19, <1>20, <1>21, <1>22,
     <1>24
     DEF Next, Launch, Run

\* The variables keep their types.
THEOREM TypeCorrect == Spec => []TypeOK
BY InitType, TypeStep, PTL DEF Spec

-------------------------------------------------------------------------------
(* The invariant: what the actions have in common.                         *)

\* Without a process the invariants of the process hold.
LEMMA GoneProcess ==
    ASSUME Gone
    PROVE  ProcessInv'
BY DEF Gone, ProcessInv, IdleInv, LineageInv, RowsInv, EvaluationInv, FinishInv, Live

\* A sealed directory has no process but one that retires its checkpoints.
LEMMA UnsealedProcess ==
    ASSUME SealInv, pc \notin {"down", "retire"}
    PROVE  ~Sealed
BY DEF SealInv

\* A seal and what it attests are left alone.
LEMMA SealSame ==
    ASSUME SealInv, Sealed' => Sealed,
           UNCHANGED <<rows, tail, summary, status, completion, seal>>,
           files \ {"checkpoints"} \subseteq files',
           pc' \in {"down", "retire"}
    PROVE  SealInv'
<1> SUFFICES ASSUME Sealed, Sealed' PROVE SealInv'
  BY DEF SealInv
<1>1. SealedTrajectory'
  BY DEF SealInv, SealedTrajectory, Faithful
<1>2. SealedSummaryIsDurable'
  BY DEF SealInv, SealedSummaryIsDurable, FinalSummaryRows
<1>3. "checkpoints" \notin CompletionFiles
  BY DEF CompletionFiles, Streams
<1>4. SealVerifies'
  BY <1>3 DEF SealInv, SealVerifies, Snapshot
<1>5. QED
  BY <1>1, <1>2, <1>4 DEF SealInv, UpTo

\* Rows of later steps do not matter to what is kept.
LEMMA FaithfulSame ==
    ASSUME NEW s, NEW n, NEW h, Faithful(s, n, h),
           {r \in rows'[s] : r.id.step <= n} = {r \in rows[s] : r.id.step <= n}
    PROVE  Faithful(s, n, h)'
BY DEF Faithful, Expected, Emitted

\* An action that leaves rows and checkpoints alone.
LEMMA DirectorySame ==
    ASSUME DirectoryInv, UNCHANGED <<rows, saved, latest>>, Sealed => Sealed',
           UnbrokenInv', RootInv'
    PROVE  DirectoryInv'
<1>1. CheckpointInv'
  BY DEF DirectoryInv, CheckpointInv, Faithful, UpTo
<1>2. UniqueInv'
  BY DEF DirectoryInv, UniqueInv
<1>3. QED
  BY <1>1, <1>2 DEF DirectoryInv

\* Every interruption of a process that has not touched rows or checkpoints.
LEMMA InterruptedInv ==
    ASSUME DirectoryInv, SealInv, Gone, UNCHANGED <<rows, tail, saved, latest>>,
           files' = files, ~Sealed \/ UNCHANGED <<summary, status, completion, seal>>
    PROVE  DirectoryInv' /\ ProcessInv' /\ SealInv'
<1>1. ProcessInv'
  BY GoneProcess
<1>2. Sealed' <=> Sealed
  BY DEF Sealed
<1>3. DirectoryInv'
  <2>1. UnbrokenInv' /\ RootInv'
    BY DEF Gone, DirectoryInv, UnbrokenInv, RootInv
  <2>2. QED
    BY <1>2, <2>1, DirectorySame
<1>4. SealInv'
  <2>1. CASE Sealed
    BY <2>1, <1>2, SealSame DEF Gone
  <2>2. CASE ~Sealed
    BY <2>2, <1>2 DEF SealInv
  <2>3. QED
    BY <2>1, <2>2
<1>5. QED
  BY <1>1, <1>3, <1>4

\* The latest checkpoint is one of the plan.
LEMMA LatestFacts ==
    ASSUME TypeOK, latest # None
    PROVE  /\ latest.step \in CheckpointSteps /\ latest.step \in 1 .. Steps
           /\ latest.lineage \in Lineages
<1>1. latest \in Checkpoint
  BY DEF TypeOK, DirectoryType
<1>2. QED
  BY <1>1, HiddenLawConstants DEF Checkpoint

\* Between batches everything expected of the steps so far is due.
LEMMA DueSettled ==
    ASSUME pc \notin {"train", "evaluate"}, NEW s
    PROVE  Due(s) = Expected(s, step)
BY DEF Due

\* A process between batches goes on with the same rows and the same model.
LEMMA RowsSame ==
    ASSUME RowsInv, Live, pc \notin {"train", "evaluate"},
           UNCHANGED <<rows, step, lineage>>
    PROVE  RowsInv'
<1>1. \A s \in Streams : Due(s)' \subseteq Expected(s, step)
  BY DEF Due, Expected, Emitted
<1>2. \A s \in Streams : Due(s) = Expected(s, step)
  BY DueSettled
<1>3. QED
  BY <1>1, <1>2 DEF RowsInv

\* Between batches the directory holds exactly the evidence of the model.
LEMMA RowsFaithful ==
    ASSUME TypeOK, UniqueInv, RowsInv, Live, pc \notin {"train", "evaluate"},
           NEW s \in Streams
    PROVE  Faithful(s, step, lineage)
<1>1. step \in 0 .. Steps /\ rows[s] \subseteq [id : Expected(s, Steps), by : Attempts]
  BY DEF TypeOK, ProcessType, RowsType
<1> DEFINE kept == {r \in rows[s] : r.id.step <= step}
<1>2. kept = rows[s]
  BY DEF RowsInv
<1>3. \A r \in kept : r.id \in Expected(s, step)
  <2> SUFFICES ASSUME NEW r \in kept PROVE r.id \in Expected(s, step)
    OBVIOUS
  <2>1. r.id \in Expected(s, Steps) /\ r.id.step <= step
    BY <1>1
  <2>2. QED
    BY <2>1, <1>1, ExpectedUpTo, HiddenLawConstants
<1>4. \A e \in Expected(s, step) : \E r \in kept : r.id = e
  BY <1>2, DueSettled DEF RowsInv
<1>5. {r.id : r \in kept} = Expected(s, step)
  BY <1>3, <1>4
<1>6. \A r, q \in kept : r.id = q.id => r = q
  BY DEF UniqueInv
<1>7. \A r \in kept : r.id.step > 0 => r.by = lineage[r.id.step]
  BY DEF RowsInv
<1>8. QED
  BY <1>5, <1>6, <1>7 DEF Faithful

\* The rows a batch adds are of this step and attempt and none of them is there.
LEMMA NovelFacts ==
    ASSUME TypeOK, pc \in {"train", "evaluate"}, NEW s \in Streams
    PROVE  /\ \A r \in Novel(s) :
                /\ r.id \notin Ids(s) /\ r.id.step = step /\ r.by = attempt
                /\ \A q \in Novel(s) : r.id = q.id => r = q
           /\ \A e \in Expected(s, step) :
                (e.step = step /\ e.kind = pc) =>
                  e \in Ids(s) \/ \E r \in Novel(s) : r.id = e
<1>1. \A r \in Novel(s) : /\ r.id \notin Ids(s) /\ r.id.step = step /\ r.by = attempt
                          /\ r = [id |-> r.id, by |-> attempt]
  <2> SUFFICES ASSUME NEW r \in Novel(s)
               PROVE  /\ r.id \notin Ids(s) /\ r.id.step = step /\ r.by = attempt
                      /\ r = [id |-> r.id, by |-> attempt]
    OBVIOUS
  <2>1. PICK i \in Emitted(s, pc) :
          /\ [step |-> step, kind |-> pc, index |-> i] \notin Ids(s)
          /\ r = [id |-> [step |-> step, kind |-> pc, index |-> i], by |-> attempt]
    BY DEF Novel
  <2>2. QED
    BY <2>1
<1>2. ASSUME NEW e \in Expected(s, step), e.step = step, e.kind = pc, e \notin Ids(s)
      PROVE  \E r \in Novel(s) : r.id = e
  <2>1. e = [step |-> step, kind |-> pc, index |-> e.index] /\ e.index \in Emitted(s, pc)
    BY <1>2, ExpectedShape DEF TypeOK, ProcessType
  <2>2. [id |-> e, by |-> attempt] \in Novel(s)
    BY <1>2, <2>1 DEF Novel
  <2>3. QED
    BY <2>2
<1>3. QED
  BY <1>1, <1>2

\* A batch, or the part of it that an interruption leaves, keeps the directory
\* sound: it adds only rows of a step after the latest checkpoint.
LEMMA WriteDirectory ==
    ASSUME TypeOK, DirectoryInv, IdleInv, LineageInv, Live, pc \in {"train", "evaluate"},
           NEW s \in Streams, NEW written \in SUBSET Novel(s),
           NEW end \in {"clean", "torn"}, Write(s, written, end),
           UNCHANGED <<saved, latest>>, Sealed => Sealed', RootInv'
    PROVE  DirectoryInv'
<1>1. \A z \in Streams : tail[z] = "clean"
  BY DEF IdleInv
<1>2. rows'[s] = rows[s] \cup written /\ \A z \in Streams \ {s} : rows'[z] = rows[z]
  BY DEF TypeOK, RowsType, Write
<1>3. UnbrokenInv'
  BY <1>1 DEF UnbrokenInv, Write, TypeOK, DirectoryType
<1>4. UniqueInv'
  BY <1>2, NovelFacts DEF UniqueInv, DirectoryInv, Ids
<1>5. CheckpointInv'
  <2> SUFFICES ASSUME ~Sealed, latest # None
               PROVE  /\ saved[latest.step] = latest.lineage
                      /\ UpTo(latest.lineage, latest.step)
                      /\ \A z \in Streams : Faithful(z, latest.step, latest.lineage)'
    BY DEF CheckpointInv, UpTo, Faithful, Expected, Emitted
  <2>1. latest.step < step
    BY DEF LineageInv
  <2>2. latest.step \in 1 .. Steps /\ step \in 0 .. Steps
    BY LatestFacts DEF TypeOK, ProcessType
  <2>3. \A r \in written : ~(r.id.step <= latest.step)
    <3>1. \A r \in written : r.id.step = step
      BY NovelFacts
    <3>2. QED
      BY <2>1, <2>2, <3>1, HiddenLawConstants
  <2>4. \A z \in Streams : {r \in rows'[z] : r.id.step <= latest.step}
                             = {r \in rows[z] : r.id.step <= latest.step}
    BY <1>2, <2>3
  <2>5. QED
    BY <2>4, FaithfulSame DEF DirectoryInv, CheckpointInv
<1>6. QED
  BY <1>3, <1>4, <1>5 DEF DirectoryInv

-------------------------------------------------------------------------------
(* The invariant: the actions of a process with a model.                   *)

\* What a resumed process finds: the loaded trajectory ends at the loaded step.
LEMMA LoadedTrajectory ==
    ASSUME TypeOK, CheckpointInv, ~Sealed
    PROVE  UpTo(Loaded.lineage, Loaded.step)
<1>1. CASE latest = None
  BY <1>1, HiddenLawConstants DEF Loaded, UpTo, Blank
<1>2. CASE latest # None
  BY <1>2 DEF Loaded, CheckpointInv
<1>3. QED
  BY <1>1, <1>2

\* After the truncation the rows are those of the loaded trajectory.
LEMMA RetainedRows ==
    ASSUME TypeOK, CheckpointInv, ~Sealed, NEW s \in Streams
    PROVE  /\ \A r \in Retained(s) :
                /\ r.id.step <= Loaded.step
                /\ r.id.step > 0 => r.by = Loaded.lineage[r.id.step]
           /\ \A e \in Expected(s, Loaded.step) :
                latest # None => \E r \in Retained(s) : r.id = e
<1>1. CASE latest = None
  <2> SUFFICES ASSUME NEW r \in Retained(s)
               PROVE  r.id.step <= Loaded.step /\ ~(r.id.step > 0)
    BY <1>1
  <2>1. r.id \in Expected(s, Steps) /\ r.id.step <= 0
    BY <1>1 DEF Retained, Loaded, TypeOK, RowsType
  <2>2. r.id.step \in 0 .. Steps
    BY <2>1, ExpectedShape, HiddenLawConstants
  <2>3. QED
    BY <2>1, <2>2, <1>1, HiddenLawConstants DEF Loaded
<1>2. CASE latest # None
  <2>1. Faithful(s, latest.step, latest.lineage) /\ Loaded = latest
    BY <1>2 DEF CheckpointInv, Loaded
  <2>2. Retained(s) = {r \in rows[s] : r.id.step <= latest.step}
    BY <2>1 DEF Retained
  <2>3. QED
    BY <2>1, <2>2 DEF Faithful
<1>3. QED
  BY <1>1, <1>2

LEMMA RestoreInv ==
    ASSUME IInv, Restore
    PROVE  DirectoryInv' /\ ProcessInv' /\ SealInv'
<1> USE DEF IInv
<1>1. ~Sealed /\ Sealed' = Sealed
  BY UnsealedProcess DEF Restore, Sealed
<1>2. PICK k \in 0 .. Len(StreamAt) :
        /\ rows' = [s \in Streams |->
             IF \E i \in 1 .. k : StreamAt[i] = s THEN Retained(s) ELSE rows[s]]
        /\ \/ Interrupted
           \/ /\ k = Len(StreamAt)
              /\ step' = Loaded.step
              /\ lineage' = Loaded.lineage
              /\ pc' = IF Loaded.step = 0 /\ 0 \in EvaluationSteps
                       THEN "evaluate" ELSE "loop"
              /\ UNCHANGED <<cursor, latestEvaluation, attempt>>
  BY DEF Restore
<1>3. \A s \in Streams : rows'[s] = Retained(s) \/ rows'[s] = rows[s]
  BY <1>2
<1>4. DirectoryInv'
  <2>1. UniqueInv'
    BY <1>3 DEF DirectoryInv, UniqueInv, Retained
  <2>2. UnbrokenInv' /\ RootInv'
    BY DEF DirectoryInv, UnbrokenInv, RootInv, Restore
  <2>3. CheckpointInv'
    <3> SUFFICES ASSUME latest # None
                 PROVE  /\ saved[latest.step] = latest.lineage
                        /\ UpTo(latest.lineage, latest.step)
                        /\ \A s \in Streams : Faithful(s, latest.step, latest.lineage)'
      BY DEF CheckpointInv, UpTo, Faithful, Expected, Emitted, Restore
    <3>1. \A s \in Streams : {r \in rows'[s] : r.id.step <= latest.step}
                               = {r \in rows[s] : r.id.step <= latest.step}
      BY <1>3 DEF Retained, Loaded
    <3>2. latest' = latest
      BY DEF Restore
    <3>3. QED
      BY <1>1, <3>1, <3>2, FaithfulSame DEF DirectoryInv, CheckpointInv
  <2>4. QED
    BY <2>1, <2>2, <2>3 DEF DirectoryInv
<1>5. ProcessInv'
  <2>1. CASE Interrupted
    BY <2>1, GoneProcess DEF Interrupted
  <2>2. CASE ~Interrupted
    <3>1. /\ step' = Loaded.step /\ lineage' = Loaded.lineage
          /\ pc' = IF Loaded.step = 0 /\ 0 \in EvaluationSteps THEN "evaluate" ELSE "loop"
          /\ UNCHANGED <<cursor, latestEvaluation, attempt>>
          /\ \A s \in Streams : rows'[s] = Retained(s)
      BY <1>2, <2>2, StreamAtFacts
    <3>2. cursor = 1 /\ latestEvaluation = None
      BY DEF Restore, ProcessInv, IdleInv, Live
    <3>3. IdleInv'
      BY <3>1, <3>2 DEF Restore, ProcessInv, IdleInv, Live
    <3>4. LineageInv'
      <4>1. UpTo(lineage, step)'
        BY <1>1, <3>1, LoadedTrajectory DEF UpTo, DirectoryInv
      <4>2. (pc' \in {"train", "evaluate"}) => step' = 0
        BY <3>1
      <4>3. latest # None => Loaded = latest /\ latest.step \in 1 .. Steps /\ pc' = "loop"
        BY <3>1, LatestFacts DEF Loaded
      <4>4. latest # None => (latest.step <= step' /\ pc' = "loop"
                               /\ \A i \in 1 .. latest.step : lineage'[i] = latest.lineage[i])
        BY <3>1, <4>3, HiddenLawConstants
      <4>5. pc' # "point"
        BY <3>1
      <4>6. latest' = latest
        BY DEF Restore
      <4>7. QED
        BY <4>1, <4>2, <4>4, <4>5, <4>6 DEF LineageInv
    <3>5. RowsInv'
      <4>1. \A s \in Streams : \A r \in rows'[s] :
              r.id.step <= step' /\ (r.id.step > 0 => r.by = lineage'[r.id.step])
        BY <1>1, <3>1, RetainedRows DEF DirectoryInv
      <4>2. \A s \in Streams : \A e \in Due(s)' : \E r \in rows'[s] : r.id = e
        <5> SUFFICES ASSUME NEW s \in Streams, NEW e \in Due(s)'
                     PROVE  \E r \in rows'[s] : r.id = e
          OBVIOUS
        <5>1. e \in Expected(s, Loaded.step)
          BY <3>1 DEF Due, Expected, Emitted
        <5>2. latest # None
          <6> SUFFICES ASSUME latest = None PROVE FALSE
            OBVIOUS
          <6>1. Loaded.step = 0
            BY DEF Loaded
          <6>2. e.step = 0 /\ e.kind = "evaluate" /\ 0 \in EvaluationSteps
            BY <5>1, <6>1, ExpectedShape, HiddenLawConstants
          <6>3. pc' = "evaluate" /\ cursor' = 1
            BY <3>1, <3>2, <6>1, <6>2
          <6>4. QED
            BY <3>1, <6>1, <6>2, <6>3 DEF Due, Appended
        <5>3. QED
          BY <1>1, <3>1, <5>1, <5>2, RetainedRows DEF DirectoryInv
      <4>3. QED
        BY <4>1, <4>2 DEF RowsInv
    <3>6. EvaluationInv' /\ FinishInv'
      BY <3>1, <3>2 DEF EvaluationInv, FinishInv
    <3>7. QED
      BY <3>3, <3>4, <3>5, <3>6 DEF ProcessInv
  <2>3. QED
    BY <2>1, <2>2
<1>6. QED
  BY <1>1, <1>4, <1>5 DEF SealInv

LEMMA TrainInv ==
    ASSUME IInv, Train
    PROVE  DirectoryInv' /\ ProcessInv' /\ SealInv'
<1> USE DEF IInv
<1>1. ~Sealed /\ Sealed' = Sealed
  BY UnsealedProcess DEF Train, Sealed, directory
<1>2. DirectoryInv'
  <2>1. UnbrokenInv' /\ RootInv'
    BY DEF DirectoryInv, UnbrokenInv, RootInv, Train, directory
  <2>2. QED
    BY <1>1, <2>1, DirectorySame DEF Train, directory
<1>3. /\ Live /\ pc = "loop" /\ cursor = 1 /\ step \in 0 .. Steps /\ step < Steps
      /\ lineage \in [1 .. Steps -> 0 .. MaxInterruptions + 1]
      /\ attempt \in 1 .. MaxInterruptions + 1
  BY DEF Train, Live, ProcessInv, IdleInv, TypeOK, ProcessType, Remaining, Lineages, Attempts
<1>4. /\ step' = step + 1 /\ lineage'[step + 1] = attempt
      /\ \A i \in 1 .. Steps : i # step + 1 => lineage'[i] = lineage[i]
      /\ pc' = "train" /\ cursor' = 1 /\ attempt' = attempt
      /\ latest' = latest /\ rows' = rows /\ latestEvaluation' = latestEvaluation
  BY <1>3, HiddenLawConstants DEF Train, directory
<1>5. IdleInv'
  BY <1>3, <1>4 DEF ProcessInv, IdleInv, Train, directory, Live
<1>6. LineageInv'
  <2>1. UpTo(lineage, step)'
    <3>1. \A i \in 1 .. Steps : lineage[i] > 0 <=> i <= step
      BY <1>3 DEF ProcessInv, LineageInv, UpTo
    <3>2. QED
      BY <1>3, <1>4, <3>1, HiddenLawConstants DEF UpTo
  <2>2. latest # None =>
          /\ latest.step < step + 1
          /\ \A i \in 1 .. latest.step : lineage'[i] = latest.lineage[i]
    <3> SUFFICES ASSUME latest # None
                 PROVE  /\ latest.step < step + 1
                        /\ \A i \in 1 .. latest.step : lineage'[i] = latest.lineage[i]
      OBVIOUS
    <3>1. /\ latest.step <= step /\ latest.step \in 1 .. Steps
          /\ \A i \in 1 .. latest.step : lineage[i] = latest.lineage[i]
      BY <1>3, LatestFacts DEF ProcessInv, LineageInv
    <3>2. QED
      BY <1>3, <1>4, <3>1, HiddenLawConstants
  <2>3. latest # None => latest.step <= step + 1
    BY <2>2, <1>3, LatestFacts, HiddenLawConstants
  <2>4. QED
    BY <1>4, <2>1, <2>2, <2>3 DEF LineageInv
<1>7. RowsInv'
  <2>1. ASSUME NEW s \in Streams, NEW r \in rows[s]
        PROVE  r.id.step <= step' /\ (r.id.step > 0 => r.by = lineage'[r.id.step])
    <3>1. r.id.step <= step /\ (r.id.step > 0 => r.by = lineage[r.id.step])
      BY <1>3 DEF ProcessInv, RowsInv
    <3>2. r.id \in Expected(s, Steps)
      BY DEF TypeOK, RowsType
    <3>3. r.id.step \in 0 .. Steps
      BY <3>2, ExpectedShape, HiddenLawConstants
    <3>4. QED
      BY <1>3, <1>4, <3>1, <3>3, HiddenLawConstants
  <2>2. ASSUME NEW s \in Streams, NEW e \in Due(s)'
        PROVE  \E r \in rows[s] : r.id = e
    <3>1. e \in Expected(s, step + 1) /\ e.step < step + 1
      BY <1>3, <1>4 DEF Due, Appended, Expected, Emitted
    <3>2. e \in Expected(s, step)
      <4>1. e.step \in 0 .. step + 1
        BY <1>3, <3>1, ExpectedShape, HiddenLawConstants
      <4>2. e.step <= step
        BY <4>1, <3>1, <1>3
      <4>3. QED
        BY <1>3, <3>1, <4>2, ExpectedUpTo, HiddenLawConstants
    <3>3. QED
      BY <1>3, <3>2, DueSettled DEF ProcessInv, RowsInv
  <2>3. QED
    BY <1>4, <2>1, <2>2 DEF RowsInv
<1>8. EvaluationInv'
  <2> SUFFICES ASSUME latestEvaluation # None
               PROVE  /\ latestEvaluation \in [step : EvaluationSteps, by : Attempts]
                      /\ latestEvaluation.step <= step + 1
                      /\ latestEvaluation.step > 0 =>
                           lineage'[latestEvaluation.step] = latestEvaluation.by
    BY <1>4 DEF EvaluationInv, Attempts
  <2>1. /\ latestEvaluation \in [step : EvaluationSteps, by : Attempts]
        /\ latestEvaluation.step <= step
        /\ latestEvaluation.step > 0 => lineage[latestEvaluation.step] = latestEvaluation.by
    BY <1>3 DEF ProcessInv, EvaluationInv
  <2>2. latestEvaluation.step \in 0 .. Steps
    BY <2>1, HiddenLawConstants
  <2>3. QED
    BY <1>3, <1>4, <2>1, <2>2, HiddenLawConstants
<1>9. QED
  BY <1>1, <1>2, <1>4, <1>5, <1>6, <1>7, <1>8 DEF ProcessInv, FinishInv, SealInv

LEMMA AppendInv ==
    ASSUME IInv, AppendRows
    PROVE  DirectoryInv' /\ ProcessInv' /\ SealInv'
<1> USE DEF IInv
<1>1. /\ Live /\ pc \in {"train", "evaluate"} /\ cursor \in 1 .. 3
      /\ Current \in Streams /\ Current = StreamAt[cursor]
      /\ step \in 0 .. Steps
  BY StreamAtFacts DEF AppendRows, Live, TypeOK, ProcessType, Current
<1>2. /\ Write(Current, Novel(Current), "clean") /\ cursor' = cursor + 1
      /\ UNCHANGED <<saved, latest, pc, step, lineage, latestEvaluation, attempt>>
  BY DEF AppendRows
<1>3. ~Sealed /\ ~Sealed'
  <2>1. Current # "COMPLETE"
    BY <1>1 DEF Streams
  <2>2. QED
    BY <1>1, <2>1, UnsealedProcess DEF AppendRows, Sealed
<1>4. RootInv'
  BY DEF DirectoryInv, RootInv, AppendRows
<1>5. DirectoryInv'
  BY <1>1, <1>2, <1>3, <1>4, WriteDirectory DEF ProcessInv
<1>6. /\ rows'[Current] = rows[Current] \cup Novel(Current)
      /\ \A s \in Streams \ {Current} : rows'[s] = rows[s]
  BY <1>1, <1>2 DEF TypeOK, RowsType, Write
<1>7. IdleInv'
  BY <1>1, <1>2 DEF ProcessInv, IdleInv, Write, Live, TypeOK, DirectoryType
<1>8. LineageInv'
  BY <1>1, <1>2 DEF ProcessInv, LineageInv, Live, UpTo
<1>9. RowsInv'
  <2>1. ASSUME NEW s \in Streams, NEW r \in rows'[s]
        PROVE  r.id.step <= step /\ (r.id.step > 0 => r.by = lineage[r.id.step])
    <3>1. CASE r \in rows[s]
      BY <1>1, <3>1 DEF ProcessInv, RowsInv
    <3>2. CASE r \notin rows[s]
      <4>1. r.id.step = step /\ r.by = attempt
        BY <1>1, <1>6, <3>2, NovelFacts
      <4>2. step > 0 => lineage[step] = attempt
        BY <1>1 DEF ProcessInv, LineageInv
      <4>3. QED
        BY <1>1, <4>1, <4>2, HiddenLawConstants
    <3>3. QED
      BY <3>1, <3>2
  <2>2. ASSUME NEW s \in Streams, NEW e \in Due(s)'
        PROVE  \E r \in rows'[s] : r.id = e
    <3>1. e \in Expected(s, step)
      BY <1>2 DEF Due, Expected, Emitted
    <3>2. CASE e \in Due(s)
      <4>1. \E r \in rows[s] : r.id = e
        BY <1>1, <3>2 DEF ProcessInv, RowsInv
      <4>2. QED
        BY <1>6, <4>1
    <3>3. CASE e \notin Due(s)
      <4>1. e.kind = pc /\ ~(e.step < step) /\ Appended(s)' /\ ~Appended(s)
        BY <1>1, <1>2, <3>1, <3>3 DEF Due
      <4>2. e.step = step
        BY <1>1, <3>1, <4>1, ExpectedShape, HiddenLawConstants
      <4>3. s = Current
        BY <1>1, <1>2, <4>1 DEF Appended
      <4>4. e \in Ids(s) \/ \E r \in Novel(s) : r.id = e
        BY <1>1, <3>1, <4>1, <4>2, NovelFacts
      <4>5. QED
        BY <1>6, <4>3, <4>4 DEF Ids
    <3>4. QED
      BY <3>2, <3>3
  <2>3. QED
    BY <1>2, <2>1, <2>2 DEF RowsInv
<1>10. EvaluationInv'
  BY <1>1, <1>2 DEF ProcessInv, EvaluationInv, Live
<1>11. QED
  BY <1>1, <1>2, <1>3, <1>5, <1>7, <1>8, <1>9, <1>10 DEF ProcessInv, FinishInv, SealInv

LEMMA AppendInterruptedInv ==
    ASSUME IInv, AppendInterrupted
    PROVE  DirectoryInv' /\ ProcessInv' /\ SealInv'
<1> USE DEF IInv
<1>1. Live /\ pc \in {"train", "evaluate"} /\ Current \in Streams
  BY StreamAtFacts DEF AppendInterrupted, Live, TypeOK, ProcessType, Current
<1>2. PICK written \in SUBSET Novel(Current), end \in {"clean", "torn"} :
        Write(Current, written, end)
  BY DEF AppendInterrupted
<1>3. ~Sealed /\ ~Sealed'
  <2>1. Current # "COMPLETE"
    BY <1>1 DEF Streams
  <2>2. QED
    BY <1>1, <2>1, UnsealedProcess DEF AppendInterrupted, Sealed
<1>4. RootInv'
  BY <1>1 DEF DirectoryInv, RootInv, AppendInterrupted
<1>5. UNCHANGED <<saved, latest>>
  BY DEF AppendInterrupted
<1>6. DirectoryInv'
  BY <1>1, <1>2, <1>3, <1>4, <1>5, WriteDirectory DEF ProcessInv
<1>7. ProcessInv'
  BY GoneProcess DEF AppendInterrupted, Interrupted
<1>8. QED
  BY <1>3, <1>6, <1>7 DEF SealInv

LEMMA RowsWrittenInv ==
    ASSUME IInv, RowsWritten
    PROVE  DirectoryInv' /\ ProcessInv' /\ SealInv'
<1> USE DEF IInv
<1>1. /\ Live /\ pc \in {"train", "evaluate"} /\ cursor = 4 /\ step \in 0 .. Steps
      /\ pc = "evaluate" => step \in EvaluationSteps
      /\ \A s \in Streams : Appended(s)
  <2>1. \A s \in Streams : \E i \in 1 .. 3 : StreamAt[i] = s
    BY StreamAtFacts
  <2>2. cursor = 4
    BY StreamAtFacts DEF RowsWritten
  <2>3. QED
    BY <2>1, <2>2 DEF RowsWritten, Live, TypeOK, ProcessType, Appended
<1>2. /\ cursor' = 1 /\ latestEvaluation' = Evaluation /\ pc' = AfterRows
      /\ UNCHANGED <<files, rows, tail, saved, latest, summary, step, lineage, attempt>>
      /\ Live' /\ pc' \in {"evaluate", "save", "loop"}
      /\ pc' = "evaluate" <=> pc = "train" /\ step \in EvaluationSteps
  BY <1>1 DEF RowsWritten, AfterRows, Live
<1>3. ~Sealed /\ ~Sealed'
  BY <1>1, <1>2, UnsealedProcess DEF Sealed
<1>4. DirectoryInv'
  <2>1. UnbrokenInv' /\ RootInv'
    BY <1>1, <1>2 DEF DirectoryInv, UnbrokenInv, RootInv
  <2>2. QED
    BY <1>2, <1>3, <2>1, DirectorySame
<1>5. IdleInv'
  BY <1>1, <1>2 DEF ProcessInv, IdleInv
<1>6. LineageInv'
  BY <1>1, <1>2 DEF ProcessInv, LineageInv, UpTo
<1>7. RowsInv'
  <2>1. ASSUME NEW s \in Streams, NEW e \in Due(s)'
        PROVE  e \in Due(s)
    <3>1. e \in Expected(s, step)
      BY <1>2 DEF Due, Expected, Emitted
    <3>2. e.kind \in {"train", "evaluate"} /\ e.step \in 0 .. step
          /\ (e.kind = "evaluate" => e.step \in EvaluationSteps)
      BY <1>1, <3>1, ExpectedShape, HiddenLawConstants
    <3>3. CASE e.step < step
      BY <3>1, <3>3 DEF Due
    <3>4. CASE e.step = step
      <4>1. CASE e.kind = "train"
        BY <1>1, <3>1, <4>1 DEF Due
      <4>2. CASE e.kind = "evaluate"
        <5>1. pc = "evaluate"
          <6> SUFFICES ASSUME pc = "train" PROVE FALSE
            BY <1>1
          <6>1. pc' = "evaluate" /\ ~Appended(s)'
            BY <1>2, <3>2, <3>4, <4>2 DEF Appended
          <6>2. QED
            <7>1. step' = step /\ ~(step < step)
              BY <1>1, <1>2
            <7>2. QED
              BY <3>4, <4>2, <6>1, <7>1 DEF Due
        <5>2. QED
          BY <1>1, <3>1, <4>2, <5>1 DEF Due
      <4>3. QED
        BY <3>2, <4>1, <4>2
    <3>5. QED
      BY <1>1, <3>2, <3>3, <3>4
  <2>2. QED
    BY <1>1, <1>2, <2>1 DEF ProcessInv, RowsInv
<1>8. EvaluationInv'
  <2>1. CASE pc = "evaluate"
    <3>1. latestEvaluation' = [step |-> step, by |-> attempt]
      BY <1>2, <2>1 DEF Evaluation
    <3>2. step > 0 => lineage[step] = attempt
      BY <1>1 DEF ProcessInv, LineageInv
    <3>3. step \in EvaluationSteps /\ attempt \in Attempts
      BY <1>1, <2>1 DEF TypeOK, ProcessType
    <3>4. QED
      BY <1>1, <1>2, <3>1, <3>2, <3>3 DEF EvaluationInv
  <2>2. CASE pc = "train"
    <3>1. latestEvaluation' = latestEvaluation
      BY <1>2, <2>2 DEF Evaluation
    <3>2. QED
      BY <1>1, <1>2, <2>2, <3>1 DEF ProcessInv, EvaluationInv
  <2>3. QED
    BY <1>1, <2>1, <2>2
<1>9. QED
  BY <1>2, <1>3, <1>4, <1>5, <1>6, <1>7, <1>8 DEF ProcessInv, FinishInv, SealInv

LEMMA SaveFileInv ==
    ASSUME IInv, SaveFile
    PROVE  DirectoryInv' /\ ProcessInv' /\ SealInv'
<1> USE DEF IInv
<1>1. /\ Live /\ pc = "save" /\ step \in CheckpointSteps
      /\ saved' = [saved EXCEPT ![step] = lineage]
      /\ saved \in [CheckpointSteps -> Lineages \cup {None}]
      /\ pc' = "point" /\ Live'
      /\ UNCHANGED <<files, rows, tail, latest, summary, step, lineage, cursor,
                     latestEvaluation, attempt>>
  BY DEF SaveFile, Live, Continue, memory, TypeOK, ProcessType, DirectoryType
<1>2. ~Sealed /\ ~Sealed'
  BY <1>1, UnsealedProcess DEF Sealed
<1>3. DirectoryInv'
  <2>1. CheckpointInv'
    <3>1. latest # None => latest.step \in CheckpointSteps /\ latest.step # step
      BY <1>1, LatestFacts, HiddenLawConstants DEF ProcessInv, LineageInv
    <3>2. latest # None => saved'[latest.step] = saved[latest.step]
      BY <1>1, <3>1
    <3>3. QED
      BY <1>1, <1>2, <3>2 DEF DirectoryInv, CheckpointInv, UpTo, Faithful, Expected, Emitted
  <2>2. QED
    BY <1>1, <2>1 DEF DirectoryInv, UniqueInv, UnbrokenInv, RootInv
<1>4. IdleInv'
  BY <1>1 DEF ProcessInv, IdleInv
<1>5. LineageInv'
  <2>1. saved'[step] = lineage
    BY <1>1
  <2>2. QED
    BY <1>1, <2>1 DEF ProcessInv, LineageInv, UpTo
<1>6. RowsInv'
  BY <1>1, RowsSame DEF ProcessInv
<1>7. EvaluationInv' /\ FinishInv'
  BY <1>1 DEF ProcessInv, EvaluationInv, FinishInv
<1>8. QED
  BY <1>2, <1>3, <1>4, <1>5, <1>6, <1>7 DEF ProcessInv, SealInv

LEMMA PointLatestInv ==
    ASSUME IInv, PointLatest
    PROVE  DirectoryInv' /\ ProcessInv' /\ SealInv'
<1> USE DEF IInv
<1>1. /\ Live /\ pc = "point" /\ step \in CheckpointSteps /\ saved[step] = lineage
      /\ latest' = [step |-> step, lineage |-> lineage]
      /\ UNCHANGED <<files, rows, tail>>
  BY DEF PointLatest, Live, ProcessInv, LineageInv, TypeOK, ProcessType
<1>2. ~Sealed /\ ~Sealed'
  BY <1>1, UnsealedProcess DEF Sealed
<1>3. saved'[step] = lineage
  BY <1>1 DEF PointLatest
<1>4. DirectoryInv'
  <2>1. \A s \in Streams : Faithful(s, step, lineage)
    BY <1>1, RowsFaithful DEF DirectoryInv, ProcessInv
  <2>2. \A s \in Streams : Faithful(s, latest.step, latest.lineage)'
    BY <1>1, <2>1 DEF Faithful, Expected, Emitted
  <2>3. UpTo(lineage, step)
    BY <1>1 DEF ProcessInv, LineageInv
  <2>4. CheckpointInv'
    BY <1>1, <1>3, <2>2, <2>3 DEF CheckpointInv, UpTo
  <2>5. RootInv'
    BY <1>1 DEF DirectoryInv, RootInv, PointLatest, Interrupted, Gone, Continue
  <2>6. QED
    BY <1>1, <2>4, <2>5 DEF DirectoryInv, UniqueInv, UnbrokenInv
<1>5. ProcessInv'
  <2>1. CASE Interrupted
    BY <2>1, GoneProcess DEF Interrupted
  <2>2. CASE Continue("loop")
    <3>1. pc' = "loop" /\ Live'
          /\ UNCHANGED <<step, lineage, cursor, latestEvaluation, attempt>>
      BY <2>2 DEF Continue, memory, Live
    <3>2. IdleInv'
      BY <1>1, <3>1 DEF ProcessInv, IdleInv
    <3>3. LineageInv'
      <4>1. step \in 0 .. Steps
        BY DEF TypeOK, ProcessType
      <4>2. QED
        BY <1>1, <3>1, <4>1, HiddenLawConstants DEF ProcessInv, LineageInv, UpTo
    <3>4. RowsInv'
      BY <1>1, <3>1, RowsSame DEF ProcessInv
    <3>5. EvaluationInv' /\ FinishInv'
      BY <1>1, <3>1 DEF ProcessInv, EvaluationInv, FinishInv
    <3>6. QED
      BY <3>2, <3>3, <3>4, <3>5 DEF ProcessInv
  <2>3. QED
    BY <2>1, <2>2 DEF PointLatest
<1>6. QED
  BY <1>2, <1>4, <1>5 DEF SealInv

-------------------------------------------------------------------------------
(* The invariant: the end of the run.                                      *)

\* The last step's evaluation is durable when the loop is over.
LEMMA FinalRowDurable ==
    ASSUME TypeOK, RowsInv, Live, pc = "loop", step = Steps
    PROVE  \E r \in FinalSummaryRows : r.by = lineage[Steps]
<1> DEFINE final == [step |-> Steps, kind |-> "evaluate", index |-> EvaluationRows]
<1>1. final \in Expected("metrics", Steps) /\ "metrics" \in Streams
  <2>1. EvaluationRows \in Emitted("metrics", "evaluate") /\ "metrics" \in Streams
    BY HiddenLawConstants DEF Emitted, Streams
  <2>2. QED
    BY <2>1, EmittedExpected, HiddenLawConstants
<1>2. PICK r \in rows["metrics"] : r.id = final
  BY <1>1, DueSettled DEF RowsInv
<1>3. r.id.step = Steps /\ Steps > 0
  BY <1>2, HiddenLawConstants
<1>4. r.by = lineage[Steps]
  BY <1>1, <1>3 DEF RowsInv
<1>5. QED
  BY <1>2, <1>4 DEF FinalSummaryRows

LEMMA WriteSummaryInv ==
    ASSUME IInv, WriteSummary
    PROVE  DirectoryInv' /\ ProcessInv' /\ SealInv'
<1> USE DEF IInv
<1>1. /\ Live /\ pc = "loop" /\ pc' = "finish" /\ Live' /\ step = Steps
      /\ UNCHANGED <<files, rows, tail, saved, latest, step, lineage, cursor,
                     latestEvaluation, attempt>>
  BY HiddenLawConstants
     DEF WriteSummary, Live, Continue, memory, TypeOK, ProcessType, Remaining
<1>2. ~Sealed /\ ~Sealed'
  BY <1>1, UnsealedProcess DEF Sealed
<1>3. DirectoryInv'
  <2>1. UnbrokenInv' /\ RootInv'
    BY <1>1 DEF DirectoryInv, UnbrokenInv, RootInv
  <2>2. QED
    BY <1>1, <1>2, <2>1, DirectorySame
<1>4. IdleInv' /\ LineageInv' /\ EvaluationInv'
  BY <1>1 DEF ProcessInv, IdleInv, LineageInv, UpTo, EvaluationInv
<1>5. RowsInv'
  BY <1>1, RowsSame DEF ProcessInv
<1>6. FinishInv'
  <2>1. PICK r \in FinalSummaryRows : r.by = lineage[Steps]
    BY <1>1, FinalRowDurable DEF ProcessInv
  <2>2. summary'.lineage = lineage
    BY DEF WriteSummary
  <2>3. \E q \in FinalSummaryRows : summary'.evaluation = [step |-> Steps, by |-> q.by]
    <3>1. CASE latestEvaluation = None
      <4>1. (CHOOSE q \in FinalSummaryRows : TRUE) \in FinalSummaryRows
        BY <2>1
      <4>2. summary'.evaluation
              = [step |-> Steps, by |-> (CHOOSE q \in FinalSummaryRows : TRUE).by]
        BY <3>1 DEF WriteSummary
      <4>3. QED
        BY <4>1, <4>2
    <3>2. CASE latestEvaluation # None
      <4>1. /\ latestEvaluation \in [step : EvaluationSteps, by : Attempts]
            /\ latestEvaluation.step = Steps
            /\ latestEvaluation.step > 0 =>
                 lineage[latestEvaluation.step] = latestEvaluation.by
        BY <1>1, <3>2, HiddenLawConstants DEF ProcessInv, EvaluationInv
      <4>2. latestEvaluation = [step |-> Steps, by |-> r.by]
        BY <2>1, <4>1, HiddenLawConstants
      <4>3. summary'.evaluation = latestEvaluation
        BY <3>2 DEF WriteSummary
      <4>4. QED
        BY <4>2, <4>3
    <3>3. QED
      BY <3>1, <3>2
  <2>4. SummaryMatches'
    BY <1>1, <2>3 DEF SummaryMatches, FinalSummaryRows
  <2>5. QED
    BY <1>1, <2>2, <2>4 DEF FinishInv
<1>7. QED
  BY <1>2, <1>3, <1>4, <1>5, <1>6 DEF ProcessInv, SealInv

LEMMA WriteFinalStatusInv ==
    ASSUME IInv, WriteFinalStatus
    PROVE  DirectoryInv' /\ ProcessInv' /\ SealInv'
<1> USE DEF IInv
<1>1. /\ Live /\ pc = "finish" /\ pc' = "attest" /\ Live' /\ status' = "complete"
      /\ UNCHANGED <<files, rows, tail, saved, latest, summary, step, lineage, cursor,
                     latestEvaluation, attempt>>
  BY DEF WriteFinalStatus, Live, Continue, memory
<1>2. ~Sealed /\ ~Sealed'
  BY <1>1, UnsealedProcess DEF Sealed
<1>3. DirectoryInv'
  <2>1. UnbrokenInv' /\ RootInv'
    BY <1>1 DEF DirectoryInv, UnbrokenInv, RootInv
  <2>2. QED
    BY <1>1, <1>2, <2>1, DirectorySame
<1>4. IdleInv' /\ LineageInv' /\ EvaluationInv'
  BY <1>1 DEF ProcessInv, IdleInv, LineageInv, UpTo, EvaluationInv
<1>5. RowsInv'
  BY <1>1, RowsSame DEF ProcessInv
<1>6. FinishInv'
  BY <1>1 DEF ProcessInv, FinishInv, SummaryMatches, FinalSummaryRows
<1>7. QED
  BY <1>2, <1>3, <1>4, <1>5, <1>6 DEF ProcessInv, SealInv

LEMMA AttestInv ==
    ASSUME IInv, Attest
    PROVE  DirectoryInv' /\ ProcessInv' /\ SealInv'
<1> USE DEF IInv
<1>1. /\ Live /\ pc = "attest" /\ pc' = "seal" /\ Live'
      /\ CompletionFiles \subseteq files /\ completion' = Snapshot(summary, status)
      /\ UNCHANGED <<files, rows, tail, saved, latest, summary, status, step, lineage,
                     cursor, latestEvaluation, attempt>>
  BY DEF Attest, Live, Continue, memory
<1>2. ~Sealed /\ ~Sealed'
  BY <1>1, UnsealedProcess DEF Sealed
<1>3. DirectoryInv'
  <2>1. UnbrokenInv' /\ RootInv'
    BY <1>1 DEF DirectoryInv, UnbrokenInv, RootInv
  <2>2. QED
    BY <1>1, <1>2, <2>1, DirectorySame
<1>4. IdleInv' /\ LineageInv' /\ EvaluationInv'
  BY <1>1 DEF ProcessInv, IdleInv, LineageInv, UpTo, EvaluationInv
<1>5. RowsInv'
  BY <1>1, RowsSame DEF ProcessInv
<1>6. FinishInv'
  BY <1>1 DEF ProcessInv, FinishInv, SummaryMatches, FinalSummaryRows, Snapshot,
              CompletionFiles, Streams
<1>7. QED
  BY <1>2, <1>3, <1>4, <1>5, <1>6 DEF ProcessInv, SealInv

LEMMA WriteCompleteInv ==
    ASSUME IInv, WriteComplete
    PROVE  DirectoryInv' /\ ProcessInv' /\ SealInv'
<1> USE DEF IInv
<1>1. /\ Live /\ pc = "seal" /\ pc' = "retire" /\ ~Live'
      /\ files' = files \cup {"COMPLETE"} /\ seal' = completion
      /\ UNCHANGED <<rows, tail, saved, latest, summary, status, completion, step,
                     lineage, cursor, latestEvaluation, attempt>>
  BY DEF WriteComplete, Live, Continue, memory
<1>2. /\ step = Steps /\ summary.lineage = lineage /\ SummaryMatches
      /\ status = "complete" /\ completion = Snapshot(summary, status)
      /\ CompletionFiles \subseteq files /\ "run_dir" \in files
  BY <1>1 DEF ProcessInv, FinishInv, DirectoryInv, RootInv
<1>3. Sealed'
  BY <1>1 DEF Sealed
<1>4. DirectoryInv'
  BY <1>1, <1>2, <1>3 DEF DirectoryInv, CheckpointInv, UniqueInv, UnbrokenInv, RootInv
<1>5. ProcessInv'
  BY <1>1, <1>3 DEF ProcessInv, IdleInv, LineageInv, RowsInv, EvaluationInv, FinishInv
<1>6. SealedTrajectory'
  <2>1. \A s \in Streams : Faithful(s, Steps, summary.lineage)
    BY <1>1, <1>2, RowsFaithful DEF ProcessInv, DirectoryInv
  <2>2. \A s \in Streams : Faithful(s, Steps, summary.lineage)'
    BY <1>1, <2>1 DEF Faithful, Expected, Emitted
  <2>3. \A s \in Streams : tail[s] = "clean"
    BY <1>1 DEF ProcessInv, IdleInv
  <2>4. QED
    BY <1>1, <2>2, <2>3 DEF SealedTrajectory
<1>7. SealedSummaryIsDurable'
  BY <1>1, <1>2 DEF SealedSummaryIsDurable, SummaryMatches, FinalSummaryRows
<1>8. SealVerifies'
  BY <1>1, <1>2 DEF SealVerifies, Snapshot, CompletionFiles, Streams
<1>9. UpTo(summary.lineage, Steps)'
  BY <1>1, <1>2 DEF ProcessInv, LineageInv, UpTo
<1>10. QED
  BY <1>1, <1>2, <1>4, <1>5, <1>6, <1>7, <1>8, <1>9 DEF SealInv

LEMMA RetireInv ==
    ASSUME IInv, Retire
    PROVE  DirectoryInv' /\ ProcessInv' /\ SealInv'
<1> USE DEF IInv
<1>1. Gone /\ Sealed /\ files \ {"checkpoints"} \subseteq files' /\ files' \subseteq files
      /\ UNCHANGED <<rows, tail, summary, status, completion, seal>>
  BY DEF Retire, Interrupted, ProcessInv, IdleInv
<1>2. Sealed'
  BY <1>1 DEF Sealed
<1>3. DirectoryInv'
  BY <1>1, <1>2 DEF DirectoryInv, CheckpointInv, UniqueInv, UnbrokenInv, RootInv, Gone
<1>4. ProcessInv'
  BY <1>1, GoneProcess
<1>5. SealInv'
  BY <1>1, SealSame DEF Gone
<1>6. QED
  BY <1>3, <1>4, <1>5

-------------------------------------------------------------------------------
(* The invariant: a launch, up to the restored model.                      *)

LEMMA InitializeNewInv ==
    ASSUME IInv, InitializeNew
    PROVE  DirectoryInv' /\ ProcessInv' /\ SealInv'
<1> USE DEF IInv
<1>1. PICK k \in 1 .. Len(InitWrites) : files' = {InitWrites[i] : i \in 1 .. k}
  BY DEF InitializeNew
<1>2. "run_dir" \in files' /\ "COMPLETE" \notin files'
  BY <1>1 DEF InitWrites
<1>3. ~Sealed /\ ~Sealed'
  BY <1>2 DEF InitializeNew, SealInv, Sealed
<1>4. DirectoryInv'
  <2>1. UnbrokenInv' /\ RootInv'
    BY <1>2 DEF InitializeNew, DirectoryInv, UnbrokenInv, RootInv
  <2>2. UNCHANGED <<rows, saved, latest>>
    BY DEF InitializeNew
  <2>3. QED
    BY <1>3, <2>1, <2>2, DirectorySame
<1>5. ProcessInv'
  <2>1. CASE Interrupted
    BY <2>1, GoneProcess DEF Interrupted
  <2>2. CASE Continue("sink")
    BY <2>2 DEF InitializeNew, Continue, memory, ProcessInv, IdleInv, LineageInv,
                RowsInv, EvaluationInv, FinishInv, Live
  <2>3. QED
    BY <2>1, <2>2 DEF InitializeNew
<1>6. QED
  BY <1>3, <1>4, <1>5 DEF SealInv

\* A process between its launch and the restored model.
LEMMA PrepareInv ==
    ASSUME DirectoryInv, ProcessInv, ~Sealed, ~Sealed', ~Live, pc # "retire",
           pc \notin {"train", "evaluate"},
           NEW next \in {"sink", "bank", "model", "restore"}, Continue(next),
           UNCHANGED <<rows, saved, latest>>, RootInv', UnbrokenInv',
           next # "sink" => \A s \in Streams : tail'[s] = "clean"
    PROVE  DirectoryInv' /\ ProcessInv' /\ SealInv'
<1>1. DirectoryInv'
  BY DirectorySame
<1>2. ProcessInv'
  BY DEF Continue, memory, ProcessInv, IdleInv, LineageInv, RowsInv, EvaluationInv,
         FinishInv, Live
<1>3. QED
  BY <1>1, <1>2 DEF SealInv

LEMMA InitializeResumeInv ==
    ASSUME IInv, InitializeResume
    PROVE  DirectoryInv' /\ ProcessInv' /\ SealInv'
<1> USE DEF IInv
<1>1. /\ pc = "down" /\ ~Live /\ ~Sealed /\ ~Sealed' /\ Continue("sink")
      /\ UNCHANGED <<rows, saved, latest>>
  BY DEF InitializeResume, Sealed, directory, Live
<1>2. RootInv' /\ UnbrokenInv'
  BY DEF InitializeResume, directory, DirectoryInv, RootInv, UnbrokenInv
<1>3. QED
  BY <1>1, <1>2, PrepareInv

LEMMA InitializeCompleteInv ==
    ASSUME IInv, InitializeComplete
    PROVE  DirectoryInv' /\ ProcessInv' /\ SealInv'
<1> USE DEF IInv
<1>1. /\ pc = "down" /\ ~Live /\ Sealed /\ Sealed' /\ Continue("retire")
      /\ pc' = "retire" /\ ~Live' /\ UNCHANGED directory
  BY DEF InitializeComplete, Continue, Sealed, directory, Live
<1>2. DirectoryInv'
  BY <1>1 DEF directory, DirectoryInv, CheckpointInv, UniqueInv, UnbrokenInv, RootInv, SealInv
<1>3. ProcessInv'
  BY <1>1 DEF Continue, memory, ProcessInv, IdleInv, LineageInv, RowsInv,
              EvaluationInv, FinishInv
<1>4. SealInv'
  BY <1>1, SealSame DEF directory
<1>5. QED
  BY <1>2, <1>3, <1>4

LEMMA OpenSinkInv ==
    ASSUME IInv, OpenSink
    PROVE  DirectoryInv' /\ ProcessInv' /\ SealInv'
<1> USE DEF IInv
<1>1. /\ pc = "sink" /\ ~Live /\ ~Sealed /\ ~Sealed' /\ Continue("bank")
      /\ UNCHANGED <<rows, saved, latest>>
      /\ \A s \in Streams : tail'[s] = "clean"
  BY UnsealedProcess DEF OpenSink, Sealed, Live, Repaired
<1>2. RootInv' /\ UnbrokenInv'
  BY <1>1 DEF OpenSink, DirectoryInv, RootInv, UnbrokenInv
<1>3. QED
  BY <1>1, <1>2, PrepareInv

LEMMA WriteManifestInv ==
    ASSUME IInv, WriteBankManifest \/ WriteModelManifest
    PROVE  DirectoryInv' /\ ProcessInv' /\ SealInv'
<1> USE DEF IInv
<1>1. PICK next \in {"model", "restore"} :
        /\ Continue(next)
        /\ UNCHANGED <<rows, tail, saved, latest>>
        /\ pc \in {"bank", "model"} /\ ~Live
        /\ "COMPLETE" \in files' => "COMPLETE" \in files
        /\ files \subseteq files'
  BY DEF WriteBankManifest, WriteModelManifest, WriteManifest, Live
<1>2. ~Sealed /\ ~Sealed'
  BY <1>1, UnsealedProcess DEF Sealed
<1>3. \A s \in Streams : tail'[s] = "clean"
  BY <1>1 DEF ProcessInv, IdleInv
<1>4. RootInv' /\ UnbrokenInv'
  BY <1>1 DEF DirectoryInv, RootInv, UnbrokenInv
<1>5. QED
  BY <1>1, <1>2, <1>3, <1>4, PrepareInv

-------------------------------------------------------------------------------
(* The invariant holds, and with it the safety properties.                 *)

LEMMA InvInit == Init => IInv
<1> SUFFICES ASSUME Init PROVE IInv
  OBVIOUS
<1>1. TypeOK
  BY InitType
<1>2. DirectoryInv
  BY DEF Init, DirectoryInv, CheckpointInv, UniqueInv, UnbrokenInv, RootInv
<1>3. ProcessInv
  BY DEF Init, ProcessInv, IdleInv, LineageInv, RowsInv, EvaluationInv, FinishInv, Live
<1>4. SealInv
  BY DEF Init, SealInv, Sealed
<1>5. QED
  BY <1>1, <1>2, <1>3, <1>4 DEF IInv

LEMMA StutterInv ==
    ASSUME IInv, UNCHANGED vars
    PROVE  DirectoryInv' /\ ProcessInv' /\ SealInv'
<1> USE DEF IInv, vars, directory, memory
<1>1. DirectoryInv'
  BY DEF DirectoryInv, CheckpointInv, UniqueInv, UnbrokenInv, RootInv, Faithful,
         Expected, Emitted, UpTo, Sealed
<1>2. IdleInv' /\ LineageInv' /\ RowsInv' /\ EvaluationInv'
  <2>1. IdleInv' /\ LineageInv' /\ EvaluationInv'
    BY DEF ProcessInv, IdleInv, LineageInv, EvaluationInv, Live, UpTo, Sealed
  <2>2. \A s \in Streams : Due(s)' = Due(s)
    BY DEF Due, Appended, Expected, Emitted
  <2>3. RowsInv'
    BY <2>2 DEF ProcessInv, RowsInv, Live
  <2>4. QED
    BY <2>1, <2>3
<1>3. FinishInv'
  BY DEF ProcessInv, FinishInv, SummaryMatches, FinalSummaryRows, Snapshot
<1>4. SealInv'
  BY DEF SealInv, SealedTrajectory, SealedSummaryIsDurable, SealVerifies, Faithful,
         Expected, Emitted, FinalSummaryRows, Snapshot, Sealed, UpTo
<1>5. QED
  BY <1>1, <1>2, <1>3, <1>4 DEF ProcessInv

LEMMA InvStep == IInv /\ [Next]_vars => IInv'
<1> SUFFICES ASSUME IInv, [Next]_vars PROVE IInv'
  OBVIOUS
<1>1. TypeOK'
  BY TypeStep DEF IInv
<1>2. CASE InitializeNew
  BY <1>1, <1>2, InitializeNewInv DEF IInv
<1>3. CASE InitializeRaises
  BY <1>1, <1>3, StutterInv DEF IInv, InitializeRaises
<1>4. CASE InitializeResume
  BY <1>1, <1>4, InitializeResumeInv DEF IInv
<1>5. CASE InitializeComplete
  BY <1>1, <1>5, InitializeCompleteInv DEF IInv
<1>6. CASE OpenSink
  BY <1>1, <1>6, OpenSinkInv DEF IInv
<1>7. CASE WriteBankManifest \/ WriteModelManifest
  BY <1>1, <1>7, WriteManifestInv DEF IInv
<1>8. CASE Restore
  BY <1>1, <1>8, RestoreInv DEF IInv
<1>9. CASE Train
  BY <1>1, <1>9, TrainInv DEF IInv
<1>10. CASE AppendRows
  BY <1>1, <1>10, AppendInv DEF IInv
<1>11. CASE AppendInterrupted
  BY <1>1, <1>11, AppendInterruptedInv DEF IInv
<1>12. CASE RowsWritten
  BY <1>1, <1>12, RowsWrittenInv DEF IInv
<1>13. CASE SaveFile
  BY <1>1, <1>13, SaveFileInv DEF IInv
<1>14. CASE PointLatest
  BY <1>1, <1>14, PointLatestInv DEF IInv
<1>15. CASE WriteSummary
  BY <1>1, <1>15, WriteSummaryInv DEF IInv
<1>16. CASE WriteFinalStatus
  BY <1>1, <1>16, WriteFinalStatusInv DEF IInv
<1>17. CASE Attest
  BY <1>1, <1>17, AttestInv DEF IInv
<1>18. CASE AttestRaises
  <2>1. Gone /\ files' = files /\ UNCHANGED <<rows, tail, saved, latest>> /\ ~Sealed
    BY <1>18, UnsealedProcess DEF AttestRaises, IInv
  <2>2. QED
    BY <1>1, <2>1, InterruptedInv DEF IInv
<1>19. CASE WriteComplete
  BY <1>1, <1>19, WriteCompleteInv DEF IInv
<1>20. CASE Retire
  BY <1>1, <1>20, RetireInv DEF IInv
<1>21. CASE Crash
  <2>1. /\ Gone /\ files' = files
        /\ UNCHANGED <<rows, tail, saved, latest, summary, status, completion, seal>>
    BY <1>21 DEF Crash, Interrupted
  <2>2. QED
    BY <1>1, <2>1, InterruptedInv DEF IInv
<1>22. CASE Fail
  <2>1. Gone /\ files' = files /\ UNCHANGED <<rows, tail, saved, latest>> /\ ~Sealed
    BY <1>22, UnsealedProcess DEF Fail, Interrupted, IInv
  <2>2. QED
    BY <1>1, <2>1, InterruptedInv DEF IInv
<1>23. CASE UNCHANGED vars
  BY <1>1, <1>23, StutterInv DEF IInv
<1>24. QED
  BY <1>2, <1>3, <1>4, <1>5, <1>6, <1>7, <1>8, <1>9, <1>10, <1>11, <1>12, <1>13,
     <1>14, <1>15, <1>16, <1>17, <1>18, <1>19, <1>20, <1>21, <1>22, <1>23
     DEF Next, Launch, Run

\* The inductive invariant holds in every reachable state.
THEOREM Invariance == Spec => []IInv
BY InvInit, InvStep, PTL DEF Spec

\* However often it was interrupted, a sealed run holds the complete evidence
\* of one trajectory: every expected row once, by the attempt that was kept.
THEOREM SealedRunIsOneTrajectory == Spec => []SealedTrajectory
<1>1. IInv => SealedTrajectory
  BY DEF IInv, SealInv, SealedTrajectory
<1>2. QED
  BY <1>1, Invariance, PTL

\* The evaluation in the summary of a sealed run is one of its metrics rows,
\* also when the sealing attempt read it back after a resumption.
THEOREM SealedSummaryIsInTheMetrics == Spec => []SealedSummaryIsDurable
<1>1. IInv => SealedSummaryIsDurable
  BY DEF IInv, SealInv, SealedSummaryIsDurable
<1>2. QED
  BY <1>1, Invariance, PTL

\* verify_completed_run never rejects a directory that finish() sealed.
THEOREM SealedRunVerifies == Spec => []SealVerifies
<1>1. IInv => SealVerifies
  BY DEF IInv, SealInv, SealVerifies
<1>2. QED
  BY <1>1, Invariance, PTL

\* latest.json never names a missing or foreign checkpoint, nor one whose
\* rows are not durable.
THEOREM CheckpointIsCovered == Spec => []CheckpointCoversEvidence
<1>1. IInv => CheckpointCoversEvidence
  BY DEF IInv, DirectoryInv, CheckpointInv, CheckpointCoversEvidence
<1>2. QED
  BY <1>1, Invariance, PTL

-------------------------------------------------------------------------------
(* The run implements a trajectory that is only ever extended.             *)

\* Moving the pointer commits the steps since the previous checkpoint.
LEMMA PointLatestCommits ==
    ASSUME IInv, PointLatest
    PROVE  Trajectory!Next \/ UNCHANGED <<Committed, Sealed>>
<1>1. /\ Live /\ pc = "point" /\ latest' = [step |-> step, lineage |-> lineage]
      /\ Sealed' = Sealed /\ latest' # None
  <2>1. latest' \in Checkpoint
    BY DEF PointLatest, IInv, TypeOK, ProcessType, Checkpoint
  <2>2. Checkpoint = [step : CheckpointSteps, lineage : [1 .. Steps -> 0 .. MaxInterruptions + 1]]
    BY DEF Checkpoint, Lineages
  <2>3. QED
    BY <2>1, <2>2, HiddenLawConstants DEF PointLatest, Live, Sealed
<1>2. ~Sealed
  BY <1>1, UnsealedProcess DEF IInv
<1>3. Committed' = lineage
  BY <1>1, <1>2 DEF Committed
<1>4. \A i \in 1 .. Steps : Committed[i] > 0 => lineage[i] = Committed[i]
  <2>1. CASE latest = None
    BY <1>2, <2>1 DEF Committed, Blank
  <2>2. CASE latest # None
    <3>1. UpTo(latest.lineage, latest.step) /\ Committed = latest.lineage
      BY <1>2, <2>2 DEF IInv, DirectoryInv, CheckpointInv, Committed
    <3>2. \A i \in 1 .. latest.step : lineage[i] = latest.lineage[i]
      BY <1>1, <2>2 DEF IInv, ProcessInv, LineageInv
    <3>3. latest.step \in 1 .. Steps
      BY <2>2, LatestFacts DEF IInv
    <3>4. QED
      BY <3>1, <3>2, <3>3, HiddenLawConstants DEF UpTo
  <2>3. QED
    BY <2>1, <2>2
<1>5. Trajectory!Extends(Committed, Committed')
  BY <1>3, <1>4 DEF Trajectory!Extends
<1>6. QED
  BY <1>1, <1>2, <1>5 DEF Trajectory!Next, Trajectory!Commit

\* COMPLETE seals the trajectory of the process that writes it.
LEMMA WriteCompleteSeals ==
    ASSUME IInv, WriteComplete
    PROVE  Trajectory!Next
<1>1. /\ Live /\ pc = "seal" /\ Sealed' /\ summary' = summary
      /\ step = Steps /\ summary.lineage = lineage
  BY DEF WriteComplete, Live, Sealed, IInv, ProcessInv, FinishInv
<1>2. ~Sealed
  BY <1>1, UnsealedProcess DEF IInv
<1>3. Committed' = lineage
  BY <1>1 DEF Committed
<1>4. UpTo(lineage, Steps)
  BY <1>1 DEF IInv, ProcessInv, LineageInv
<1>5. \A i \in 1 .. Steps : Committed[i] > 0 => lineage[i] = Committed[i]
  <2>1. CASE latest = None
    BY <1>2, <2>1 DEF Committed, Blank
  <2>2. CASE latest # None
    <3>1. UpTo(latest.lineage, latest.step) /\ Committed = latest.lineage
      BY <1>2, <2>2 DEF IInv, DirectoryInv, CheckpointInv, Committed
    <3>2. \A i \in 1 .. latest.step : lineage[i] = latest.lineage[i]
      BY <1>1, <2>2 DEF IInv, ProcessInv, LineageInv
    <3>3. latest.step \in 1 .. Steps
      BY <2>2, LatestFacts DEF IInv
    <3>4. QED
      BY <3>1, <3>2, <3>3, HiddenLawConstants DEF UpTo
  <2>3. QED
    BY <2>1, <2>2
<1>6. Trajectory!Extends(Committed, Committed')
  BY <1>3, <1>5 DEF Trajectory!Extends
<1>7. Trajectory!Complete(Committed')
  BY <1>3, <1>4, HiddenLawConstants DEF Trajectory!Complete, UpTo
<1>8. QED
  BY <1>1, <1>2, <1>6, <1>7 DEF Trajectory!Next, Trajectory!Seal

\* Every other step leaves the committed trajectory alone.
LEMMA OthersKeepTrajectory ==
    ASSUME IInv, [Next]_vars, ~PointLatest, ~WriteComplete
    PROVE  UNCHANGED <<Committed, Sealed>>
<1>1. CASE Retire
  BY <1>1 DEF Retire, Sealed, Committed, IInv, ProcessInv, IdleInv
<1>2. CASE WriteSummary
  <2>1. ~Sealed
    BY <1>2, UnsealedProcess DEF IInv, WriteSummary
  <2>2. QED
    BY <1>2, <2>1 DEF WriteSummary, Sealed, Committed
<1>3. CASE InitializeNew
  <2>1. ~Sealed
    BY <1>3 DEF InitializeNew, IInv, SealInv
  <2>2. ~Sealed'
    BY <1>3 DEF InitializeNew, InitWrites, Sealed
  <2>3. QED
    BY <1>3, <2>1, <2>2 DEF InitializeNew, Committed, Sealed
<1>4. CASE WriteBankManifest \/ WriteModelManifest
  BY <1>4 DEF WriteBankManifest, WriteModelManifest, WriteManifest, Sealed, Committed
<1>5. CASE AppendRows \/ AppendInterrupted
  <2>1. Current # "COMPLETE"
    <3>1. Current \in Streams
      BY <1>5, StreamAtFacts DEF AppendRows, AppendInterrupted, Current, IInv, TypeOK, ProcessType
    <3>2. QED
      BY <3>1 DEF Streams
  <2>2. QED
    BY <1>5, <2>1 DEF AppendRows, AppendInterrupted, Sealed, Committed
<1>6. CASE UNCHANGED <<files, latest, summary>>
  BY <1>6 DEF Sealed, Committed
<1>7. QED
  BY <1>1, <1>2, <1>3, <1>4, <1>5, <1>6
     DEF Next, Launch, Run, InitializeRaises, InitializeResume, InitializeComplete,
         OpenSink, Restore, Train, RowsWritten, SaveFile, WriteFinalStatus, Attest,
         AttestRaises, Crash, Fail, vars, directory

\* Interruptions, resumptions and the retirement of the checkpoints never
\* replace a committed step: the run implements ResumableTrajectory.
THEOREM ImplementsTrajectory == Spec => CommittedTrajectory
<1>1. Init => Trajectory!Init
  BY DEF Init, Trajectory!Init, Committed, Sealed, Blank, Trajectory!Blank
<1>2. IInv /\ [Next]_vars => [Trajectory!Next]_<<Committed, Sealed>>
  BY PointLatestCommits, WriteCompleteSeals, OthersKeepTrajectory
<1>3. QED
  BY <1>1, <1>2, Invariance, PTL DEF Spec, CommittedTrajectory, Trajectory!Spec

===============================================================================

-------------------------- MODULE GoalZendoRunProofs --------------------------
(***************************************************************************)
(* What holds of a known-law run of any length, with any schedules, on any  *)
(* machine and however often it is interrupted: its checkpoints, snapshots  *)
(* and committed updates are of one trajectory; and where the last row of a *)
(* killed append is not glued to the next one, so is its evidence.          *)
(***************************************************************************)
EXTENDS GoalZendoRun, TLAPS

\* Where a process holds a model.
Training ==
    {"evaluate", "predict", "evaluated", "checkpoint", "index", "save", "point", "prune",
     "checkpointed", "loop", "result", "retire", "unpoint", "unlink"}

Trained   == {"result", "retire", "unpoint", "unlink"}
Finishing == {"summary", "status", "attest", "complete"}

\* The first t updates of f.
Prefix(f, t) == [u \in 1 .. Steps |-> IF u <= t THEN f[u] ELSE 0]

\* A process that was resumed does nothing at the step it was resumed at.
AtStart == 0 < mem.start /\ mem.start = mem.step

\* The hooks of step t that the process, or the one it continues, has behind it.
EvaluationBehind(t) ==
    \/ t < mem.step
    \/ t = mem.step /\ (pc \notin {"evaluate", "predict", "evaluated"} \/ AtStart)

CheckpointBehind(t) ==
    \/ t < mem.step
    \/ t = mem.step /\ (pc \in {"loop"} \cup Trained \/ AtStart)

\* The hooks of the step the process is at that are half done: a snapshot without
\* its index entry, with it, and a checkpoint that latest.json names.
SnapshotTaken(t) == t = mem.step /\ pc = "index"
SnapshotNamed(t) == t = mem.step /\ pc \in {"save", "point", "prune", "checkpointed"}
Pointed(t)       == t = mem.step /\ pc \in {"prune", "checkpointed"}

-------------------------------------------------------------------------------
\* The process.

\* A process that has not restored anything yet knows that there is something.
StartInv ==
    /\ pc \in {"down", "manifests", "restore"} =>
         mem.start = 0 /\ mem.step = 0 /\ mem.lineage = Blank /\ mem.emitted = {}
    /\ pc \in {"manifests", "restore"} =>
         (disk.latest # None \/ disk.retired # None => mem.resumed)
    /\ pc # "down" \/ disk.latest # None \/ disk.retired # None => disk.status # None

\* The hook state and the model of a process are those of its step.
MemInv ==
    pc \in Training =>
      /\ mem.start <= mem.step
      /\ \A t \in EvalSteps : <<"evaluate", t>> \in mem.emitted <=> EvaluationBehind(t)
      /\ \A t \in CheckpointSteps \cup SnapshotSteps :
            <<"checkpoint", t>> \in mem.emitted <=> CheckpointBehind(t)
      /\ \A t \in 1 .. Steps : mem.lineage[t] > 0 <=> t <= mem.step
      /\ \A t \in 1 .. Steps : mem.start < t /\ t <= mem.step => mem.lineage[t] = attempt

\* Each place is reached at the steps it is for.
PlaceInv ==
    /\ pc \in {"predict", "evaluated"} => mem.step \in EvalSteps /\ ~AtStart
    /\ pc \in {"index", "save", "point", "prune", "checkpointed"} =>
         mem.step \in CheckpointSteps \cup SnapshotSteps /\ ~AtStart
    /\ pc = "index" => mem.step \in SnapshotSteps
    /\ pc \in {"save", "point", "prune"} => mem.step \in CheckpointSteps
    /\ pc \in Trained => mem.step = Steps
    /\ pc \in {"retire", "unpoint", "unlink"} => CheckpointSteps # {}

-------------------------------------------------------------------------------
\* The trajectory.

\* The checkpoint is whole, and so is its place in the trajectory.
LatestInv ==
    disk.latest # None =>
      LET at == disk.latest.step
          payload == disk.latest.payload
      IN /\ disk.saved[at] = payload
         /\ \A t \in EvalSteps : <<"evaluate", t>> \in payload.emitted <=> t <= at
         /\ \A t \in CheckpointSteps \cup SnapshotSteps :
               <<"checkpoint", t>> \in payload.emitted <=> t <= at
         /\ \A t \in 1 .. Steps : payload.lineage[t] > 0 <=> t <= at
         /\ \A t \in SnapshotSteps : t <= at =>
               disk.snapshot[t] = Prefix(payload.lineage, t) /\ disk.index[t] = disk.snapshot[t]

\* A checkpoint file is there before latest.json names it, and after it no more.
FileInv ==
    /\ pc = "point" => disk.saved[mem.step] = Payload
    /\ pc = "unlink" => disk.latest = None

\* The process continues the checkpoint, and has made the one it continues.
ContinuesInv ==
    pc \in Training =>
      /\ disk.latest # None =>
           /\ mem.start <= disk.latest.step /\ disk.latest.step <= mem.step
           /\ \A t \in 1 .. disk.latest.step : mem.lineage[t] = disk.latest.payload.lineage[t]
           /\ CheckpointBehind(disk.latest.step) \/ Pointed(disk.latest.step)
      /\ \A t \in CheckpointSteps :
           (CheckpointBehind(t) /\ pc # "unlink") \/ Pointed(t) =>
             disk.latest # None /\ t <= disk.latest.step

\* Snapshots and index entries behind the process are of its model.
SnapshotInv ==
    pc \in Training =>
      \A t \in SnapshotSteps :
        /\ CheckpointBehind(t) \/ SnapshotNamed(t) \/ SnapshotTaken(t) =>
             disk.snapshot[t] = Prefix(mem.lineage, t)
        /\ CheckpointBehind(t) \/ SnapshotNamed(t) => disk.index[t] = disk.snapshot[t]

\* The marker of a retired run vouches for a complete model and its snapshots.
RetiredInv ==
    disk.retired # None =>
      LET history == disk.retired.history
      IN /\ \A t \in 1 .. Steps : history[t] > 0
         /\ \A t \in SnapshotSteps :
               disk.snapshot[t] = Prefix(history, t) /\ disk.index[t] = disk.snapshot[t]
         /\ disk.latest # None => disk.latest.step = Steps /\ disk.latest.payload.lineage = history
         /\ pc \in Training => mem.start = Steps \/ pc \in {"unpoint", "unlink"}

\* From the marker on it is there; a sealed run has no process.
SealInv ==
    /\ pc \in {"unpoint", "unlink", "recovered"} => disk.retired # None
    /\ pc \in Finishing \/ Sealed => (CheckpointSteps # {} => disk.retired # None)
    /\ Sealed => pc = "down"

TrajectoryInv ==
    /\ TypeOK /\ StartInv /\ MemInv /\ PlaceInv
    /\ LatestInv /\ FileInv /\ ContinuesInv /\ SnapshotInv /\ RetiredInv /\ SealInv

-------------------------------------------------------------------------------
\* The evidence.

\* Every row of the evaluation of step t is in the stream.
Full(stream, t) ==
    \A i \in 1 .. EvalRows : \E e \in disk.rows[stream] :
        e.row.kind = "evaluation" /\ e.row.step = t /\ e.row.index = i

\* Both streams hold every evaluation.
AllFull == \A s \in Streams, t \in EvalSteps : Full(s, t)

\* The rows of step t that the process has appended to the stream.
Appended(stream, t) ==
    \/ EvaluationBehind(t)
    \/ t = mem.step /\ (pc = "evaluated" \/ (pc = "predict" /\ stream = "metrics"))

\* Replays that say the same have the value zero, others that of their attempt.
ValueInv ==
    \A s \in Streams : \A e \in disk.rows[s] :
      /\ machine.reproducible => e.row.value = 0
      /\ e.row.value <= attempt
      /\ e.row.value = attempt => disk.tail[s] # "unterminated"

\* Nothing is said twice.
UniqueInv == \A s \in Streams : \A e, f \in disk.rows[s] : e.row = f.row => e = f

\* Without unterminated rows streams end cleanly under a living process.
CleanInv ==
    NoRowIsGlued => \A s \in Streams :
      disk.tail[s] \in {"clean", "partial"} /\ (pc # "down" \/ Sealed => disk.tail[s] = "clean")

\* The row a repair may drop is no evidence of the checkpoint.
TailInv ==
    TailsAreSafe => \A s \in Streams :
      disk.tail[s] = "unterminated" /\ disk.latest # None /\ disk.last[s] # None =>
        \/ disk.last[s].row.kind = "optimization"
        \/ disk.last[s].row.step > disk.latest.step

\* A process that recomputed an evaluation has not left its stream unterminated.
OverwrittenInv ==
    (TailsAreSafe /\ pc \in Training) => \A s \in Streams, t \in EvalSteps :
      mem.start < t /\ Appended(s, t) => disk.tail[s] # "unterminated"

\* The evaluations of the checkpoint and of the process are durable.
FullInv ==
    TailsAreSafe =>
      /\ disk.latest # None =>
           \A s \in Streams, t \in EvalSteps : t <= disk.latest.step => Full(s, t)
      /\ pc \in Training => \A s \in Streams, t \in EvalSteps : Appended(s, t) => Full(s, t)

\* And those of a run that is over.
AllFullInv ==
    NoRowIsGlued /\ (disk.retired # None \/ pc \in Finishing \/ Sealed) => AllFull

EvidenceInv ==
    /\ ValueInv /\ UniqueInv /\ CleanInv /\ TailInv /\ OverwrittenInv /\ FullInv /\ AllFullInv

-------------------------------------------------------------------------------
\* Directories that differ in some of their parts.

Parts == {"files", "rows", "tail", "last", "saved", "latest", "snapshot", "index", "retired",
          "status", "summary", "completion"}

\* d differs from e in parts only.
Differs(d, e, parts) == \A p \in Parts \ parts : d[p] = e[p]

\* The schedule.
LEMMA Numbers ==
    /\ Steps \in Nat /\ Steps > 0 /\ EvalRows \in Nat /\ EvalRows > 0 /\ MaxInterruptions \in Nat
    /\ EvalSteps \subseteq 0 .. Steps /\ 0 \in EvalSteps /\ Steps \in EvalSteps
    /\ CheckpointSteps \subseteq EvalSteps /\ 0 \notin CheckpointSteps
    /\ SnapshotSteps \subseteq EvalSteps
    /\ CheckpointSteps = {} => SnapshotSteps = {}
    /\ CheckpointSteps # {} => Steps \in CheckpointSteps
<1>1. /\ Steps \in Nat /\ Steps > 0 /\ EvalRows \in Nat /\ EvalRows > 0
      /\ MaxInterruptions \in Nat
  BY GoalZendoConstants
<1>2. /\ EvalSteps \subseteq 0 .. Steps /\ 0 \in EvalSteps /\ Steps \in EvalSteps
      /\ CheckpointSteps \subseteq EvalSteps \ {0}
      /\ SnapshotSteps \subseteq EvalSteps
  BY GoalZendoConstants
<1>3. IF CheckpointSteps = {} THEN SnapshotSteps = {} ELSE Steps \in CheckpointSteps
  BY GoalZendoConstants
<1> QED
  BY <1>1, <1>2, <1>3

LEMMA StepNumbers ==
    /\ \A t \in EvalSteps \cup CheckpointSteps \cup SnapshotSteps : t \in 0 .. Steps /\ t \in Nat
    /\ \A t \in CheckpointSteps : 0 < t /\ t \in EvalSteps
<1>1. \A t \in EvalSteps \cup CheckpointSteps \cup SnapshotSteps : t \in 0 .. Steps
  BY Numbers
<1>2. \A t \in CheckpointSteps : t \in 0 .. Steps /\ t # 0 /\ t \in EvalSteps
  BY Numbers
<1> QED
  BY <1>1, <1>2, Numbers

LEMMA DirectoryParts ==
    ASSUME NEW d \in Directories
    PROVE  DOMAIN d = Parts
BY DEF Directories, Parts

\* The process is gone and has changed parts of the directory.
Ended(parts) ==
    /\ disk' \in Directories
    /\ Differs(disk', disk, parts \cup {"status"})
    /\ disk'.status \in {disk.status, "failed"}
    /\ pc' = "down" /\ mem' = Lost
    /\ attempt' \in {attempt, attempt + 1} /\ attempt' \in 1 .. MaxInterruptions + 1

LEMMA InterruptedFrame ==
    ASSUME TypeOK, NEW d \in Directories, InterruptedWith(d),
           NEW parts, Differs(d, disk, parts), d.status = disk.status
    PROVE  Ended(parts) /\ Differs(disk', d, {"status"}) /\ attempt' = attempt + 1
<1>1. disk' = d \/ disk' = [d EXCEPT !.status = "failed"]
  BY DEF InterruptedWith
<1>2. disk' \in Directories
  BY <1>1 DEF Directories
<1>3. Differs(disk', d, {"status"})
  BY <1>1, DirectoryParts DEF Differs
<1>4. Differs(disk', disk, parts \cup {"status"})
  BY <1>3 DEF Differs
<1>5. disk'.status \in {disk.status, "failed"}
  BY <1>1 DEF Directories
<1>6. pc' = "down" /\ mem' = Lost /\ attempt' = attempt + 1 /\ attempt <= MaxInterruptions
  BY DEF InterruptedWith, Gone
<1>7. attempt' \in 1 .. MaxInterruptions + 1
  BY <1>6, Numbers DEF TypeOK
<1> QED
  BY <1>2, <1>3, <1>4, <1>5, <1>6, <1>7 DEF Ended

LEMMA RaiseFrame ==
    ASSUME TypeOK, Raise
    PROVE  Ended({})
<1>1. disk' = [disk EXCEPT !.status = "failed"]
  BY DEF Raise
<1>2. disk' \in Directories /\ disk'.status = "failed"
  BY <1>1 DEF Directories, TypeOK
<1>3. Differs(disk', disk, {} \cup {"status"})
  BY <1>1, DirectoryParts DEF Differs, TypeOK
<1>4. pc' = "down" /\ mem' = Lost
      /\ attempt' = IF attempt <= MaxInterruptions THEN attempt + 1 ELSE attempt
  BY DEF Raise, Gone
<1>5. attempt' \in {attempt, attempt + 1} /\ attempt' \in 1 .. MaxInterruptions + 1
  BY <1>4, Numbers DEF TypeOK
<1> QED
  BY <1>2, <1>3, <1>4, <1>5 DEF Ended

LEMMA CrashFrame ==
    ASSUME TypeOK, Crash
    PROVE  Ended({}) /\ attempt' = attempt + 1
<1>1. disk \in Directories /\ Differs(disk, disk, {})
  BY DEF TypeOK, Differs
<1> QED
  BY <1>1, InterruptedFrame DEF Crash

\* Checkpoint files that are removed.
LEMMA PrunedFrame ==
    ASSUME TypeOK, NEW gone \in SUBSET CheckpointSteps
    PROVE  /\ Pruned(gone) \in Directories
           /\ Differs(Pruned(gone), disk, {"saved"})
           /\ Pruned(gone).status = disk.status
           /\ \A s \in CheckpointSteps :
                Pruned(gone).saved[s] = IF s \in gone THEN None ELSE disk.saved[s]
<1> DEFINE saved == [s \in CheckpointSteps |-> IF s \in gone THEN None ELSE disk.saved[s]]
<1>1. saved \in [CheckpointSteps -> Payloads \cup {None}]
  BY DEF TypeOK, Directories
<1>2. Pruned(gone) = [disk EXCEPT !.saved = saved]
  BY DEF Pruned, TypeOK, Directories
<1> HIDE DEF saved
<1>3. Pruned(gone) \in Directories /\ Pruned(gone).saved = saved
  BY <1>1, <1>2 DEF TypeOK, Directories
<1>4. Differs(Pruned(gone), disk, {"saved"})
  BY <1>2, DirectoryParts DEF Differs, TypeOK
<1> QED
  BY <1>3, <1>4 DEF saved, Differs, Parts

LEMMA PrunedEnds ==
    ASSUME TypeOK, NEW gone \in SUBSET CheckpointSteps, InterruptedWith(Pruned(gone))
    PROVE  /\ Ended({"saved"})
           /\ \A s \in CheckpointSteps \ gone : disk'.saved[s] = disk.saved[s]
<1>1. Ended({"saved"}) /\ Differs(disk', Pruned(gone), {"status"})
  BY PrunedFrame, InterruptedFrame
<1>2. disk'.saved = Pruned(gone).saved
  BY <1>1 DEF Differs, Parts
<1> QED
  BY <1>1, <1>2, PrunedFrame

\* What pruning leaves, whether or not it is cut short.
LEMMA PruneFrame ==
    ASSUME TypeOK, NEW keep, NEW next, Prune(keep, next)
    PROVE  /\ \A s \in CheckpointSteps : s = keep => disk'.saved[s] = disk.saved[s]
           /\ \/ Ended({"saved"})
              \/ /\ disk' \in Directories /\ Differs(disk', disk, {"saved"})
                 /\ pc' = next /\ UNCHANGED <<mem, attempt>>
<1>1. CASE Continue(Pruned(Superseded(keep)), next)
  BY <1>1, PrunedFrame DEF Continue, Superseded
<1>2. CASE \E gone \in SUBSET Superseded(keep) : InterruptedWith(Pruned(gone))
  <2>1. PICK gone \in SUBSET Superseded(keep) : InterruptedWith(Pruned(gone))
    BY <1>2
  <2>2. gone \in SUBSET CheckpointSteps /\ keep \notin gone
    BY DEF Superseded
  <2> QED
    BY <2>1, <2>2, PrunedEnds
<1> QED
  BY <1>1, <1>2 DEF Prune

\* One part is replaced.
LEMMA PutFrame ==
    ASSUME TypeOK, NEW p \in Parts, NEW x, NEW next,
           Continue([disk EXCEPT ![p] = x], next)
    PROVE  /\ Differs(disk', disk, {p}) /\ disk'[p] = x
           /\ pc' = next /\ UNCHANGED <<mem, attempt>>
BY DirectoryParts DEF TypeOK, Continue, Differs

\* The process goes on at next and has changed parts of the directory.
Continued(parts, next) ==
    /\ disk' \in Directories
    /\ Differs(disk', disk, parts)
    /\ pc' = next /\ UNCHANGED <<mem, attempt>>

LEMMA SealedIsAFile ==
    ASSUME NEW parts, "files" \notin parts, Differs(disk', disk, parts)
    PROVE  Sealed' <=> Sealed
BY DEF Differs, Parts, Sealed

\* No file of the start is the seal.
LEMMA AttestedFiles ==
    /\ \A i \in 1 .. Len(InitWrites) : InitWrites[i] \in Attested /\ InitWrites[i] # "COMPLETE"
    /\ \A i \in 1 .. Len(Manifests) : Manifests[i] \in Attested /\ Manifests[i] # "COMPLETE"
<1>1. \A i \in 1 .. 4 : InitWrites[i] # "COMPLETE"
  BY DEF InitWrites
<1>2. \A i \in 1 .. 3 : Manifests[i] # "COMPLETE"
  BY DEF Manifests
<1>3. Len(InitWrites) = 4 /\ Len(Manifests) = 3
  BY DEF InitWrites, Manifests
<1> QED
  BY <1>1, <1>2, <1>3 DEF Attested

LEMMA InitializeFrame ==
    ASSUME TypeOK, Initialize
    PROVE  /\ disk' \in Directories /\ ~Sealed /\ ~Sealed' /\ pc = "down"
           /\ \/ /\ Differs(disk', disk, {"files"})
                 /\ UNCHANGED <<mem, pc>>
                 /\ attempt' = attempt + 1 /\ attempt' \in 1 .. MaxInterruptions + 1
              \/ /\ Differs(disk', disk, {"files", "tail", "status"})
                 /\ disk'.tail = Repaired /\ disk'.status = "running"
                 /\ \A s \in Streams : disk.tail[s] # "glued"
                 /\ mem' = [mem EXCEPT !.resumed = disk.status # None]
                 /\ pc' = "manifests" /\ UNCHANGED attempt
<1>1. PICK k \in 0 .. Len(InitWrites) :
        LET written == disk.files \cup {InitWrites[i] : i \in 1 .. k} IN
        \/ /\ attempt <= MaxInterruptions /\ attempt' = attempt + 1
           /\ disk' = [disk EXCEPT !.files = written]
           /\ UNCHANGED <<mem, pc>>
        \/ /\ k = Len(InitWrites)
           /\ \A s \in Streams : disk.tail[s] # "glued"
           /\ disk' = [disk EXCEPT !.files = written, !.tail = Repaired,
                                   !.status = "running"]
           /\ mem' = [mem EXCEPT !.resumed = disk.status # None]
           /\ pc' = "manifests"
           /\ UNCHANGED attempt
  BY DEF Initialize
<1> DEFINE written == disk.files \cup {InitWrites[i] : i \in 1 .. k}
<1>2. written \in SUBSET (Attested \cup {"COMPLETE"}) /\ "COMPLETE" \notin written
  <2>1. \A i \in 1 .. k : i \in 1 .. Len(InitWrites)
    BY DEF InitWrites
  <2>2. disk.files \in SUBSET (Attested \cup {"COMPLETE"}) /\ "COMPLETE" \notin disk.files
    BY DEF TypeOK, Directories, Initialize, Sealed
  <2> QED
    BY <2>1, <2>2, AttestedFiles
<1>3. Repaired \in [Streams -> {"clean", "partial", "unterminated", "glued"}]
  BY DEF Repaired, TypeOK, Directories
<1> HIDE DEF written
<1>4. ASSUME disk' = [disk EXCEPT !.files = written]
      PROVE  disk' \in Directories /\ ~Sealed' /\ Differs(disk', disk, {"files"})
  <2>1. disk' \in Directories /\ disk'.files = written
    BY <1>2, <1>4 DEF TypeOK, Directories
  <2>2. Differs(disk', disk, {"files"})
    BY <1>4, DirectoryParts DEF Differs, TypeOK
  <2> QED
    BY <2>1, <2>2, <1>2 DEF Sealed
<1>5. ASSUME disk' = [disk EXCEPT !.files = written, !.tail = Repaired, !.status = "running"]
      PROVE  /\ disk' \in Directories /\ ~Sealed'
             /\ Differs(disk', disk, {"files", "tail", "status"})
             /\ disk'.tail = Repaired /\ disk'.status = "running"
  <2>1. disk' \in Directories /\ disk'.files = written /\ disk'.tail = Repaired
        /\ disk'.status = "running"
    BY <1>2, <1>3, <1>5 DEF TypeOK, Directories
  <2>2. Differs(disk', disk, {"files", "tail", "status"})
    BY <1>5, DirectoryParts DEF Differs, TypeOK
  <2> QED
    BY <2>1, <2>2, <1>2 DEF Sealed
<1>6. attempt <= MaxInterruptions /\ attempt' = attempt + 1 => attempt' \in 1 .. MaxInterruptions + 1
  BY Numbers DEF TypeOK
<1>7. ~Sealed /\ pc = "down"
  BY DEF Initialize
<1>8. CASE /\ attempt <= MaxInterruptions /\ attempt' = attempt + 1
           /\ disk' = [disk EXCEPT !.files = written]
           /\ UNCHANGED <<mem, pc>>
  BY <1>4, <1>6, <1>7, <1>8
<1>9. CASE /\ \A s \in Streams : disk.tail[s] # "glued"
           /\ disk' = [disk EXCEPT !.files = written, !.tail = Repaired, !.status = "running"]
           /\ mem' = [mem EXCEPT !.resumed = disk.status # None]
           /\ pc' = "manifests"
           /\ UNCHANGED attempt
  BY <1>5, <1>7, <1>9
<1> QED
  BY <1>1, <1>8, <1>9 DEF written

LEMMA RecordManifestsFrame ==
    ASSUME TypeOK, RecordManifests
    PROVE  /\ pc = "manifests" /\ (Sealed' <=> Sealed)
           /\ Ended({"files"}) \/ Continued({"files"}, "restore")
<1>1. PICK k \in 0 .. Len(Manifests) :
        LET d == [disk EXCEPT !.files = @ \cup {Manifests[i] : i \in 1 .. k}] IN
        InterruptedWith(d) \/ (k = Len(Manifests) /\ Continue(d, "restore"))
  BY DEF RecordManifests
<1> DEFINE recorded == {Manifests[i] : i \in 1 .. k}
           d == [disk EXCEPT !.files = @ \cup recorded]
<1>2. recorded \subseteq Attested /\ "COMPLETE" \notin recorded
  <2>1. \A i \in 1 .. k : i \in 1 .. Len(Manifests)
    BY DEF Manifests
  <2> QED
    BY <2>1, AttestedFiles
<1>3. InterruptedWith(d) \/ Continue(d, "restore")
  BY <1>1
<1> HIDE DEF recorded
<1>4. d \in Directories /\ d.files = disk.files \cup recorded /\ d.status = disk.status
  BY <1>2 DEF TypeOK, Directories
<1>5. Differs(d, disk, {"files"})
  BY DirectoryParts DEF Differs, TypeOK
<1>6. "COMPLETE" \in d.files <=> Sealed
  BY <1>2, <1>4 DEF Sealed
<1>7. pc = "manifests"
  BY DEF RecordManifests
<1> HIDE DEF d
<1>8. CASE InterruptedWith(d)
  <2>1. Ended({"files"}) /\ Differs(disk', d, {"status"})
    BY <1>4, <1>5, <1>8, InterruptedFrame
  <2> QED
    BY <2>1, <1>6, <1>7 DEF Differs, Parts, Sealed
<1>9. CASE Continue(d, "restore")
  BY <1>4, <1>5, <1>6, <1>7, <1>9 DEF Continue, Continued, Sealed
<1> QED
  BY <1>3, <1>8, <1>9

-------------------------------------------------------------------------------
\* Rows.

Appending == {"evaluate", "predict", "loop"}
Ends      == {"clean", "partial", "unterminated"}

LEMMA RowTypes ==
    ASSUME TypeOK,
           NEW kind \in {"evaluation", "optimization"}, NEW s \in 0 .. Steps, NEW i \in 1 .. EvalRows
    PROVE  Row(kind, s, i) \in Rows
<1>1. Value(s) \in 0 .. MaxInterruptions + 1
  BY Numbers DEF Value, TypeOK, Processes, Lineages
<1> QED
  BY <1>1 DEF Row, Rows

LEMMA BatchTypes ==
    ASSUME TypeOK
    PROVE  /\ EvaluationRows \in SUBSET Rows
           /\ EvaluationMetrics \in SUBSET Rows
           /\ OptimizationRows \in SUBSET Rows
<1>1. 1 \in 1 .. EvalRows
  BY Numbers
<1>2. mem.step \in 0 .. Steps /\ mem.start \in 0 .. Steps
  BY DEF TypeOK, Processes
<1>3. \A s \in mem.start + 1 .. Steps : s \in 0 .. Steps
  BY <1>2, Numbers
<1>4. EvaluationRows \in SUBSET Rows
  BY <1>2, RowTypes DEF EvaluationRows
<1>5. OptimizationRows \in SUBSET Rows
  BY <1>1, <1>3, RowTypes DEF OptimizationRows
<1>6. Row("optimization", mem.step, 1) \in Rows
  BY <1>1, <1>2, RowTypes
<1> QED
  BY <1>4, <1>5, <1>6 DEF EvaluationMetrics

LEMMA EntryTypes ==
    ASSUME TypeOK, pc \in Appending, NEW r \in Rows
    PROVE  Entry(r) \in Entries
BY DEF Entry, Entries, TypeOK, Appending

\* The two streams after new rows and an end, as Written says.
TakesTwo(stream, new, end) == disk.tail[stream] = "unterminated" /\ new = {} /\ end = "partial"

WrittenTo(d, stream, new, end, last) ==
    /\ \A s \in Streams : s # stream =>
         d.rows[s] = disk.rows[s] /\ d.tail[s] = disk.tail[s] /\ d.last[s] = disk.last[s]
    /\ d.rows[stream] = (IF TakesTwo(stream, new, end) THEN disk.rows[stream] \ {disk.last[stream]}
                         ELSE disk.rows[stream]) \cup {Entry(r) : r \in new}
    /\ d.tail[stream] = IF new = {} /\ end = "clean" THEN disk.tail[stream]
                        ELSE IF disk.tail[stream] = "clean" \/ TakesTwo(stream, new, end) THEN end
                        ELSE "glued"
    /\ d.last[stream] = IF new = {} /\ end = "clean" THEN disk.last[stream] ELSE last

LEMMA WrittenFrame ==
    ASSUME TypeOK, pc \in Appending, NEW stream \in Streams, NEW new \in SUBSET Rows,
           NEW end \in Ends, NEW last \in Entries \cup {None}
    PROVE  LET d == Written(stream, new, end, last) IN
           /\ d \in Directories
           /\ Differs(d, disk, {"rows", "tail", "last"}) /\ d.status = disk.status
           /\ WrittenTo(d, stream, new, end, last)
<1> DEFINE nothing == new = {} /\ end = "clean"
           rows == (IF TakesTwo(stream, new, end) THEN disk.rows[stream] \ {disk.last[stream]}
                    ELSE disk.rows[stream]) \cup {Entry(r) : r \in new}
           tail == IF nothing THEN disk.tail[stream]
                   ELSE IF disk.tail[stream] = "clean" \/ TakesTwo(stream, new, end) THEN end
                   ELSE "glued"
           left == IF nothing THEN disk.last[stream] ELSE last
           d == Written(stream, new, end, last)
<1>1. d = [disk EXCEPT !.rows[stream] = rows, !.tail[stream] = tail, !.last[stream] = left]
  BY DEF Written, TakesTwo
<1>2. rows \in SUBSET Entries
  <2>1. {Entry(r) : r \in new} \in SUBSET Entries
    BY EntryTypes
  <2>2. disk.rows[stream] \in SUBSET Entries
    BY DEF TypeOK, Directories
  <2> QED
    BY <2>1, <2>2
<1>3. tail \in {"clean", "partial", "unterminated", "glued"}
  BY DEF TypeOK, Directories, Ends
<1>4. left \in Entries \cup {None}
  BY DEF TypeOK, Directories
<1> HIDE DEF rows, tail, left, d
<1>5. Differs(d, disk, {"rows", "tail", "last"})
  BY <1>1, DirectoryParts DEF Differs, TypeOK
<1>6. /\ d.rows = [disk.rows EXCEPT ![stream] = rows]
      /\ d.tail = [disk.tail EXCEPT ![stream] = tail]
      /\ d.last = [disk.last EXCEPT ![stream] = left]
  BY <1>1 DEF TypeOK, Directories
<1>7. d \in Directories
  BY <1>1, <1>2, <1>3, <1>4 DEF TypeOK, Directories
<1>8. d.status = disk.status
  BY <1>5 DEF Differs, Parts
<1>9. /\ disk.rows \in [Streams -> SUBSET Entries]
      /\ DOMAIN disk.tail = Streams /\ DOMAIN disk.last = Streams
  BY DEF TypeOK, Directories
<1>10. /\ d.rows[stream] = rows /\ d.tail[stream] = tail /\ d.last[stream] = left
       /\ \A s \in Streams : s # stream =>
            d.rows[s] = disk.rows[s] /\ d.tail[s] = disk.tail[s] /\ d.last[s] = disk.last[s]
  BY <1>6, <1>9
<1>11. WrittenTo(d, stream, new, end, last)
  BY <1>10 DEF WrittenTo, rows, tail, left
<1> QED
  BY <1>5, <1>7, <1>8, <1>11 DEF d

\* How an append that does not finish leaves the stream.
CutOff(stream, batch) ==
    \E w \in SUBSET Novel(stream, batch), end \in Ends, last \in Entries \cup {None} :
      /\ WrittenTo(disk', stream, w, end, last)
      /\ end = "partial" => "partial" \in machine.tails
      /\ end # "unterminated" => last = None
      /\ end = "unterminated" =>
           "unterminated" \in machine.tails /\ \E r \in w : last = Entry(r)

LEMMA AppendFrame ==
    ASSUME TypeOK, pc \in Appending, NEW stream \in Streams, NEW batch \in SUBSET Rows, NEW next,
           AppendBatch(stream, batch, next)
    PROVE  \/ /\ Continued({"rows", "tail", "last"}, next)
              /\ WrittenTo(disk', stream, Novel(stream, batch), "clean", None)
           \/ /\ Ended({"rows", "tail", "last"}) /\ attempt' = attempt + 1
              /\ CutOff(stream, batch)
<1> DEFINE new == Novel(stream, batch)
<1>1. new \in SUBSET Rows
  BY DEF Novel
<1>2. \A w \in SUBSET new, end \in Ends, last \in Entries \cup {None} :
        InterruptedWith(Written(stream, w, end, last)) =>
          /\ Ended({"rows", "tail", "last"}) /\ attempt' = attempt + 1
          /\ WrittenTo(disk', stream, w, end, last)
  <2> SUFFICES ASSUME NEW w \in SUBSET new, NEW end \in Ends, NEW last \in Entries \cup {None},
                      InterruptedWith(Written(stream, w, end, last))
               PROVE  /\ Ended({"rows", "tail", "last"}) /\ attempt' = attempt + 1
                      /\ WrittenTo(disk', stream, w, end, last)
    OBVIOUS
  <2> DEFINE d == Written(stream, w, end, last)
  <2>1. /\ d \in Directories /\ Differs(d, disk, {"rows", "tail", "last"})
        /\ d.status = disk.status /\ WrittenTo(d, stream, w, end, last)
    BY <1>1, WrittenFrame
  <2> HIDE DEF d
  <2>2. InterruptedWith(d)
    BY DEF d
  <2>3. /\ Ended({"rows", "tail", "last"}) /\ attempt' = attempt + 1
        /\ Differs(disk', d, {"status"})
    BY <2>1, <2>2, InterruptedFrame
  <2>4. disk'.rows = d.rows /\ disk'.tail = d.tail /\ disk'.last = d.last
    BY <2>3 DEF Differs, Parts
  <2> QED
    BY <2>1, <2>3, <2>4 DEF WrittenTo
<1>3. CASE Continue(Written(stream, new, "clean", None), next)
  <2>1. "clean" \in Ends
    BY DEF Ends
  <2>2. /\ Written(stream, new, "clean", None) \in Directories
        /\ Differs(Written(stream, new, "clean", None), disk, {"rows", "tail", "last"})
        /\ WrittenTo(Written(stream, new, "clean", None), stream, new, "clean", None)
    BY <1>1, <2>1, WrittenFrame
  <2> QED
    BY <2>2, <1>3 DEF Continue, Continued
<1>4. ASSUME NEW w \in SUBSET new, NEW end \in {"clean", "partial"} \cap (machine.tails \cup {"clean"}),
             InterruptedWith(Written(stream, w, end, None))
      PROVE  Ended({"rows", "tail", "last"}) /\ attempt' = attempt + 1 /\ CutOff(stream, batch)
  <2>1. end \in Ends /\ (end = "partial" => "partial" \in machine.tails) /\ end # "unterminated"
    BY DEF Ends
  <2> QED
    BY <2>1, <1>2, <1>4 DEF CutOff
<1>5. ASSUME "unterminated" \in machine.tails,
             NEW w \in SUBSET new, NEW r \in w, InterruptedWith(Written(stream, w, "unterminated", Entry(r)))
      PROVE  Ended({"rows", "tail", "last"}) /\ attempt' = attempt + 1 /\ CutOff(stream, batch)
  <2>1. Entry(r) \in Entries
    BY <1>1, EntryTypes
  <2>2. "unterminated" \in Ends
    BY DEF Ends
  <2> QED
    BY <2>1, <2>2, <1>2, <1>5 DEF CutOff
<1>6. Prefixes(new) \subseteq SUBSET new
  BY DEF Prefixes
<1>7. \/ Continue(Written(stream, new, "clean", None), next)
      \/ \E w \in SUBSET new :
           \/ \E end \in {"clean", "partial"} \cap (machine.tails \cup {"clean"}) :
                InterruptedWith(Written(stream, w, end, None))
           \/ /\ "unterminated" \in machine.tails
              /\ \E r \in w : InterruptedWith(Written(stream, w, "unterminated", Entry(r)))
  BY <1>6 DEF AppendBatch
<1> QED
  BY <1>3, <1>4, <1>5, <1>7

-------------------------------------------------------------------------------
\* The remaining steps.

LEMMA PutContinues ==
    ASSUME TypeOK, NEW p \in Parts, NEW x, NEW next,
           [disk EXCEPT ![p] = x] \in Directories, Continue([disk EXCEPT ![p] = x], next)
    PROVE  Continued({p}, next) /\ disk'[p] = x
BY PutFrame DEF Continue, Continued

LEMMA LoadedFrame ==
    ASSUME TypeOK
    PROVE  /\ Loaded \in Processes
           /\ mem.resumed /\ disk.latest # None =>
                /\ Loaded.start = disk.latest.step /\ Loaded.step = disk.latest.step
                /\ Loaded.lineage = disk.latest.payload.lineage
                /\ Loaded.emitted = disk.latest.payload.emitted
           /\ ~(mem.resumed /\ disk.latest # None) =>
                /\ Loaded.start = 0 /\ Loaded.step = mem.step
                /\ Loaded.lineage = mem.lineage /\ Loaded.emitted = mem.emitted
<1>1. CASE mem.resumed /\ disk.latest # None
  <2>1. disk.latest \in Pointers
    BY <1>1 DEF TypeOK, Directories
  <2>2. disk.latest.step \in 0 .. Steps /\ disk.latest.payload \in Payloads
    BY <2>1, Numbers DEF Pointers
  <2>3. /\ disk.latest.payload.lineage \in Lineages
        /\ disk.latest.payload.emitted \in SUBSET ({"evaluate", "checkpoint"} \X (0 .. Steps))
    BY <2>2 DEF Payloads
  <2> QED
    BY <1>1, <2>2, <2>3 DEF Loaded, Processes
<1>2. CASE ~(mem.resumed /\ disk.latest # None)
  <2>1. Loaded = [mem EXCEPT !.start = 0]
    BY <1>2 DEF Loaded
  <2> QED
    BY <1>2, <2>1, Numbers DEF TypeOK, Processes
<1> QED
  BY <1>1, <1>2

\* What Restore leaves of the checkpoints.
Kept == disk.latest # None => disk'.saved[disk.latest.step] = disk.saved[disk.latest.step]

LEMMA RestoreFrame ==
    ASSUME TypeOK, Restore, disk.latest # None => mem.resumed
    PROVE  /\ pc = "restore" /\ ~Recovers /\ Kept
           /\ \/ Ended({"saved"})
              \/ /\ disk' \in Directories /\ Differs(disk', disk, {"saved"}) /\ Readable
                 /\ mem' = Loaded /\ pc' = "evaluate" /\ UNCHANGED attempt
<1>1. pc = "restore" /\ ~Recovers
  BY DEF Restore
<1>2. disk.latest # None => disk.latest.step \in CheckpointSteps /\ Loaded.step = disk.latest.step
  BY LoadedFrame DEF TypeOK, Directories, Pointers
<1>3. Superseded(Loaded.step) \in SUBSET CheckpointSteps
      /\ (disk.latest # None => disk.latest.step \notin Superseded(Loaded.step))
  BY <1>2 DEF Superseded
<1>4. CASE Raise
  <2>1. Ended({})
    BY <1>4, RaiseFrame
  <2>2. Ended({"saved"})
    BY <2>1 DEF Ended, Differs
  <2>3. disk'.saved = disk.saved
    BY <2>1 DEF Ended, Differs, Parts
  <2> QED
    BY <1>1, <2>2, <2>3 DEF Kept
<1>5. CASE \E gone \in SUBSET Superseded(Loaded.step) : InterruptedWith(Pruned(gone))
  <2>1. PICK gone \in SUBSET Superseded(Loaded.step) : InterruptedWith(Pruned(gone))
    BY <1>5
  <2>2. gone \in SUBSET CheckpointSteps
        /\ (disk.latest # None => disk.latest.step \notin gone)
    BY <1>3
  <2> QED
    BY <1>1, <1>2, <2>1, <2>2, PrunedEnds DEF Kept
<1>6. CASE /\ disk' = IF mem.resumed THEN Pruned(Superseded(Loaded.step)) ELSE disk
           /\ mem' = Loaded /\ pc' = "evaluate"
           /\ UNCHANGED attempt /\ Readable
  <2>1. CASE mem.resumed
    <3>1. disk' = Pruned(Superseded(Loaded.step))
      BY <1>6, <2>1
    <3> QED
      BY <1>1, <1>2, <1>3, <1>6, <3>1, PrunedFrame DEF Kept
  <2>2. CASE ~mem.resumed
    BY <1>1, <1>6, <2>2 DEF Kept, TypeOK, Differs
  <2> QED
    BY <2>1, <2>2
<1> QED
  BY <1>4, <1>5, <1>6 DEF Restore

LEMMA RecoverFrame ==
    ASSUME TypeOK, Recover
    PROVE  /\ pc = "restore" /\ Recovers
           /\ \/ Ended({"saved"})
              \/ /\ disk' \in Directories /\ Differs(disk', disk, {"saved"}) /\ Readable
                 /\ mem' = [mem EXCEPT !.start = Steps, !.step = Steps]
                 /\ pc' = "recovered" /\ UNCHANGED attempt
<1>1. pc = "restore" /\ Recovers
  BY DEF Recover
<1>2. CASE Raise
  <2>1. Ended({})
    BY <1>2, RaiseFrame
  <2> QED
    BY <1>1, <2>1 DEF Ended, Differs
<1>3. CASE \E gone \in SUBSET CheckpointSteps : InterruptedWith(Pruned(gone))
  BY <1>1, <1>3, PrunedEnds
<1>4. CASE /\ disk' = Pruned(CheckpointSteps) /\ pc' = "recovered"
           /\ mem' = [mem EXCEPT !.start = Steps, !.step = Steps]
           /\ UNCHANGED attempt /\ Readable
  BY <1>1, <1>4, PrunedFrame
<1> QED
  BY <1>2, <1>3, <1>4 DEF Recover

LEMMA EmitFrame ==
    ASSUME TypeOK, NEW kind \in {"evaluate", "checkpoint"}, NEW next, Emit(kind, next)
    PROVE  /\ mem' \in Processes
           /\ mem'.resumed = mem.resumed /\ mem'.start = mem.start /\ mem'.step = mem.step
           /\ mem'.lineage = mem.lineage
           /\ mem'.emitted = mem.emitted \cup {<<kind, mem.step>>}
           /\ pc' = next /\ UNCHANGED <<disk, attempt>>
<1>1. <<kind, mem.step>> \in {"evaluate", "checkpoint"} \X (0 .. Steps)
  BY DEF TypeOK, Processes
<1>2. mem' = [mem EXCEPT !.emitted = @ \cup {<<kind, mem.step>>}]
  BY DEF Emit
<1> QED
  BY <1>1, <1>2 DEF Emit, TypeOK, Processes

LEMMA TrainFrame ==
    ASSUME TypeOK, Train
    PROVE  /\ mem' \in Processes /\ pc = "loop" /\ mem.step < Steps
           /\ mem'.resumed = mem.resumed /\ mem'.start = mem.start /\ mem'.step = mem.step + 1
           /\ mem'.lineage = [mem.lineage EXCEPT ![mem.step + 1] = attempt]
           /\ mem'.emitted = mem.emitted
           /\ pc' = "evaluate" /\ UNCHANGED <<disk, attempt>>
<1>1. mem.step \in 0 .. Steps /\ mem.step < Steps
  BY DEF Train, Remaining, TypeOK, Processes
<1>2. mem.step + 1 \in 0 .. Steps
  BY <1>1, Numbers
<1>3. [mem.lineage EXCEPT ![mem.step + 1] = attempt] \in Lineages
  <2>1. attempt \in 0 .. MaxInterruptions + 1
    BY Numbers DEF TypeOK
  <2>2. mem.lineage \in [1 .. Steps -> 0 .. MaxInterruptions + 1]
    BY DEF TypeOK, Processes, Lineages
  <2> QED
    BY <2>1, <2>2 DEF Lineages
<1>4. mem' = [mem EXCEPT !.step = mem.step + 1,
                         !.lineage = [mem.lineage EXCEPT ![mem.step + 1] = attempt]]
  BY DEF Train, TypeOK, Processes
<1> HIDE DEF Train
<1>5. pc = "loop" /\ pc' = "evaluate" /\ UNCHANGED <<disk, attempt>>
  BY DEF Train
<1> QED
  BY <1>1, <1>2, <1>3, <1>4, <1>5 DEF TypeOK, Processes

LEMMA PayloadTypes ==
    ASSUME TypeOK
    PROVE  Payload \in Payloads
<1>1. <<"checkpoint", mem.step>> \in {"evaluate", "checkpoint"} \X (0 .. Steps)
  BY DEF TypeOK, Processes
<1> QED
  BY <1>1 DEF Payload, Payloads, TypeOK, Processes

LEMMA WriteSnapshotFrame ==
    ASSUME TypeOK, WriteSnapshot
    PROVE  /\ pc = "checkpoint" /\ CheckpointDue
           /\ \/ /\ mem.step \in SnapshotSteps /\ Continued({"snapshot"}, "index")
                 /\ disk'.snapshot = [disk.snapshot EXCEPT ![mem.step] = mem.lineage]
              \/ mem.step \notin SnapshotSteps /\ Continued({}, "save")
<1>1. CASE mem.step \in SnapshotSteps
  <2> DEFINE snapshot == [disk.snapshot EXCEPT ![mem.step] = mem.lineage]
  <2>1. snapshot \in [SnapshotSteps -> Lineages \cup {None}]
    BY DEF TypeOK, Directories, Processes
  <2>2. [disk EXCEPT !.snapshot[mem.step] = mem.lineage] = [disk EXCEPT !.snapshot = snapshot]
    BY DEF TypeOK, Directories
  <2> HIDE DEF snapshot
  <2>3. [disk EXCEPT !.snapshot = snapshot] \in Directories
    BY <2>1 DEF TypeOK, Directories
  <2>4. Continue([disk EXCEPT !.snapshot = snapshot], "index")
    BY <1>1, <2>2 DEF WriteSnapshot
  <2>5. Continued({"snapshot"}, "index") /\ disk'.snapshot = snapshot
    BY <2>3, <2>4, PutContinues DEF Parts
  <2> QED
    BY <1>1, <2>5 DEF WriteSnapshot, snapshot
<1>2. CASE mem.step \notin SnapshotSteps
  BY <1>2 DEF WriteSnapshot, Continue, Continued, TypeOK, Differs
<1> QED
  BY <1>1, <1>2

LEMMA WriteIndexFrame ==
    ASSUME TypeOK, WriteIndex, mem.step \in SnapshotSteps
    PROVE  /\ pc = "index"
           /\ Continued({"index"}, IF mem.step \in CheckpointSteps THEN "save" ELSE "checkpointed")
           /\ disk'.index = [disk.index EXCEPT ![mem.step] = mem.lineage]
<1> DEFINE index == [disk.index EXCEPT ![mem.step] = mem.lineage]
           next == IF mem.step \in CheckpointSteps THEN "save" ELSE "checkpointed"
<1>1. index \in [SnapshotSteps -> Lineages \cup {None}]
  BY DEF TypeOK, Directories, Processes
<1>2. [disk EXCEPT !.index[mem.step] = IndexEntry] = [disk EXCEPT !.index = index]
  BY DEF TypeOK, Directories, IndexEntry
<1>3. pc = "index" /\ Continue([disk EXCEPT !.index = index], next)
  BY <1>2 DEF WriteIndex
<1> HIDE DEF index, next
<1>4. [disk EXCEPT !.index = index] \in Directories
  BY <1>1 DEF TypeOK, Directories
<1>5. Continued({"index"}, next) /\ disk'.index = index
  BY <1>3, <1>4, PutContinues DEF Parts
<1> QED
  BY <1>3, <1>5 DEF index, next

LEMMA SaveFileFrame ==
    ASSUME TypeOK, SaveFile, mem.step \in CheckpointSteps
    PROVE  /\ pc = "save" /\ Continued({"saved"}, "point")
           /\ disk'.saved = [disk.saved EXCEPT ![mem.step] = Payload]
<1> DEFINE saved == [disk.saved EXCEPT ![mem.step] = Payload]
<1>1. saved \in [CheckpointSteps -> Payloads \cup {None}]
  BY PayloadTypes DEF TypeOK, Directories
<1>2. [disk EXCEPT !.saved[mem.step] = Payload] = [disk EXCEPT !.saved = saved]
  BY DEF TypeOK, Directories
<1>3. pc = "save" /\ Continue([disk EXCEPT !.saved = saved], "point")
  BY <1>2 DEF SaveFile
<1> HIDE DEF saved
<1>4. [disk EXCEPT !.saved = saved] \in Directories
  BY <1>1 DEF TypeOK, Directories
<1>5. Continued({"saved"}, "point") /\ disk'.saved = saved
  BY <1>3, <1>4, PutContinues DEF Parts
<1> QED
  BY <1>3, <1>5 DEF saved

LEMMA PointLatestFrame ==
    ASSUME TypeOK, PointLatest, mem.step \in CheckpointSteps
    PROVE  /\ pc = "point" /\ Continued({"latest"}, "prune")
           /\ disk'.latest = [step |-> mem.step, payload |-> Payload]
<1> DEFINE latest == [step |-> mem.step, payload |-> Payload]
<1>1. latest \in Pointers
  BY PayloadTypes DEF Pointers
<1>2. pc = "point" /\ Continue([disk EXCEPT !.latest = latest], "prune")
  BY DEF PointLatest
<1> HIDE DEF latest
<1>3. [disk EXCEPT !.latest = latest] \in Directories
  BY <1>1 DEF TypeOK, Directories
<1>4. Continued({"latest"}, "prune") /\ disk'.latest = latest
  BY <1>2, <1>3, PutContinues DEF Parts
<1> QED
  BY <1>2, <1>4 DEF latest

LEMMA WriteRetiredFrame ==
    ASSUME TypeOK, WriteRetired
    PROVE  /\ pc = "retire" /\ Continued({"retired"}, "unpoint")
           /\ disk'.retired =
                [final |-> IF Steps \in SnapshotSteps THEN disk.index[Steps] ELSE None,
                 history |-> mem.lineage]
<1> DEFINE final == IF Steps \in SnapshotSteps THEN disk.index[Steps] ELSE None
           retired == [final |-> final, history |-> mem.lineage]
<1>1. final \in Lineages \cup {None}
  BY DEF TypeOK, Directories
<1>2. pc = "retire" /\ Continue([disk EXCEPT !.retired = retired], "unpoint")
  BY DEF WriteRetired
<1> HIDE DEF final
<1>3. retired \in Markers
  BY <1>1 DEF Markers, TypeOK, Processes
<1> HIDE DEF retired
<1>4. [disk EXCEPT !.retired = retired] \in Directories
  BY <1>3 DEF TypeOK, Directories
<1>5. Continued({"retired"}, "unpoint") /\ disk'.retired = retired
  BY <1>2, <1>4, PutContinues DEF Parts
<1> QED
  BY <1>2, <1>5 DEF retired, final

LEMMA RemovePointerFrame ==
    ASSUME TypeOK, RemovePointer
    PROVE  pc = "unpoint" /\ Continued({"latest"}, "unlink") /\ disk'.latest = None
<1>1. [disk EXCEPT !.latest = None] \in Directories
  BY DEF TypeOK, Directories
<1>2. pc = "unpoint" /\ Continue([disk EXCEPT !.latest = None], "unlink")
  BY DEF RemovePointer
<1> QED
  BY <1>1, <1>2, PutContinues DEF Parts

LEMMA SummaryTypes ==
    ASSUME TypeOK
    PROVE  Summary \in Summaries
<1>1. \A e \in disk.rows["metrics"] : e.row \in Rows
  BY DEF TypeOK, Directories, Streams, Entries
<1>2. FinalSummaries \in SUBSET Rows
  BY <1>1 DEF FinalSummaries, Durable
<1>3. Peak \in {None, "training", "no training"}
  BY DEF Peak
<1> QED
  BY <1>2, <1>3 DEF Summary, Summaries

LEMMA WriteSummaryFrame ==
    ASSUME TypeOK, WriteSummary
    PROVE  pc = "summary" /\ Continued({"summary"}, "status")
<1>1. pc = "summary" /\ Continue([disk EXCEPT !.summary = Summary], "status")
  BY DEF WriteSummary
<1>2. [disk EXCEPT !.summary = Summary] \in Directories
  BY SummaryTypes DEF TypeOK, Directories
<1> QED
  BY <1>1, <1>2, PutContinues DEF Parts

LEMMA WriteStatusFrame ==
    ASSUME TypeOK, WriteStatus
    PROVE  pc = "status" /\ Continued({"status"}, "attest") /\ disk'.status = "complete"
<1>1. pc = "status" /\ Continue([disk EXCEPT !.status = "complete"], "attest")
  BY DEF WriteStatus
<1>2. [disk EXCEPT !.status = "complete"] \in Directories
  BY DEF TypeOK, Directories
<1> QED
  BY <1>1, <1>2, PutContinues DEF Parts

LEMMA AttestFrame ==
    ASSUME TypeOK, Attest
    PROVE  pc = "attest" /\ Continued({"completion"}, "complete") /\ Terminated
<1>1. pc = "attest" /\ Continue([disk EXCEPT !.completion = Contents], "complete") /\ Terminated
  BY DEF Attest
<1>2. [disk EXCEPT !.completion = Contents] \in Directories
  BY DEF TypeOK, Directories, Contents
<1> QED
  BY <1>1, <1>2, PutContinues DEF Parts

LEMMA WriteCompleteFrame ==
    ASSUME TypeOK, WriteComplete
    PROVE  /\ pc = "complete" /\ disk' \in Directories /\ Differs(disk', disk, {"files"})
           /\ pc' = "down" /\ mem' = Lost /\ UNCHANGED attempt
<1>1. disk' = [disk EXCEPT !.files = @ \cup {"COMPLETE"}]
  BY DEF WriteComplete
<1>2. disk' \in Directories
  BY <1>1 DEF TypeOK, Directories
<1>3. Differs(disk', disk, {"files"})
  BY <1>1, DirectoryParts DEF Differs, TypeOK
<1> QED
  BY <1>2, <1>3 DEF WriteComplete, Gone

-------------------------------------------------------------------------------
\* The type invariant.

\* The steps that a process makes between two streams or places.
LEMMA AppendSteps ==
    ASSUME TypeOK, AppendMetrics \/ AppendPredictions \/ CollectRows
    PROVE  \/ pc = "evaluate" /\ EvaluationDue /\ AppendBatch("metrics", EvaluationMetrics, "predict")
           \/ pc = "predict" /\ AppendBatch("predictions", EvaluationRows, "evaluated")
           \/ pc = "loop" /\ ~Remaining /\ AppendBatch("metrics", OptimizationRows, "result")
BY DEF AppendMetrics, AppendPredictions, CollectRows

LEMMA AppendingFrame ==
    ASSUME TypeOK, AppendMetrics \/ AppendPredictions \/ CollectRows
    PROVE  \/ Ended({"rows", "tail", "last"}) /\ attempt' = attempt + 1
           \/ pc = "evaluate" /\ EvaluationDue /\ Continued({"rows", "tail", "last"}, "predict")
           \/ pc = "predict" /\ Continued({"rows", "tail", "last"}, "evaluated")
           \/ pc = "loop" /\ ~Remaining /\ Continued({"rows", "tail", "last"}, "result")
<1>1. "metrics" \in Streams /\ "predictions" \in Streams
  BY DEF Streams
<1>2. CASE pc = "evaluate" /\ EvaluationDue /\ AppendBatch("metrics", EvaluationMetrics, "predict")
  <2>1. pc \in Appending
    BY <1>2 DEF Appending
  <2> QED
    BY <1>1, <1>2, <2>1, BatchTypes, AppendFrame
<1>3. CASE pc = "predict" /\ AppendBatch("predictions", EvaluationRows, "evaluated")
  <2>1. pc \in Appending
    BY <1>3 DEF Appending
  <2> QED
    BY <1>1, <1>3, <2>1, BatchTypes, AppendFrame
<1>4. CASE pc = "loop" /\ ~Remaining /\ AppendBatch("metrics", OptimizationRows, "result")
  <2>1. pc \in Appending
    BY <1>4 DEF Appending
  <2> QED
    BY <1>1, <1>4, <2>1, BatchTypes, AppendFrame
<1> QED
  BY <1>2, <1>3, <1>4, AppendSteps

\* Every step that leaves the process's memory alone or ends the process.
LEMMA Typed ==
    ASSUME TypeOK, UNCHANGED machine,
           \/ \E parts \in SUBSET Parts : Ended(parts)
           \/ \E parts \in SUBSET Parts, next \in Places : Continued(parts, next)
    PROVE  TypeOK'
<1>1. Lost \in Processes
  BY Numbers DEF Lost, Blank, Processes, Lineages
<1>2. "down" \in Places
  BY DEF Places
<1> QED
  BY <1>1, <1>2 DEF TypeOK, Ended, Continued

-------------------------------------------------------------------------------
\* The trajectory.

\* The step leaves what the trajectory is read from.
SameTrajectory ==
    /\ disk'.latest = disk.latest /\ disk'.snapshot = disk.snapshot
    /\ disk'.index = disk.index /\ disk'.retired = disk.retired

LEMMA SameWithout ==
    ASSUME NEW parts, Differs(disk', disk, parts),
           parts \subseteq {"files", "rows", "tail", "last", "saved", "status", "summary", "completion"}
    PROVE  /\ SameTrajectory
           /\ "saved" \notin parts => disk'.saved = disk.saved
           /\ "status" \notin parts => disk'.status = disk.status
           /\ "files" \notin parts => (Sealed' <=> Sealed)
BY DEF Differs, Parts, SameTrajectory, Sealed

LEMMA SameLatest ==
    ASSUME LatestInv, SameTrajectory, Kept
    PROVE  LatestInv'
BY DEF LatestInv, SameTrajectory, Kept, Prefix

\* A process that is gone leaves the trajectory to the next.
LEMMA GoneKeepsIt ==
    ASSUME TrajectoryInv, TypeOK', SameTrajectory, Kept, pc' = "down",
           mem'.start = 0, mem'.step = 0, mem'.lineage = Blank, mem'.emitted = {},
           disk'.status \in {disk.status, "failed"},
           Sealed' => Sealed \/ pc = "complete"
    PROVE  TrajectoryInv'
<1>1. StartInv'
  <2>1. disk.status # None => disk'.status # None
    BY NoneIsNothing
  <2> QED
    BY <2>1 DEF TrajectoryInv, StartInv, SameTrajectory
<1>2. MemInv' /\ PlaceInv' /\ FileInv' /\ ContinuesInv' /\ SnapshotInv'
  BY DEF MemInv, PlaceInv, FileInv, ContinuesInv, SnapshotInv, Training, Trained
<1>3. LatestInv'
  BY SameLatest DEF TrajectoryInv
<1>4. RetiredInv'
  BY DEF TrajectoryInv, RetiredInv, SameTrajectory, Prefix, Training
<1>5. SealInv'
  BY DEF TrajectoryInv, SealInv, SameTrajectory, Finishing
<1> QED
  BY <1>1, <1>2, <1>3, <1>4, <1>5 DEF TrajectoryInv

\* A process that holds no model goes on.
LEMMA FinishingKeepsIt ==
    ASSUME TrajectoryInv, TypeOK', SameTrajectory, Kept, Sealed' <=> Sealed,
           pc' \in Finishing,
           pc \in Finishing \cup {"recovered", "unlink"} \/ (pc = "result" /\ CheckpointSteps = {}),
           disk'.status # None
    PROVE  TrajectoryInv'
<1>1. StartInv'
  BY DEF StartInv, Finishing
<1>2. MemInv' /\ PlaceInv' /\ FileInv' /\ ContinuesInv' /\ SnapshotInv'
  BY DEF MemInv, PlaceInv, FileInv, ContinuesInv, SnapshotInv, Training, Trained, Finishing
<1>3. LatestInv'
  BY SameLatest DEF TrajectoryInv
<1>4. RetiredInv'
  BY DEF TrajectoryInv, RetiredInv, SameTrajectory, Prefix, Training, Trained, Finishing
<1>5. SealInv'
  BY DEF TrajectoryInv, SealInv, SameTrajectory, Finishing
<1> QED
  BY <1>1, <1>2, <1>3, <1>4, <1>5 DEF TrajectoryInv

\* A process that holds one goes on, with the same hooks behind it.
LEMMA TrainingKeepsIt ==
    ASSUME TrajectoryInv, TypeOK', PlaceInv', SameTrajectory, Kept, Sealed' <=> Sealed,
           disk'.status = disk.status, UNCHANGED <<mem, attempt>>,
           pc \in Training \ {"unpoint", "unlink"}, pc' \in Training \ {"point", "unpoint", "unlink"},
           \A t \in EvalSteps : EvaluationBehind(t)' <=> EvaluationBehind(t),
           \A t \in CheckpointSteps \cup SnapshotSteps :
             /\ CheckpointBehind(t)' <=> CheckpointBehind(t)
             /\ Pointed(t)' <=> Pointed(t),
           \A t \in SnapshotSteps :
             /\ SnapshotNamed(t)' <=> SnapshotNamed(t)
             /\ SnapshotTaken(t)' <=> SnapshotTaken(t)
    PROVE  TrajectoryInv'
<1>1. StartInv'
  BY DEF TrajectoryInv, StartInv, SameTrajectory, Training, Trained
<1>2. MemInv'
  BY DEF TrajectoryInv, MemInv
<1>3. LatestInv'
  BY SameLatest DEF TrajectoryInv
<1>4. FileInv'
  BY DEF FileInv
<1>5. ContinuesInv'
  <2>1. disk.latest # None => disk.latest.step \in CheckpointSteps
    BY DEF TrajectoryInv, TypeOK, Directories, Pointers
  <2>2. disk'.latest = disk.latest /\ mem' = mem
    BY DEF SameTrajectory
  <2>3. disk'.latest # None =>
          /\ mem'.start <= disk'.latest.step /\ disk'.latest.step <= mem'.step
          /\ \A t \in 1 .. disk'.latest.step : mem'.lineage[t] = disk'.latest.payload.lineage[t]
    BY <2>2 DEF TrajectoryInv, ContinuesInv
  <2>4. (disk.latest # None => CheckpointBehind(disk.latest.step) \/ Pointed(disk.latest.step))'
    <3>1. SUFFICES ASSUME disk.latest # None
                   PROVE  (CheckpointBehind(disk.latest.step) \/ Pointed(disk.latest.step))'
      BY <2>2
    <3>2. CheckpointBehind(disk.latest.step) \/ Pointed(disk.latest.step)
      BY <3>1 DEF TrajectoryInv, ContinuesInv
    <3> QED
      BY <2>1, <2>2, <3>1, <3>2 DEF CheckpointBehind, Pointed, AtStart
  <2>5. \A t \in CheckpointSteps :
           (CheckpointBehind(t)' /\ pc' # "unlink") \/ Pointed(t)' =>
             disk'.latest # None /\ t <= disk'.latest.step
    BY <2>2 DEF TrajectoryInv, ContinuesInv
  <2> QED
    BY <2>3, <2>4, <2>5 DEF ContinuesInv
<1>6. SnapshotInv'
  BY DEF TrajectoryInv, SnapshotInv, SameTrajectory, Prefix
<1>7. RetiredInv'
  BY DEF TrajectoryInv, RetiredInv, SameTrajectory, Prefix
<1>8. SealInv'
  BY DEF TrajectoryInv, SealInv, Training, Trained, Finishing
<1> QED
  BY <1>1, <1>2, <1>3, <1>4, <1>5, <1>6, <1>7, <1>8 DEF TrajectoryInv

\* A step that ends the process, one part of whose work may be done.
LEMMA EndedKeepsIt ==
    ASSUME TrajectoryInv, UNCHANGED machine, Kept, NEW parts, Ended(parts),
           parts \subseteq {"files", "rows", "tail", "last", "saved"},
           "files" \in parts => (Sealed' <=> Sealed)
    PROVE  TrajectoryInv'
<1>1. parts \cup {"status"} \subseteq Parts /\ Differs(disk', disk, parts \cup {"status"})
  BY DEF Ended, Parts
<1>2. SameTrajectory /\ (Sealed' <=> Sealed)
  BY <1>1, SameWithout
<1>3. TypeOK'
  BY <1>1, Typed DEF TrajectoryInv
<1>4. /\ mem'.start = 0 /\ mem'.step = 0 /\ mem'.lineage = Blank /\ mem'.emitted = {}
      /\ pc' = "down" /\ disk'.status \in {disk.status, "failed"}
  BY DEF Ended, Lost
<1> QED
  BY <1>2, <1>3, <1>4, GoneKeepsIt

LEMMA KeptWithout ==
    ASSUME NEW parts, "saved" \notin parts, Differs(disk', disk, parts)
    PROVE  Kept
BY DEF Differs, Parts, Kept

\* Interruptions that no file can show.
LEMMA StopsKeepIt ==
    ASSUME TrajectoryInv, UNCHANGED machine,
           Crash \/ ResultRaises \/ SummaryRaises \/ AttestRaises
    PROVE  TrajectoryInv'
<1>1. Ended({})
  BY CrashFrame, RaiseFrame DEF TrajectoryInv, ResultRaises, SummaryRaises, AttestRaises
<1>2. Kept
  BY <1>1, KeptWithout DEF Ended
<1> QED
  BY <1>1, <1>2, EndedKeepsIt

LEMMA InitializeKeepsIt ==
    ASSUME TrajectoryInv, UNCHANGED machine, Initialize
    PROVE  TrajectoryInv'
<1> USE DEF TrajectoryInv
<1>1. disk' \in Directories /\ ~Sealed /\ ~Sealed' /\ pc = "down"
  BY InitializeFrame
<1>2. mem.start = 0 /\ mem.step = 0 /\ mem.lineage = Blank /\ mem.emitted = {}
  BY <1>1 DEF StartInv
<1>3. CASE /\ Differs(disk', disk, {"files"})
           /\ UNCHANGED <<mem, pc>>
           /\ attempt' = attempt + 1 /\ attempt' \in 1 .. MaxInterruptions + 1
  <2>1. SameTrajectory /\ Kept /\ disk'.status = disk.status
    BY <1>3, SameWithout, KeptWithout
  <2>2. TypeOK'
    BY <1>1, <1>3 DEF TypeOK
  <2> QED
    BY <1>1, <1>2, <1>3, <2>1, <2>2, GoneKeepsIt
<1>4. CASE /\ Differs(disk', disk, {"files", "tail", "status"})
           /\ disk'.status = "running"
           /\ mem' = [mem EXCEPT !.resumed = disk.status # None]
           /\ pc' = "manifests" /\ UNCHANGED attempt
  <2>1. SameTrajectory /\ Kept
    BY <1>4, SameWithout, KeptWithout
  <2>2. /\ mem' \in Processes /\ mem'.resumed = (disk.status # None)
        /\ mem'.start = 0 /\ mem'.step = 0 /\ mem'.lineage = Blank /\ mem'.emitted = {}
    BY <1>2, <1>4 DEF TypeOK, Processes
  <2>3. "manifests" \in Places
    BY DEF Places
  <2>4. TypeOK'
    BY <1>1, <1>4, <2>2, <2>3 DEF TypeOK
  <2>5. StartInv'
    <3>1. disk'.status # None
      BY <1>4, NoneIsNothing
    <3> QED
      BY <1>4, <2>1, <2>2, <3>1 DEF StartInv, SameTrajectory
  <2>6. MemInv' /\ PlaceInv' /\ FileInv' /\ ContinuesInv' /\ SnapshotInv'
    BY <1>4 DEF MemInv, PlaceInv, FileInv, ContinuesInv, SnapshotInv, Training, Trained
  <2>7. LatestInv'
    BY <2>1, SameLatest
  <2>8. RetiredInv'
    BY <1>4, <2>1 DEF RetiredInv, SameTrajectory, Prefix, Training, Trained
  <2>9. SealInv'
    BY <1>1, <1>4, <2>1 DEF SealInv, SameTrajectory, Finishing
  <2> QED
    BY <2>4, <2>5, <2>6, <2>7, <2>8, <2>9
<1> QED
  BY <1>3, <1>4, InitializeFrame

LEMMA RecordManifestsKeepsIt ==
    ASSUME TrajectoryInv, UNCHANGED machine, RecordManifests
    PROVE  TrajectoryInv'
<1> USE DEF TrajectoryInv
<1>1. pc = "manifests" /\ (Sealed' <=> Sealed)
  BY RecordManifestsFrame
<1>2. CASE Ended({"files"})
  <2>1. Kept
    BY <1>2, KeptWithout DEF Ended
  <2> QED
    BY <1>1, <1>2, <2>1, EndedKeepsIt
<1>3. CASE Continued({"files"}, "restore")
  <2>1. /\ Differs(disk', disk, {"files"}) /\ pc' = "restore"
        /\ mem' = mem /\ attempt' = attempt
    BY <1>3 DEF Continued
  <2>2. SameTrajectory /\ Kept /\ disk'.status = disk.status
    BY <2>1, SameWithout, KeptWithout
  <2>3. TypeOK'
    BY <1>3, Typed DEF Parts, Places
  <2>4. StartInv'
    BY <1>1, <2>1, <2>2 DEF StartInv, SameTrajectory
  <2>5. MemInv' /\ PlaceInv' /\ FileInv' /\ ContinuesInv' /\ SnapshotInv'
    BY <2>1 DEF MemInv, PlaceInv, FileInv, ContinuesInv, SnapshotInv, Training, Trained
  <2>6. LatestInv'
    BY <2>2, SameLatest
  <2>7. RetiredInv'
    BY <2>1, <2>2 DEF RetiredInv, SameTrajectory, Prefix, Training, Trained
  <2>8. SealInv'
    BY <1>1, <2>1, <2>2 DEF SealInv, SameTrajectory, Finishing
  <2> QED
    BY <2>3, <2>4, <2>5, <2>6, <2>7, <2>8
<1> QED
  BY <1>2, <1>3, RecordManifestsFrame

LEMMA RecoverKeepsIt ==
    ASSUME TrajectoryInv, UNCHANGED machine, Recover
    PROVE  TrajectoryInv'
<1> USE DEF TrajectoryInv
<1>1. pc = "restore" /\ disk.latest = None /\ disk.retired # None
  BY RecoverFrame DEF Recovers
<1>2. CASE Ended({"saved"})
  <2>1. Kept
    BY <1>1 DEF Kept
  <2> QED
    BY <1>2, <2>1, EndedKeepsIt
<1>3. CASE /\ disk' \in Directories /\ Differs(disk', disk, {"saved"})
           /\ mem' = [mem EXCEPT !.start = Steps, !.step = Steps]
           /\ pc' = "recovered" /\ UNCHANGED attempt
  <2>1. SameTrajectory /\ Kept /\ disk'.status = disk.status /\ (Sealed' <=> Sealed)
    BY <1>1, <1>3, SameWithout DEF Kept
  <2>2. mem' \in Processes
    BY <1>3, Numbers DEF TypeOK, Processes
  <2>3. TypeOK'
    BY <1>3, <2>2 DEF TypeOK, Places
  <2>4. StartInv'
    BY <1>1, <1>3, <2>1 DEF StartInv, SameTrajectory
  <2>5. MemInv' /\ PlaceInv' /\ FileInv' /\ ContinuesInv' /\ SnapshotInv'
    BY <1>3 DEF MemInv, PlaceInv, FileInv, ContinuesInv, SnapshotInv, Training, Trained
  <2>6. LatestInv'
    BY <2>1, SameLatest
  <2>7. RetiredInv'
    BY <1>3, <2>1 DEF RetiredInv, SameTrajectory, Prefix, Training, Trained
  <2>8. SealInv'
    BY <1>1, <1>3, <2>1 DEF SealInv, SameTrajectory, Finishing
  <2> QED
    BY <2>3, <2>4, <2>5, <2>6, <2>7, <2>8
<1> QED
  BY <1>2, <1>3, RecoverFrame

\* A run that begins has no model; one that goes on has the checkpoint's.
LEMMA RestoreKeepsIt ==
    ASSUME TrajectoryInv, UNCHANGED machine, Restore
    PROVE  TrajectoryInv'
<1> USE DEF TrajectoryInv
<1>1. pc = "restore"
  BY DEF Restore
<1>2. disk.latest # None \/ disk.retired # None => mem.resumed
  BY <1>1 DEF StartInv
<1>3. Kept /\ ~Recovers
  BY <1>2, RestoreFrame
<1>4. mem.start = 0 /\ mem.step = 0 /\ mem.lineage = Blank /\ mem.emitted = {}
  BY <1>1 DEF StartInv
<1>5. CASE Ended({"saved"})
  BY <1>3, <1>5, EndedKeepsIt
<1>6. CASE /\ disk' \in Directories /\ Differs(disk', disk, {"saved"})
           /\ mem' = Loaded /\ pc' = "evaluate" /\ UNCHANGED attempt
  <2>1. SameTrajectory /\ disk'.status = disk.status /\ (Sealed' <=> Sealed)
    BY <1>6, SameWithout
  <2>2. TypeOK'
    BY <1>6, LoadedFrame DEF TypeOK, Places
  <2>3. StartInv'
    BY <1>1, <1>6, <2>1 DEF StartInv, SameTrajectory
  <2>4. PlaceInv' /\ FileInv'
    BY <1>6 DEF PlaceInv, FileInv, Trained
  <2>5. LatestInv'
    BY <1>3, <2>1, SameLatest
  <2>6. SealInv'
    BY <1>1, <1>6, <2>1 DEF SealInv, SameTrajectory, Finishing
  <2>7. CASE disk.latest # None
    <3> DEFINE at == disk.latest.step
    <3>1. /\ mem'.start = at /\ mem'.step = at
          /\ mem'.lineage = disk.latest.payload.lineage
          /\ mem'.emitted = disk.latest.payload.emitted
      BY <1>2, <1>6, <2>7, LoadedFrame
    <3>2. at \in CheckpointSteps /\ at \in 0 .. Steps /\ 0 < at
      <4>1. at \in CheckpointSteps
        BY <2>7 DEF TypeOK, Directories, Pointers
      <4> QED
        BY <4>1, StepNumbers
    <3> HIDE DEF at
    <3>3. /\ \A t \in EvalSteps : EvaluationBehind(t)' <=> t <= at
          /\ \A t \in CheckpointSteps \cup SnapshotSteps : CheckpointBehind(t)' <=> t <= at
      BY <1>6, <3>1, <3>2, StepNumbers DEF EvaluationBehind, CheckpointBehind, AtStart
    <3>4. MemInv'
      <4>1. /\ \A t \in EvalSteps : <<"evaluate", t>> \in mem'.emitted <=> t <= at
            /\ \A t \in CheckpointSteps \cup SnapshotSteps :
                  <<"checkpoint", t>> \in mem'.emitted <=> t <= at
            /\ \A t \in 1 .. Steps : mem'.lineage[t] > 0 <=> t <= at
        BY <2>7, <3>1 DEF LatestInv, at
      <4>2. \A t \in 1 .. Steps : ~(mem'.start < t /\ t <= mem'.step)
        BY <3>1, <3>2, Numbers
      <4> QED
        BY <3>1, <3>2, <3>3, <4>1, <4>2 DEF MemInv
    <3>5. ContinuesInv'
      <4>1. disk'.latest = disk.latest
        BY <2>1 DEF SameTrajectory
      <4>2. (CheckpointBehind(disk.latest.step))'
        BY <3>1, <3>2, <4>1 DEF CheckpointBehind, AtStart, at
      <4>3. \A t \in CheckpointSteps : ~Pointed(t)'
        BY <1>6 DEF Pointed
      <4> QED
        BY <2>7, <3>1, <3>2, <3>3, <4>1, <4>2, <4>3 DEF ContinuesInv, at
    <3>6. SnapshotInv'
      <4>1. \A t \in SnapshotSteps : ~SnapshotNamed(t)' /\ ~SnapshotTaken(t)'
        BY <1>6 DEF SnapshotNamed, SnapshotTaken
      <4> QED
        BY <2>1, <2>7, <3>1, <3>3, <4>1 DEF SnapshotInv, LatestInv, SameTrajectory, Prefix, at
    <3>7. RetiredInv'
      BY <1>6, <2>1, <2>7, <3>1 DEF RetiredInv, SameTrajectory, Prefix, at
    <3> QED
      BY <2>2, <2>3, <2>4, <2>5, <2>6, <3>4, <3>5, <3>6, <3>7
  <2>8. CASE disk.latest = None
    <3>1. mem'.start = 0 /\ mem'.step = 0 /\ mem'.lineage = Blank /\ mem'.emitted = {}
      BY <1>4, <1>6, <2>8, LoadedFrame
    <3>2. disk.retired = None
      BY <1>2, <1>3, <2>8 DEF Recovers
    <3>3. /\ \A t \in EvalSteps : ~EvaluationBehind(t)'
          /\ \A t \in CheckpointSteps \cup SnapshotSteps : ~CheckpointBehind(t)'
      BY <1>6, <3>1, Numbers DEF EvaluationBehind, CheckpointBehind, AtStart, Trained
    <3>4. MemInv'
      <4>1. \A t \in 1 .. Steps : mem'.lineage[t] = 0 /\ ~(t <= mem'.step)
        BY <3>1, Numbers DEF Blank
      <4> QED
        BY <3>1, <3>3, <4>1 DEF MemInv
    <3>5. disk'.latest = None
      BY <2>1, <2>8 DEF SameTrajectory
    <3>6. ContinuesInv'
      BY <1>6, <3>3, <3>5 DEF ContinuesInv, Pointed
    <3>7. SnapshotInv'
      BY <1>6, <3>3 DEF SnapshotInv, SnapshotNamed, SnapshotTaken
    <3>8. RetiredInv'
      BY <2>1, <3>2 DEF RetiredInv, SameTrajectory
    <3> QED
      BY <2>2, <2>3, <2>4, <2>5, <2>6, <3>4, <3>6, <3>7, <3>8
  <2> QED
    BY <2>7, <2>8
<1> QED
  BY <1>2, <1>5, <1>6, RestoreFrame

-------------------------------------------------------------------------------
\* The hooks and the trajectory.

LEMMA MemTypes ==
    ASSUME TypeOK
    PROVE  /\ mem.start \in 0 .. Steps /\ mem.step \in 0 .. Steps /\ mem.lineage \in Lineages
           /\ mem.start \in Nat /\ mem.step \in Nat /\ attempt \in Nat /\ attempt > 0
           /\ \A t \in 1 .. Steps : mem.lineage[t] \in Nat
<1>1. mem.start \in 0 .. Steps /\ mem.step \in 0 .. Steps /\ mem.lineage \in Lineages
  BY DEF TypeOK, Processes
<1>2. \A t \in 1 .. Steps : mem.lineage[t] \in 0 .. MaxInterruptions + 1
  BY <1>1 DEF Lineages
<1>3. attempt \in Nat /\ attempt > 0
  BY Numbers DEF TypeOK
<1> QED
  BY <1>1, <1>2, <1>3, Numbers

LEMMA SameLineage ==
    ASSUME NEW f \in Lineages, NEW g \in Lineages, \A t \in 1 .. Steps : f[t] = g[t]
    PROVE  f = g
<1>1. f = [t \in 1 .. Steps |-> f[t]] /\ g = [t \in 1 .. Steps |-> g[t]]
  BY DEF Lineages
<1> QED
  BY <1>1, Zenon

\* A process whose next checkpoint is due is ahead of the last one.
LEMMA AheadOfCheckpoint ==
    ASSUME TrajectoryInv, pc \in {"evaluate", "predict", "evaluated", "checkpoint", "index", "save", "point"}, ~AtStart
    PROVE  /\ disk.retired = None
           /\ disk.latest # None =>
                disk.latest.step \in CheckpointSteps /\ disk.latest.step < mem.step
<1>1. pc \in Training /\ pc \notin {"unpoint", "unlink"}
  BY DEF Training
<1>2. disk.retired = None
  <2>1. SUFFICES ASSUME disk.retired # None PROVE FALSE
    OBVIOUS
  <2>2. mem.start = Steps
    BY <1>1, <2>1 DEF TrajectoryInv, RetiredInv
  <2>3. mem.start <= mem.step
    BY <1>1 DEF TrajectoryInv, MemInv
  <2> QED
    BY <2>2, <2>3, MemTypes, Numbers DEF TrajectoryInv, AtStart
<1>3. SUFFICES ASSUME disk.latest # None
               PROVE  disk.latest.step \in CheckpointSteps /\ disk.latest.step < mem.step
  BY <1>2
<1>4. disk.latest.step \in CheckpointSteps
  BY <1>3 DEF TrajectoryInv, TypeOK, Directories, Pointers
<1>5. CheckpointBehind(disk.latest.step)
  BY <1>1, <1>3 DEF TrajectoryInv, ContinuesInv, Pointed
<1> QED
  BY <1>4, <1>5 DEF CheckpointBehind, Trained

\* A hook that is due is not the resumed process's first.
LEMMA DueIsNotAtStart ==
    ASSUME TrajectoryInv
    PROVE  /\ pc = "evaluate" /\ EvaluationDue => mem.step \in EvalSteps /\ ~AtStart
           /\ pc = "evaluate" /\ ~EvaluationDue => mem.step \notin EvalSteps \/ AtStart
           /\ pc = "checkpoint" /\ CheckpointDue =>
                mem.step \in CheckpointSteps \cup SnapshotSteps /\ ~AtStart
           /\ pc = "checkpoint" /\ ~CheckpointDue =>
                mem.step \notin CheckpointSteps \cup SnapshotSteps \/ AtStart
<1>1. pc = "evaluate" /\ mem.step \in EvalSteps =>
        (<<"evaluate", mem.step>> \in mem.emitted <=> AtStart)
  <2>1. SUFFICES ASSUME pc = "evaluate", mem.step \in EvalSteps
                 PROVE  <<"evaluate", mem.step>> \in mem.emitted <=> AtStart
    OBVIOUS
  <2>2. <<"evaluate", mem.step>> \in mem.emitted <=> EvaluationBehind(mem.step)
    BY <2>1 DEF TrajectoryInv, MemInv, Training
  <2> QED
    BY <2>1, <2>2, MemTypes DEF EvaluationBehind, TrajectoryInv
<1>2. pc = "checkpoint" /\ mem.step \in CheckpointSteps \cup SnapshotSteps =>
        (<<"checkpoint", mem.step>> \in mem.emitted <=> AtStart)
  <2>1. SUFFICES ASSUME pc = "checkpoint", mem.step \in CheckpointSteps \cup SnapshotSteps
                 PROVE  <<"checkpoint", mem.step>> \in mem.emitted <=> AtStart
    OBVIOUS
  <2>2. <<"checkpoint", mem.step>> \in mem.emitted <=> CheckpointBehind(mem.step)
    BY <2>1 DEF TrajectoryInv, MemInv, Training
  <2> QED
    BY <2>1, <2>2, MemTypes DEF CheckpointBehind, TrajectoryInv, Trained
<1> QED
  BY <1>1, <1>2 DEF EvaluationDue, CheckpointDue

LEMMA SkipHookKeepsIt ==
    ASSUME TrajectoryInv, UNCHANGED machine, SkipHook
    PROVE  TrajectoryInv'
<1> USE DEF TrajectoryInv
<1>1. /\ disk' = disk /\ mem' = mem /\ attempt' = attempt
      /\ \/ pc = "evaluate" /\ ~EvaluationDue /\ pc' = "checkpoint"
         \/ pc = "checkpoint" /\ ~CheckpointDue /\ pc' = "loop"
  BY DEF SkipHook, Continue
<1>2. SameTrajectory /\ Kept /\ (Sealed' <=> Sealed) /\ disk'.status = disk.status
  BY <1>1 DEF SameTrajectory, Kept, Sealed
<1>3. TypeOK'
  BY <1>1 DEF TypeOK, Places
<1>4. PlaceInv'
  BY <1>1 DEF PlaceInv, Trained
<1>5. \A t \in EvalSteps : EvaluationBehind(t)' <=> EvaluationBehind(t)
  BY <1>1, DueIsNotAtStart DEF EvaluationBehind, AtStart
<1>6. \A t \in CheckpointSteps \cup SnapshotSteps : CheckpointBehind(t)' <=> CheckpointBehind(t)
  BY <1>1, DueIsNotAtStart DEF CheckpointBehind, AtStart, Trained
<1>7. \A t \in CheckpointSteps \cup SnapshotSteps :
        /\ ~Pointed(t) /\ ~SnapshotNamed(t) /\ ~SnapshotTaken(t)
        /\ ~Pointed(t)' /\ ~SnapshotNamed(t)' /\ ~SnapshotTaken(t)'
  BY <1>1 DEF Pointed, SnapshotNamed, SnapshotTaken
<1>8. pc \in Training \ {"unpoint", "unlink"} /\ pc' \in Training \ {"point", "unpoint", "unlink"}
  BY <1>1 DEF Training
<1> QED
  BY <1>1, <1>2, <1>3, <1>4, <1>5, <1>6, <1>7, <1>8, TrainingKeepsIt

LEMMA AppendingKeepsIt ==
    ASSUME TrajectoryInv, UNCHANGED machine, AppendMetrics \/ AppendPredictions \/ CollectRows
    PROVE  TrajectoryInv'
<1> USE DEF TrajectoryInv
<1>1. CASE Ended({"rows", "tail", "last"})
  <2>1. Kept
    BY <1>1, KeptWithout DEF Ended
  <2> QED
    BY <1>1, <2>1, EndedKeepsIt
<1>2. CASE \/ pc = "evaluate" /\ EvaluationDue /\ Continued({"rows", "tail", "last"}, "predict")
           \/ pc = "predict" /\ Continued({"rows", "tail", "last"}, "evaluated")
           \/ pc = "loop" /\ ~Remaining /\ Continued({"rows", "tail", "last"}, "result")
  <2>1. /\ Differs(disk', disk, {"rows", "tail", "last"}) /\ mem' = mem /\ attempt' = attempt
        /\ disk' \in Directories
        /\ \/ pc = "evaluate" /\ EvaluationDue /\ pc' = "predict"
           \/ pc = "predict" /\ pc' = "evaluated"
           \/ pc = "loop" /\ ~Remaining /\ pc' = "result"
    BY <1>2 DEF Continued
  <2>2. SameTrajectory /\ Kept /\ (Sealed' <=> Sealed) /\ disk'.status = disk.status
    BY <2>1, SameWithout, KeptWithout
  <2>3. TypeOK'
    BY <2>1 DEF TypeOK, Places
  <2>4. PlaceInv'
    <3>1. pc = "evaluate" => mem.step \in EvalSteps /\ ~AtStart
      BY <2>1, DueIsNotAtStart
    <3>2. pc = "loop" => mem.step = Steps
      BY <2>1, MemTypes, Numbers DEF Remaining
    <3> QED
      BY <2>1, <3>1, <3>2 DEF PlaceInv, Trained, AtStart
  <2>5. \A t \in EvalSteps : EvaluationBehind(t)' <=> EvaluationBehind(t)
    BY <2>1 DEF EvaluationBehind, AtStart
  <2>6. \A t \in CheckpointSteps \cup SnapshotSteps : CheckpointBehind(t)' <=> CheckpointBehind(t)
    BY <2>1 DEF CheckpointBehind, AtStart, Trained
  <2>7. \A t \in CheckpointSteps \cup SnapshotSteps :
          /\ ~Pointed(t) /\ ~SnapshotNamed(t) /\ ~SnapshotTaken(t)
          /\ ~Pointed(t)' /\ ~SnapshotNamed(t)' /\ ~SnapshotTaken(t)'
    BY <2>1 DEF Pointed, SnapshotNamed, SnapshotTaken
  <2>8. pc \in Training \ {"unpoint", "unlink"} /\ pc' \in Training \ {"point", "unpoint", "unlink"}
    BY <2>1 DEF Training
  <2> QED
    BY <2>1, <2>2, <2>3, <2>4, <2>5, <2>6, <2>7, <2>8, TrainingKeepsIt
<1> QED
  BY <1>1, <1>2, AppendingFrame

LEMMA EvaluatedKeepsIt ==
    ASSUME TrajectoryInv, UNCHANGED machine, Evaluated
    PROVE  TrajectoryInv'
<1> USE DEF TrajectoryInv
<1>1. /\ pc = "evaluated" /\ pc' = "checkpoint" /\ disk' = disk /\ attempt' = attempt
      /\ mem' \in Processes
      /\ mem'.start = mem.start /\ mem'.step = mem.step /\ mem'.lineage = mem.lineage
      /\ mem'.emitted = mem.emitted \cup {<<"evaluate", mem.step>>}
  BY EmitFrame DEF Evaluated
<1>2. SameTrajectory /\ Kept
  BY <1>1 DEF SameTrajectory, Kept
<1>3. TypeOK'
  BY <1>1 DEF TypeOK, Places
<1>4. StartInv'
  BY <1>1 DEF StartInv
<1>5. PlaceInv' /\ FileInv'
  BY <1>1 DEF PlaceInv, FileInv, Trained
<1>6. LatestInv'
  BY <1>2, SameLatest
<1>7. /\ \A t \in EvalSteps : EvaluationBehind(t)' <=> EvaluationBehind(t) \/ t = mem.step
      /\ \A t \in CheckpointSteps \cup SnapshotSteps : CheckpointBehind(t)' <=> CheckpointBehind(t)
  BY <1>1 DEF EvaluationBehind, CheckpointBehind, AtStart, Trained
<1>8. MemInv'
  <2>1. /\ \A t \in EvalSteps : <<"evaluate", t>> \in mem'.emitted <=>
              <<"evaluate", t>> \in mem.emitted \/ t = mem.step
        /\ \A t \in CheckpointSteps \cup SnapshotSteps :
              <<"checkpoint", t>> \in mem'.emitted <=> <<"checkpoint", t>> \in mem.emitted
    BY <1>1
  <2> QED
    BY <1>1, <1>7, <2>1 DEF MemInv, Training
<1>9. ContinuesInv'
  BY <1>1, <1>7 DEF ContinuesInv, Training, Pointed, CheckpointBehind, AtStart, Trained
<1>10. SnapshotInv'
  BY <1>1, <1>7 DEF SnapshotInv, Training, SnapshotNamed, SnapshotTaken, Prefix
<1>11. RetiredInv'
  BY <1>1 DEF RetiredInv, Training, Prefix
<1>12. SealInv'
  BY <1>1 DEF SealInv, Finishing, Sealed
<1> QED
  BY <1>3, <1>4, <1>5, <1>6, <1>8, <1>9, <1>10, <1>11, <1>12

\* The model of a process ends with its step.
LEMMA WholeModel ==
    ASSUME TrajectoryInv, pc \in Training
    PROVE  Prefix(mem.lineage, mem.step) = mem.lineage
<1>1. \A t \in 1 .. Steps : mem.lineage[t] > 0 <=> t <= mem.step
  BY DEF TrajectoryInv, MemInv
<1>2. \A t \in 1 .. Steps : (IF t <= mem.step THEN mem.lineage[t] ELSE 0) = mem.lineage[t]
  BY <1>1, MemTypes DEF TrajectoryInv
<1>3. mem.lineage = [t \in 1 .. Steps |-> mem.lineage[t]]
  BY MemTypes DEF TrajectoryInv, Lineages
<1> QED
  BY <1>2, <1>3 DEF Prefix

LEMMA WriteSnapshotKeepsIt ==
    ASSUME TrajectoryInv, UNCHANGED machine, WriteSnapshot
    PROVE  TrajectoryInv'
<1> USE DEF TrajectoryInv
<1>1. /\ pc = "checkpoint" /\ mem.step \in CheckpointSteps \cup SnapshotSteps /\ ~AtStart
      /\ pc \in Training
  BY WriteSnapshotFrame, DueIsNotAtStart DEF Training
<1>2. CASE mem.step \notin SnapshotSteps
  <2>1. Continued({}, "save")
    BY <1>2, WriteSnapshotFrame
  <2>2. /\ disk' \in Directories /\ Differs(disk', disk, {}) /\ pc' = "save"
        /\ mem' = mem /\ attempt' = attempt
    BY <2>1 DEF Continued
  <2>3. SameTrajectory /\ Kept /\ (Sealed' <=> Sealed) /\ disk'.status = disk.status
    BY <2>2, SameWithout, KeptWithout
  <2>4. TypeOK'
    BY <2>2 DEF TypeOK, Places
  <2>5. PlaceInv'
    BY <1>1, <1>2, <2>2 DEF PlaceInv, Trained, AtStart
  <2>6. /\ \A t \in EvalSteps : EvaluationBehind(t)' <=> EvaluationBehind(t)
        /\ \A t \in CheckpointSteps \cup SnapshotSteps :
             CheckpointBehind(t)' <=> CheckpointBehind(t)
    BY <1>1, <2>2 DEF EvaluationBehind, CheckpointBehind, AtStart, Trained
  <2>7. /\ \A t \in CheckpointSteps \cup SnapshotSteps : ~Pointed(t) /\ ~Pointed(t)'
        /\ \A t \in SnapshotSteps : /\ ~SnapshotNamed(t) /\ ~SnapshotTaken(t)
                                    /\ ~SnapshotNamed(t)' /\ ~SnapshotTaken(t)'
    BY <1>1, <1>2, <2>2 DEF Pointed, SnapshotNamed, SnapshotTaken
  <2>8. pc \in Training \ {"unpoint", "unlink"} /\ pc' \in Training \ {"point", "unpoint", "unlink"}
    BY <1>1, <2>2 DEF Training
  <2> QED
    BY <2>2, <2>3, <2>4, <2>5, <2>6, <2>7, <2>8, TrainingKeepsIt
<1>3. CASE mem.step \in SnapshotSteps
  <2>1. /\ disk' \in Directories /\ Differs(disk', disk, {"snapshot"}) /\ pc' = "index"
        /\ mem' = mem /\ attempt' = attempt
        /\ disk'.snapshot = [disk.snapshot EXCEPT ![mem.step] = mem.lineage]
    BY <1>3, WriteSnapshotFrame DEF Continued
  <2>2. /\ disk'.latest = disk.latest /\ disk'.saved = disk.saved /\ disk'.index = disk.index
        /\ disk'.retired = disk.retired /\ disk'.status = disk.status /\ (Sealed' <=> Sealed)
    BY <2>1 DEF Differs, Parts, Sealed
  <2>3. DOMAIN disk.snapshot = SnapshotSteps
    BY DEF TypeOK, Directories
  <2>4. /\ disk'.snapshot[mem.step] = Prefix(mem.lineage, mem.step)
        /\ \A t \in SnapshotSteps : t # mem.step => disk'.snapshot[t] = disk.snapshot[t]
    BY <1>1, <1>3, <2>1, <2>3, WholeModel
  <2>5. /\ disk.retired = None
        /\ disk.latest # None => disk.latest.step \in CheckpointSteps /\ disk.latest.step < mem.step
    BY <1>1, AheadOfCheckpoint
  <2>6. TypeOK'
    BY <2>1 DEF TypeOK, Places
  <2>7. StartInv'
    BY <1>1, <2>1, <2>2 DEF StartInv
  <2>8. PlaceInv' /\ FileInv'
    BY <1>1, <1>3, <2>1 DEF PlaceInv, FileInv, Trained, AtStart
  <2>9. LatestInv'
    <3>1. \A t \in SnapshotSteps : disk.latest # None /\ t <= disk.latest.step => t # mem.step
      BY <2>5, StepNumbers, MemTypes
    <3> QED
      BY <2>2, <2>4, <3>1 DEF LatestInv, Prefix
  <2>10. /\ \A t \in EvalSteps : EvaluationBehind(t)' <=> EvaluationBehind(t)
         /\ \A t \in CheckpointSteps \cup SnapshotSteps :
              CheckpointBehind(t)' <=> CheckpointBehind(t)
    BY <1>1, <2>1 DEF EvaluationBehind, CheckpointBehind, AtStart, Trained
  <2>11. MemInv'
    BY <1>1, <2>1, <2>10 DEF MemInv
  <2>12. ContinuesInv'
    <3>1. (disk.latest # None => CheckpointBehind(disk.latest.step) \/ Pointed(disk.latest.step))'
      BY <2>1, <2>2, <2>5 DEF CheckpointBehind
    <3>2. \A t \in CheckpointSteps : ~Pointed(t)'
      BY <2>1 DEF Pointed
    <3> QED
      BY <1>1, <2>1, <2>2, <2>10, <3>1, <3>2 DEF ContinuesInv
  <2>13. SnapshotInv'
    <3>1. \A t \in SnapshotSteps :
            /\ ~SnapshotNamed(t)' /\ (SnapshotTaken(t)' <=> t = mem.step)
            /\ CheckpointBehind(t)' => t # mem.step
      BY <1>1, <2>1, StepNumbers, MemTypes DEF SnapshotNamed, SnapshotTaken, CheckpointBehind, AtStart, Trained
    <3>2. SUFFICES ASSUME NEW t \in SnapshotSteps, CheckpointBehind(t)' \/ SnapshotTaken(t)'
                   PROVE  /\ disk'.snapshot[t] = Prefix(mem.lineage, t)
                          /\ CheckpointBehind(t)' => disk'.index[t] = disk'.snapshot[t]
      BY <2>1, <3>1 DEF SnapshotInv
    <3>3. CASE t = mem.step
      BY <2>4, <3>1, <3>3
    <3>4. CASE t # mem.step
      <4>1. CheckpointBehind(t)
        BY <2>10, <3>1, <3>2, <3>4
      <4>2. disk.snapshot[t] = Prefix(mem.lineage, t) /\ disk.index[t] = disk.snapshot[t]
        BY <1>1, <4>1 DEF SnapshotInv
      <4> QED
        BY <2>2, <2>4, <3>4, <4>2
    <3> QED
      BY <3>3, <3>4
  <2>14. RetiredInv'
    BY <2>2, <2>5 DEF RetiredInv
  <2>15. SealInv'
    BY <1>1, <2>1, <2>2 DEF SealInv, Finishing
  <2> QED
    BY <2>6, <2>7, <2>8, <2>9, <2>11, <2>12, <2>13, <2>14, <2>15
<1> QED
  BY <1>2, <1>3

LEMMA WriteIndexKeepsIt ==
    ASSUME TrajectoryInv, UNCHANGED machine, WriteIndex
    PROVE  TrajectoryInv'
<1> USE DEF TrajectoryInv
<1>1. pc = "index" /\ mem.step \in SnapshotSteps /\ ~AtStart /\ pc \in Training
  BY DEF WriteIndex, PlaceInv, Training
<1>2. /\ disk' \in Directories /\ Differs(disk', disk, {"index"})
      /\ pc' = IF mem.step \in CheckpointSteps THEN "save" ELSE "checkpointed"
      /\ mem' = mem /\ attempt' = attempt
      /\ disk'.index = [disk.index EXCEPT ![mem.step] = mem.lineage]
  BY <1>1, WriteIndexFrame DEF Continued
<1>3. /\ disk'.latest = disk.latest /\ disk'.saved = disk.saved
      /\ disk'.snapshot = disk.snapshot
      /\ disk'.retired = disk.retired /\ disk'.status = disk.status /\ (Sealed' <=> Sealed)
  BY <1>2 DEF Differs, Parts, Sealed
<1>4. disk.snapshot[mem.step] = mem.lineage
  BY <1>1, WholeModel DEF SnapshotInv, SnapshotTaken
<1>5. DOMAIN disk.index = SnapshotSteps
  BY DEF TypeOK, Directories
<1>6. /\ disk'.index[mem.step] = disk'.snapshot[mem.step]
      /\ \A t \in SnapshotSteps : t # mem.step => disk'.index[t] = disk.index[t]
  BY <1>1, <1>2, <1>3, <1>4, <1>5
<1>7. /\ disk.retired = None
      /\ disk.latest # None => disk.latest.step \in CheckpointSteps /\ disk.latest.step < mem.step
  BY <1>1, AheadOfCheckpoint
<1>8. TypeOK'
  BY <1>2 DEF TypeOK, Places
<1>9. StartInv'
  BY <1>1, <1>2, <1>3 DEF StartInv
<1>10. PlaceInv' /\ FileInv'
  BY <1>1, <1>2 DEF PlaceInv, FileInv, Trained, AtStart
<1>11. LatestInv'
  <2>1. \A t \in SnapshotSteps : disk.latest # None /\ t <= disk.latest.step => t # mem.step
    BY <1>7, StepNumbers, MemTypes
  <2> QED
    BY <1>3, <1>6, <2>1 DEF LatestInv, Prefix
<1>12. /\ \A t \in EvalSteps : EvaluationBehind(t)' <=> EvaluationBehind(t)
       /\ \A t \in CheckpointSteps \cup SnapshotSteps :
            CheckpointBehind(t)' <=> CheckpointBehind(t)
  BY <1>1, <1>2 DEF EvaluationBehind, CheckpointBehind, AtStart, Trained
<1>13. MemInv'
  <2>1. pc' \in Training
    BY <1>2 DEF Training
  <2> QED
    BY <1>1, <1>2, <1>12 DEF MemInv
<1>14. ContinuesInv'
  <2>1. (disk.latest # None => CheckpointBehind(disk.latest.step) \/ Pointed(disk.latest.step))'
    BY <1>2, <1>3, <1>7 DEF CheckpointBehind
  <2>2. \A t \in CheckpointSteps : ~Pointed(t)'
    BY <1>2 DEF Pointed
  <2> QED
    BY <1>1, <1>2, <1>3, <1>12, <2>1, <2>2 DEF ContinuesInv
<1>15. SnapshotInv'
  <2>1. \A t \in SnapshotSteps :
          /\ ~SnapshotTaken(t)' /\ (SnapshotNamed(t)' <=> t = mem.step)
          /\ CheckpointBehind(t)' => t # mem.step
    BY <1>1, <1>2, StepNumbers, MemTypes DEF SnapshotNamed, SnapshotTaken, CheckpointBehind, AtStart, Trained
  <2>2. SUFFICES ASSUME NEW t \in SnapshotSteps, CheckpointBehind(t)' \/ SnapshotNamed(t)'
                 PROVE  /\ disk'.snapshot[t] = Prefix(mem.lineage, t)
                        /\ disk'.index[t] = disk'.snapshot[t]
    BY <1>2, <2>1 DEF SnapshotInv
  <2>3. CASE t = mem.step
    BY <1>1, <1>3, <1>4, <1>6, <2>3, WholeModel
  <2>4. CASE t # mem.step
    <3>1. CheckpointBehind(t)
      BY <1>12, <2>1, <2>2, <2>4
    <3>2. disk.snapshot[t] = Prefix(mem.lineage, t) /\ disk.index[t] = disk.snapshot[t]
      BY <1>1, <3>1 DEF SnapshotInv
    <3> QED
      BY <1>3, <1>6, <2>4, <3>2
  <2> QED
    BY <2>3, <2>4
<1>16. RetiredInv'
  BY <1>3, <1>7 DEF RetiredInv
<1>17. SealInv'
  BY <1>1, <1>2, <1>3 DEF SealInv, Finishing
<1> QED
  BY <1>8, <1>9, <1>10, <1>11, <1>13, <1>14, <1>15, <1>16, <1>17

LEMMA SaveFileKeepsIt ==
    ASSUME TrajectoryInv, UNCHANGED machine, SaveFile
    PROVE  TrajectoryInv'
<1> USE DEF TrajectoryInv
<1>1. pc = "save" /\ mem.step \in CheckpointSteps /\ ~AtStart /\ pc \in Training
  BY DEF SaveFile, PlaceInv, Training
<1>2. /\ disk' \in Directories /\ Differs(disk', disk, {"saved"}) /\ pc' = "point"
      /\ mem' = mem /\ attempt' = attempt
      /\ disk'.saved = [disk.saved EXCEPT ![mem.step] = Payload]
  BY <1>1, SaveFileFrame DEF Continued
<1>3. SameTrajectory /\ disk'.status = disk.status /\ (Sealed' <=> Sealed)
  BY <1>2, SameWithout
<1>4. DOMAIN disk.saved = CheckpointSteps
  BY DEF TypeOK, Directories
<1>5. Kept
  <2>1. disk.latest # None => disk.latest.step \in CheckpointSteps /\ disk.latest.step # mem.step
    BY <1>1, AheadOfCheckpoint, StepNumbers, MemTypes
  <2> QED
    BY <1>2, <1>4, <2>1 DEF Kept
<1>6. TypeOK'
  BY <1>2 DEF TypeOK, Places
<1>7. StartInv'
  BY <1>1, <1>2, <1>3 DEF StartInv
<1>8. PlaceInv'
  BY <1>1, <1>2 DEF PlaceInv, Trained, AtStart
<1>9. FileInv'
  BY <1>1, <1>2, <1>4 DEF FileInv, Payload
<1>10. LatestInv'
  BY <1>3, <1>5, SameLatest
<1>11. /\ \A t \in EvalSteps : EvaluationBehind(t)' <=> EvaluationBehind(t)
       /\ \A t \in CheckpointSteps \cup SnapshotSteps :
            /\ CheckpointBehind(t)' <=> CheckpointBehind(t)
            /\ Pointed(t)' <=> Pointed(t)
       /\ \A t \in SnapshotSteps :
            /\ SnapshotNamed(t)' <=> SnapshotNamed(t)
            /\ SnapshotTaken(t)' <=> SnapshotTaken(t)
  BY <1>1, <1>2 DEF EvaluationBehind, CheckpointBehind, AtStart, Trained, Pointed,
                    SnapshotNamed, SnapshotTaken
<1>12. MemInv'
  BY <1>1, <1>2, <1>11 DEF MemInv
<1>13. ContinuesInv'
  <2>1. disk.latest # None => disk.latest.step \in CheckpointSteps /\ disk.latest.step < mem.step
    BY <1>1, AheadOfCheckpoint
  <2>2. (disk.latest # None => CheckpointBehind(disk.latest.step) \/ Pointed(disk.latest.step))'
    BY <1>2, <1>3, <2>1 DEF CheckpointBehind, SameTrajectory
  <2> QED
    BY <1>1, <1>2, <1>3, <1>11, <2>2 DEF ContinuesInv, SameTrajectory
<1>14. SnapshotInv'
  BY <1>1, <1>2, <1>3, <1>11 DEF SnapshotInv, SameTrajectory, Prefix
<1>15. RetiredInv'
  BY <1>1, <1>3, AheadOfCheckpoint DEF RetiredInv, SameTrajectory
<1>16. SealInv'
  BY <1>1, <1>2, <1>3 DEF SealInv, Finishing
<1> QED
  BY <1>6, <1>7, <1>8, <1>9, <1>10, <1>12, <1>13, <1>14, <1>15, <1>16

\* The new checkpoint is of the process's model and of what is behind it.
LEMMA PointLatestKeepsIt ==
    ASSUME TrajectoryInv, UNCHANGED machine, PointLatest
    PROVE  TrajectoryInv'
<1> USE DEF TrajectoryInv
<1>1. pc = "point" /\ mem.step \in CheckpointSteps /\ ~AtStart /\ pc \in Training
  BY DEF PointLatest, PlaceInv, Training
<1>2. /\ disk' \in Directories /\ Differs(disk', disk, {"latest"}) /\ pc' = "prune"
      /\ mem' = mem /\ attempt' = attempt
      /\ disk'.latest = [step |-> mem.step, payload |-> Payload]
  BY <1>1, PointLatestFrame DEF Continued
<1>3. /\ disk'.index = disk.index /\ disk'.saved = disk.saved
      /\ disk'.snapshot = disk.snapshot
      /\ disk'.retired = disk.retired /\ disk'.status = disk.status /\ (Sealed' <=> Sealed)
  BY <1>2 DEF Differs, Parts, Sealed
<1>4. /\ disk'.latest.step = mem.step /\ disk'.latest.payload.lineage = mem.lineage
      /\ disk'.latest.payload.emitted = mem.emitted \cup {<<"checkpoint", mem.step>>}
      /\ disk'.latest.payload = Payload /\ disk'.latest # None
  <2>1. disk'.latest \in Pointers
    BY <1>1, <1>2, PayloadTypes DEF Pointers
  <2>2. None \notin Pointers
    BY NoneIsNothing
  <2>3. disk'.latest # None
    BY <2>1, <2>2
  <2> QED
    BY <1>2, <2>3 DEF Payload
<1>5. disk.retired = None
  BY <1>1, AheadOfCheckpoint
<1>6. TypeOK'
  BY <1>2 DEF TypeOK, Places
<1>7. StartInv'
  BY <1>1, <1>2, <1>3 DEF StartInv
<1>8. PlaceInv' /\ FileInv'
  BY <1>1, <1>2 DEF PlaceInv, FileInv, Trained, AtStart
<1>9. /\ \A t \in EvalSteps : EvaluationBehind(t) <=> t <= mem.step
      /\ \A t \in CheckpointSteps \cup SnapshotSteps :
           CheckpointBehind(t) \/ t = mem.step <=> t <= mem.step
  BY <1>1, StepNumbers, MemTypes DEF EvaluationBehind, CheckpointBehind, Trained
<1>10. LatestInv'
  <2>1. disk'.saved[mem.step] = Payload
    BY <1>1, <1>3 DEF FileInv
  <2>2. \A t \in EvalSteps : <<"evaluate", t>> \in disk'.latest.payload.emitted <=> t <= mem.step
    BY <1>1, <1>4, <1>9 DEF MemInv
  <2>3. \A t \in CheckpointSteps \cup SnapshotSteps :
          <<"checkpoint", t>> \in disk'.latest.payload.emitted <=> t <= mem.step
    BY <1>1, <1>4, <1>9 DEF MemInv
  <2>4. \A t \in 1 .. Steps : disk'.latest.payload.lineage[t] > 0 <=> t <= mem.step
    BY <1>1, <1>4 DEF MemInv
  <2>5. \A t \in SnapshotSteps : t <= mem.step =>
          disk'.snapshot[t] = Prefix(mem.lineage, t) /\ disk'.index[t] = disk'.snapshot[t]
    BY <1>1, <1>3, <1>9 DEF SnapshotInv, SnapshotNamed
  <2> QED
    BY <1>4, <2>1, <2>2, <2>3, <2>4, <2>5 DEF LatestInv
<1>11. /\ \A t \in EvalSteps : EvaluationBehind(t)' <=> EvaluationBehind(t)
       /\ \A t \in CheckpointSteps \cup SnapshotSteps :
            CheckpointBehind(t)' <=> CheckpointBehind(t)
       /\ \A t \in SnapshotSteps :
            /\ SnapshotNamed(t)' <=> SnapshotNamed(t)
            /\ SnapshotTaken(t)' <=> SnapshotTaken(t)
  BY <1>1, <1>2 DEF EvaluationBehind, CheckpointBehind, AtStart, Trained,
                    SnapshotNamed, SnapshotTaken
<1>12. MemInv'
  BY <1>1, <1>2, <1>11 DEF MemInv
<1>13. ContinuesInv'
  <2>1. \A t \in CheckpointSteps : CheckpointBehind(t)' \/ Pointed(t)' => t <= mem.step
    BY <1>2, <1>9, <1>11 DEF Pointed
  <2>2. Pointed(disk.latest.step)'
    BY <1>2, <1>4 DEF Pointed
  <2>3. mem.start <= mem.step
    BY <1>1 DEF MemInv
  <2> QED
    BY <1>2, <1>4, <2>1, <2>2, <2>3, MemTypes DEF ContinuesInv
<1>14. SnapshotInv'
  BY <1>1, <1>2, <1>3, <1>11 DEF SnapshotInv, Prefix
<1>15. RetiredInv'
  BY <1>3, <1>5 DEF RetiredInv
<1>16. SealInv'
  BY <1>1, <1>2, <1>3 DEF SealInv, Finishing
<1> QED
  BY <1>6, <1>7, <1>8, <1>10, <1>12, <1>13, <1>14, <1>15, <1>16

LEMMA PruneSupersededKeepsIt ==
    ASSUME TrajectoryInv, UNCHANGED machine, PruneSuperseded
    PROVE  TrajectoryInv'
<1> USE DEF TrajectoryInv
<1>1. pc = "prune" /\ Prune(mem.step, "checkpointed") /\ pc \in Training
  BY DEF PruneSuperseded, Training
<1>2. mem.step \in CheckpointSteps /\ ~AtStart
  BY <1>1 DEF PlaceInv
<1>3. disk.latest # None => disk.latest.step = mem.step
  <2>1. Pointed(mem.step)
    BY <1>1 DEF Pointed
  <2>2. disk.latest # None => mem.step <= disk.latest.step /\ disk.latest.step <= mem.step
    BY <1>1, <1>2, <2>1 DEF ContinuesInv
  <2>3. disk.latest # None => disk.latest.step \in CheckpointSteps
    BY DEF TypeOK, Directories, Pointers
  <2> QED
    BY <2>2, <2>3, StepNumbers, MemTypes
<1>4. Kept
  BY <1>1, <1>2, <1>3, PruneFrame DEF Kept
<1>5. CASE Ended({"saved"})
  BY <1>4, <1>5, EndedKeepsIt
<1>6. CASE /\ disk' \in Directories /\ Differs(disk', disk, {"saved"})
           /\ pc' = "checkpointed" /\ UNCHANGED <<mem, attempt>>
  <2>1. SameTrajectory /\ (Sealed' <=> Sealed) /\ disk'.status = disk.status
    BY <1>6, SameWithout
  <2>2. TypeOK'
    BY <1>6 DEF TypeOK, Places
  <2>3. PlaceInv'
    BY <1>2, <1>6 DEF PlaceInv, Trained, AtStart
  <2>4. \A t \in EvalSteps : EvaluationBehind(t)' <=> EvaluationBehind(t)
    BY <1>1, <1>6 DEF EvaluationBehind, AtStart
  <2>5. \A t \in CheckpointSteps \cup SnapshotSteps :
          /\ CheckpointBehind(t)' <=> CheckpointBehind(t)
          /\ Pointed(t)' <=> Pointed(t)
    BY <1>1, <1>6 DEF CheckpointBehind, AtStart, Trained, Pointed
  <2>6. \A t \in SnapshotSteps : /\ SnapshotNamed(t)' <=> SnapshotNamed(t)
                                 /\ SnapshotTaken(t)' <=> SnapshotTaken(t)
    BY <1>1, <1>6 DEF SnapshotNamed, SnapshotTaken
  <2>7. pc \in Training \ {"unpoint", "unlink"} /\ pc' \in Training \ {"point", "unpoint", "unlink"}
    BY <1>1, <1>6 DEF Training
  <2> QED
    BY <1>4, <1>6, <2>1, <2>2, <2>3, <2>4, <2>5, <2>6, <2>7, TrainingKeepsIt
<1> QED
  BY <1>1, <1>5, <1>6, PruneFrame

LEMMA CheckpointedKeepsIt ==
    ASSUME TrajectoryInv, UNCHANGED machine, Checkpointed
    PROVE  TrajectoryInv'
<1> USE DEF TrajectoryInv
<1>1. /\ pc = "checkpointed" /\ pc' = "loop" /\ disk' = disk /\ attempt' = attempt
      /\ mem' \in Processes
      /\ mem'.start = mem.start /\ mem'.step = mem.step /\ mem'.lineage = mem.lineage
      /\ mem'.emitted = mem.emitted \cup {<<"checkpoint", mem.step>>}
  BY EmitFrame DEF Checkpointed
<1>2. /\ mem.step \in CheckpointSteps \cup SnapshotSteps /\ ~AtStart
      /\ pc \in Training /\ pc' \in Training
  BY <1>1 DEF PlaceInv, Training
<1>3. SameTrajectory /\ Kept
  BY <1>1 DEF SameTrajectory, Kept
<1>4. TypeOK'
  BY <1>1 DEF TypeOK, Places
<1>5. StartInv'
  BY <1>1 DEF StartInv
<1>6. PlaceInv' /\ FileInv'
  BY <1>1 DEF PlaceInv, FileInv, Trained
<1>7. LatestInv'
  BY <1>3, SameLatest
<1>8. /\ \A t \in EvalSteps : EvaluationBehind(t)' <=> EvaluationBehind(t)
      /\ \A t \in CheckpointSteps \cup SnapshotSteps :
           CheckpointBehind(t)' <=> CheckpointBehind(t) \/ t = mem.step
  BY <1>1, <1>2 DEF EvaluationBehind, CheckpointBehind, AtStart, Trained
<1>9. MemInv'
  <2>1. /\ \A t \in EvalSteps :
              <<"evaluate", t>> \in mem'.emitted <=> <<"evaluate", t>> \in mem.emitted
        /\ \A t \in CheckpointSteps \cup SnapshotSteps : <<"checkpoint", t>> \in mem'.emitted <=>
              <<"checkpoint", t>> \in mem.emitted \/ t = mem.step
    BY <1>1
  <2> QED
    BY <1>1, <1>2, <1>8, <2>1 DEF MemInv
<1>10. ContinuesInv'
  <2>1. disk.latest # None => disk.latest.step \in CheckpointSteps
    BY DEF TypeOK, Directories, Pointers
  <2>2. (disk.latest # None => CheckpointBehind(disk.latest.step) \/ Pointed(disk.latest.step))'
    <3>1. disk.latest # None => CheckpointBehind(disk.latest.step)'
      BY <1>1, <1>2, <1>8, <2>1 DEF ContinuesInv, Pointed
    <3> QED
      BY <1>1, <3>1
  <2>3. \A t \in CheckpointSteps : CheckpointBehind(t)' \/ Pointed(t)' =>
          disk.latest # None /\ t <= disk.latest.step
    <3>1. SUFFICES ASSUME NEW t \in CheckpointSteps, CheckpointBehind(t) \/ t = mem.step
                   PROVE  disk.latest # None /\ t <= disk.latest.step
      BY <1>1, <1>8 DEF Pointed
    <3>2. CheckpointBehind(t) \/ Pointed(t)
      BY <1>1, <3>1 DEF Pointed
    <3> QED
      BY <1>1, <1>2, <3>2 DEF ContinuesInv
  <2> QED
    BY <1>1, <1>2, <2>2, <2>3 DEF ContinuesInv
<1>11. SnapshotInv'
  <2>1. \A t \in SnapshotSteps : CheckpointBehind(t)' =>
          disk.snapshot[t] = Prefix(mem.lineage, t) /\ disk.index[t] = disk.snapshot[t]
    BY <1>1, <1>2, <1>8 DEF SnapshotInv, SnapshotNamed
  <2>2. \A t \in SnapshotSteps : ~SnapshotNamed(t)' /\ ~SnapshotTaken(t)'
    BY <1>1 DEF SnapshotNamed, SnapshotTaken
  <2> QED
    BY <1>1, <2>1, <2>2 DEF SnapshotInv, Prefix
<1>12. RetiredInv'
  BY <1>1, <1>2 DEF RetiredInv, Prefix
<1>13. SealInv'
  BY <1>1 DEF SealInv, Finishing, Sealed
<1> QED
  BY <1>4, <1>5, <1>6, <1>7, <1>9, <1>10, <1>11, <1>12, <1>13

\* An update is made after the last checkpoint, and never of a retired run.
LEMMA TrainKeepsIt ==
    ASSUME TrajectoryInv, UNCHANGED machine, Train
    PROVE  TrajectoryInv'
<1> USE DEF TrajectoryInv
<1>1. /\ pc = "loop" /\ mem.step < Steps /\ pc' = "evaluate" /\ disk' = disk /\ attempt' = attempt
      /\ mem' \in Processes
      /\ mem'.start = mem.start /\ mem'.step = mem.step + 1
      /\ mem'.lineage = [mem.lineage EXCEPT ![mem.step + 1] = attempt]
      /\ mem'.emitted = mem.emitted
      /\ pc \in Training /\ pc' \in Training
  BY TrainFrame DEF Training
<1>2. /\ mem.step \in Nat /\ mem.start \in Nat /\ mem.start <= mem.step /\ Steps \in Nat
      /\ mem.step + 1 \in 1 .. Steps
  BY <1>1, MemTypes, Numbers DEF MemInv
<1>3. /\ mem'.lineage[mem.step + 1] = attempt
      /\ \A t \in 1 .. Steps : t # mem.step + 1 => mem'.lineage[t] = mem.lineage[t]
  BY <1>1, <1>2, MemTypes DEF Lineages
<1>4. SameTrajectory /\ Kept
  BY <1>1 DEF SameTrajectory, Kept
<1>5. TypeOK'
  BY <1>1 DEF TypeOK, Places
<1>6. StartInv'
  BY <1>1 DEF StartInv
<1>7. PlaceInv' /\ FileInv'
  BY <1>1 DEF PlaceInv, FileInv, Trained
<1>8. LatestInv'
  BY <1>4, SameLatest
<1>9. /\ \A t \in EvalSteps : /\ EvaluationBehind(t)' <=> t <= mem.step
                              /\ EvaluationBehind(t) <=> t <= mem.step
      /\ \A t \in CheckpointSteps \cup SnapshotSteps :
           /\ CheckpointBehind(t)' <=> t <= mem.step
           /\ CheckpointBehind(t) <=> t <= mem.step
  BY <1>1, <1>2, StepNumbers DEF EvaluationBehind, CheckpointBehind, AtStart, Trained
<1>10. MemInv'
  <2>1. \A t \in 1 .. Steps : mem'.lineage[t] > 0 <=> t <= mem.step + 1
    <3>1. SUFFICES ASSUME NEW t \in 1 .. Steps
                   PROVE  mem'.lineage[t] > 0 <=> t <= mem.step + 1
      OBVIOUS
    <3>2. mem.lineage[t] > 0 <=> t <= mem.step
      BY <1>1 DEF MemInv
    <3>3. attempt > 0
      BY MemTypes
    <3> QED
      BY <1>2, <1>3, <3>2, <3>3
  <2>2. \A t \in 1 .. Steps : mem.start < t /\ t <= mem.step + 1 => mem'.lineage[t] = attempt
    <3>1. SUFFICES ASSUME NEW t \in 1 .. Steps, mem.start < t, t <= mem.step + 1
                   PROVE  mem'.lineage[t] = attempt
      OBVIOUS
    <3>2. t <= mem.step => mem.lineage[t] = attempt
      BY <1>1, <3>1 DEF MemInv
    <3> QED
      BY <1>2, <1>3, <3>1, <3>2
  <2>3. mem.start <= mem.step + 1
    BY <1>2
  <2>4. /\ \A t \in EvalSteps : <<"evaluate", t>> \in mem.emitted <=> EvaluationBehind(t)'
        /\ \A t \in CheckpointSteps \cup SnapshotSteps :
             <<"checkpoint", t>> \in mem.emitted <=> CheckpointBehind(t)'
    BY <1>1, <1>9 DEF MemInv
  <2> QED
    BY <1>1, <2>1, <2>2, <2>3, <2>4 DEF MemInv
<1>11. ContinuesInv'
  <2>1. ASSUME disk.latest # None
        PROVE  /\ disk.latest.step \in CheckpointSteps /\ disk.latest.step <= mem.step
               /\ mem.start <= disk.latest.step
               /\ \A t \in 1 .. disk.latest.step : mem.lineage[t] = disk.latest.payload.lineage[t]
    BY <1>1, <2>1 DEF ContinuesInv, TypeOK, Directories, Pointers
  <2>2. ASSUME disk.latest # None
        PROVE  /\ mem.start <= disk.latest.step /\ disk.latest.step <= mem.step + 1
               /\ \A t \in 1 .. disk.latest.step : mem'.lineage[t] = disk.latest.payload.lineage[t]
               /\ CheckpointBehind(disk.latest.step)'
    <3>1. disk.latest.step \in 0 .. Steps
      BY <2>1, <2>2, StepNumbers
    <3>2. \A t \in 1 .. disk.latest.step : t \in 1 .. Steps /\ t # mem.step + 1
      BY <1>2, <2>1, <2>2, <3>1
    <3> QED
      BY <1>1, <1>2, <1>3, <1>9, <2>1, <2>2, <3>1, <3>2
  <2>3. \A t \in CheckpointSteps : CheckpointBehind(t)' => disk.latest # None /\ t <= disk.latest.step
    BY <1>1, <1>9 DEF ContinuesInv
  <2>4. \A t \in CheckpointSteps : ~Pointed(t)'
    BY <1>1 DEF Pointed
  <2>5. (disk.latest # None => CheckpointBehind(disk.latest.step) \/ Pointed(disk.latest.step))'
    BY <1>1, <2>2
  <2> QED
    BY <1>1, <2>2, <2>3, <2>4, <2>5 DEF ContinuesInv
<1>12. SnapshotInv'
  <2>1. \A t \in SnapshotSteps : t <= mem.step => Prefix(mem'.lineage, t) = Prefix(mem.lineage, t)
    <3>1. SUFFICES ASSUME NEW t \in SnapshotSteps, t <= mem.step
                   PROVE  Prefix(mem'.lineage, t) = Prefix(mem.lineage, t)
      OBVIOUS
    <3>2. \A u \in 1 .. Steps : u <= t => u # mem.step + 1
      BY <1>2, <3>1, StepNumbers
    <3> QED
      BY <1>3, <3>2 DEF Prefix
  <2>2. \A t \in SnapshotSteps : CheckpointBehind(t)' =>
          disk.snapshot[t] = Prefix(mem'.lineage, t) /\ disk.index[t] = disk.snapshot[t]
    BY <1>1, <1>9, <2>1 DEF SnapshotInv
  <2>3. \A t \in SnapshotSteps : ~SnapshotNamed(t)' /\ ~SnapshotTaken(t)'
    BY <1>1 DEF SnapshotNamed, SnapshotTaken
  <2> QED
    BY <1>1, <2>2, <2>3 DEF SnapshotInv
<1>13. RetiredInv'
  <2>1. disk.retired = None
    BY <1>1, <1>2 DEF RetiredInv
  <2> QED
    BY <1>1, <2>1 DEF RetiredInv
<1>14. SealInv'
  BY <1>1 DEF SealInv, Finishing, Sealed
<1> QED
  BY <1>5, <1>6, <1>7, <1>8, <1>10, <1>11, <1>12, <1>13, <1>14

-------------------------------------------------------------------------------
\* The end of a run and the trajectory.

LEMMA BuildResultKeepsIt ==
    ASSUME TrajectoryInv, UNCHANGED machine, BuildResult
    PROVE  TrajectoryInv'
<1> USE DEF TrajectoryInv
<1>1. /\ pc \in {"result", "recovered"} /\ disk' = disk /\ mem' = mem /\ attempt' = attempt
      /\ pc' = IF pc = "result" /\ CheckpointSteps # {} THEN "retire" ELSE "summary"
  BY DEF BuildResult, Continue
<1>2. SameTrajectory /\ Kept /\ (Sealed' <=> Sealed) /\ disk'.status = disk.status
  BY <1>1 DEF SameTrajectory, Kept, Sealed
<1>3. TypeOK'
  BY <1>1 DEF TypeOK, Places
<1>4. CASE pc = "result" /\ CheckpointSteps # {}
  <2>1. PlaceInv'
    BY <1>1, <1>4 DEF PlaceInv, Trained
  <2>2. \A t \in EvalSteps : EvaluationBehind(t)' <=> EvaluationBehind(t)
    BY <1>1, <1>4 DEF EvaluationBehind, AtStart
  <2>3. \A t \in CheckpointSteps \cup SnapshotSteps :
          /\ CheckpointBehind(t)' <=> CheckpointBehind(t)
          /\ Pointed(t)' <=> Pointed(t)
    BY <1>1, <1>4 DEF CheckpointBehind, AtStart, Trained, Pointed
  <2>4. \A t \in SnapshotSteps : /\ SnapshotNamed(t)' <=> SnapshotNamed(t)
                                 /\ SnapshotTaken(t)' <=> SnapshotTaken(t)
    BY <1>1, <1>4 DEF SnapshotNamed, SnapshotTaken
  <2>5. pc \in Training \ {"unpoint", "unlink"} /\ pc' \in Training \ {"point", "unpoint", "unlink"}
    BY <1>1, <1>4 DEF Training
  <2> QED
    BY <1>1, <1>2, <1>3, <2>1, <2>2, <2>3, <2>4, <2>5, TrainingKeepsIt
<1>5. CASE ~(pc = "result" /\ CheckpointSteps # {})
  <2>1. disk'.status # None
    BY <1>1, <1>2 DEF StartInv
  <2>2. pc' \in Finishing
    BY <1>1, <1>5 DEF Finishing
  <2> QED
    BY <1>1, <1>2, <1>3, <1>5, <2>1, <2>2, FinishingKeepsIt
<1> QED
  BY <1>4, <1>5

\* The marker vouches for the model of a process that has done all updates.
LEMMA WriteRetiredKeepsIt ==
    ASSUME TrajectoryInv, UNCHANGED machine, WriteRetired
    PROVE  TrajectoryInv'
<1> USE DEF TrajectoryInv
<1>1. /\ pc = "retire" /\ disk' \in Directories /\ Differs(disk', disk, {"retired"})
      /\ pc' = "unpoint" /\ mem' = mem /\ attempt' = attempt
      /\ disk'.retired = [final |-> IF Steps \in SnapshotSteps THEN disk.index[Steps] ELSE None,
                          history |-> mem.lineage]
  BY WriteRetiredFrame DEF Continued
<1>2. /\ disk'.latest = disk.latest /\ disk'.saved = disk.saved
      /\ disk'.snapshot = disk.snapshot /\ disk'.index = disk.index
      /\ disk'.status = disk.status /\ (Sealed' <=> Sealed)
  BY <1>1 DEF Differs, Parts, Sealed
<1>3. /\ mem.step = Steps /\ CheckpointSteps # {} /\ Steps \in CheckpointSteps
      /\ pc \in Training /\ pc' \in Training
  BY <1>1, Numbers DEF PlaceInv, Trained, Training
<1>4. disk'.retired # None /\ disk'.retired.history = mem.lineage
  <2>1. disk'.retired \in Markers
    BY <1>1 DEF Markers, TypeOK, Directories, Processes
  <2>2. None \notin Markers
    BY NoneIsNothing
  <2> QED
    BY <1>1, <2>1, <2>2
<1>5. TypeOK'
  BY <1>1 DEF TypeOK, Places
<1>6. StartInv'
  BY <1>1, <1>2 DEF StartInv
<1>7. PlaceInv' /\ FileInv'
  BY <1>1, <1>3 DEF PlaceInv, FileInv, Trained
<1>8. LatestInv'
  BY <1>2 DEF LatestInv, Prefix
<1>9. /\ \A t \in EvalSteps : EvaluationBehind(t)' <=> EvaluationBehind(t)
      /\ \A t \in CheckpointSteps \cup SnapshotSteps : /\ CheckpointBehind(t)' <=> CheckpointBehind(t)
                                                       /\ CheckpointBehind(t)
  BY <1>1, <1>3, StepNumbers, MemTypes DEF EvaluationBehind, CheckpointBehind, AtStart, Trained
<1>10. \A t \in CheckpointSteps \cup SnapshotSteps :
         /\ ~Pointed(t)' /\ ~SnapshotNamed(t)' /\ ~SnapshotTaken(t)'
         /\ ~Pointed(t) /\ ~SnapshotNamed(t) /\ ~SnapshotTaken(t)
  BY <1>1 DEF Pointed, SnapshotNamed, SnapshotTaken
<1>11. MemInv'
  BY <1>1, <1>3, <1>9 DEF MemInv
<1>12. ContinuesInv'
  <2>1. disk.latest # None => disk.latest.step \in CheckpointSteps
    BY DEF TypeOK, Directories, Pointers
  <2>2. (disk.latest # None => CheckpointBehind(disk.latest.step) \/ Pointed(disk.latest.step))'
    BY <1>2, <1>9, <2>1
  <2> QED
    BY <1>1, <1>2, <1>3, <1>9, <1>10, <2>2 DEF ContinuesInv
<1>13. SnapshotInv'
  BY <1>1, <1>2, <1>3, <1>9, <1>10 DEF SnapshotInv, Prefix
<1>14. RetiredInv'
  <2>1. \A t \in 1 .. Steps : mem.lineage[t] > 0
    BY <1>3, Numbers DEF MemInv
  <2>2. \A t \in SnapshotSteps :
          disk.snapshot[t] = Prefix(mem.lineage, t) /\ disk.index[t] = disk.snapshot[t]
    BY <1>3, <1>9 DEF SnapshotInv
  <2>3. ASSUME disk.latest # None
        PROVE  disk.latest.step = Steps /\ disk.latest.payload.lineage = mem.lineage
    <3>1. disk.latest.step \in CheckpointSteps /\ disk.latest.step \in 0 .. Steps
          /\ disk.latest.payload.lineage \in Lineages
      BY <2>3, StepNumbers DEF TypeOK, Directories, Pointers, Payloads
    <3>2. Steps <= disk.latest.step
      BY <1>1, <1>3, <1>9 DEF ContinuesInv
    <3>3. disk.latest.step = Steps
      BY <3>1, <3>2, Numbers
    <3>4. \A t \in 1 .. Steps : mem.lineage[t] = disk.latest.payload.lineage[t]
      BY <1>3, <2>3, <3>3 DEF ContinuesInv
    <3> QED
      BY <3>1, <3>3, <3>4, MemTypes, SameLineage
  <2>4. /\ \A t \in 1 .. Steps : disk'.retired.history[t] > 0
        /\ \A t \in SnapshotSteps : disk'.snapshot[t] = Prefix(disk'.retired.history, t)
                                    /\ disk'.index[t] = disk'.snapshot[t]
        /\ disk'.latest # None =>
             disk'.latest.step = Steps /\ disk'.latest.payload.lineage = disk'.retired.history
    BY <1>2, <1>4, <2>1, <2>2, <2>3
  <2> QED
    BY <1>1, <2>4 DEF RetiredInv
<1>15. SealInv'
  BY <1>1, <1>2, <1>4 DEF SealInv, Finishing
<1> QED
  BY <1>5, <1>6, <1>7, <1>8, <1>11, <1>12, <1>13, <1>14, <1>15

LEMMA RemovePointerKeepsIt ==
    ASSUME TrajectoryInv, UNCHANGED machine, RemovePointer
    PROVE  TrajectoryInv'
<1> USE DEF TrajectoryInv
<1>1. /\ pc = "unpoint" /\ disk' \in Directories /\ Differs(disk', disk, {"latest"})
      /\ pc' = "unlink" /\ mem' = mem /\ attempt' = attempt /\ disk'.latest = None
      /\ pc \in Training /\ pc' \in Training
  BY RemovePointerFrame DEF Continued, Training
<1>2. /\ disk'.saved = disk.saved /\ disk'.snapshot = disk.snapshot
      /\ disk'.index = disk.index /\ disk'.retired = disk.retired
      /\ disk'.status = disk.status /\ (Sealed' <=> Sealed)
  BY <1>1 DEF Differs, Parts, Sealed
<1>3. TypeOK'
  BY <1>1 DEF TypeOK, Places
<1>4. StartInv'
  BY <1>1, <1>2 DEF StartInv
<1>5. PlaceInv' /\ FileInv' /\ LatestInv'
  BY <1>1 DEF PlaceInv, FileInv, LatestInv, Trained
<1>6. /\ \A t \in EvalSteps : EvaluationBehind(t)' <=> EvaluationBehind(t)
      /\ \A t \in CheckpointSteps \cup SnapshotSteps :
           CheckpointBehind(t)' <=> CheckpointBehind(t)
  BY <1>1 DEF EvaluationBehind, CheckpointBehind, AtStart, Trained
<1>7. \A t \in CheckpointSteps \cup SnapshotSteps :
        ~Pointed(t)' /\ ~SnapshotNamed(t)' /\ ~SnapshotTaken(t)'
  BY <1>1 DEF Pointed, SnapshotNamed, SnapshotTaken
<1>8. MemInv'
  BY <1>1, <1>6 DEF MemInv
<1>9. ContinuesInv'
  BY <1>1, <1>7 DEF ContinuesInv
<1>10. SnapshotInv'
  BY <1>1, <1>2, <1>6, <1>7 DEF SnapshotInv, Prefix
<1>11. RetiredInv'
  BY <1>1, <1>2 DEF RetiredInv, Prefix
<1>12. SealInv'
  BY <1>1, <1>2 DEF SealInv, Finishing
<1> QED
  BY <1>3, <1>4, <1>5, <1>8, <1>9, <1>10, <1>11, <1>12

LEMMA PruneRetiredKeepsIt ==
    ASSUME TrajectoryInv, UNCHANGED machine, PruneRetired
    PROVE  TrajectoryInv'
<1> USE DEF TrajectoryInv
<1>1. pc = "unlink" /\ Prune(0, "summary") /\ disk.latest = None
  BY DEF PruneRetired, FileInv
<1>2. Kept
  BY <1>1 DEF Kept
<1>3. CASE Ended({"saved"})
  BY <1>2, <1>3, EndedKeepsIt
<1>4. CASE /\ disk' \in Directories /\ Differs(disk', disk, {"saved"})
           /\ pc' = "summary" /\ UNCHANGED <<mem, attempt>>
  <2>1. SameTrajectory /\ (Sealed' <=> Sealed) /\ disk'.status = disk.status
    BY <1>4, SameWithout
  <2>2. TypeOK'
    BY <1>4 DEF TypeOK, Places
  <2>3. disk'.status # None
    BY <1>1, <2>1 DEF StartInv
  <2> QED
    BY <1>1, <1>2, <1>4, <2>1, <2>2, <2>3, FinishingKeepsIt DEF Finishing
<1> QED
  BY <1>1, <1>3, <1>4, PruneFrame

LEMMA FinalizeKeepsIt ==
    ASSUME TrajectoryInv, UNCHANGED machine, WriteSummary \/ WriteStatus \/ Attest
    PROVE  TrajectoryInv'
<1> USE DEF TrajectoryInv
<1>1. PICK parts \in {{"summary"}, {"status"}, {"completion"}} :
        /\ disk' \in Directories /\ Differs(disk', disk, parts) /\ UNCHANGED <<mem, attempt>>
        /\ pc \in Finishing /\ pc' \in Finishing
        /\ disk'.status \in {disk.status, "complete"}
  <2>1. CASE WriteSummary
    BY <2>1, WriteSummaryFrame, SameWithout DEF Continued, Finishing
  <2>2. CASE WriteStatus
    BY <2>2, WriteStatusFrame DEF Continued, Finishing
  <2>3. CASE Attest
    BY <2>3, AttestFrame, SameWithout DEF Continued, Finishing
  <2> QED
    BY <2>1, <2>2, <2>3
<1>2. SameTrajectory /\ Kept /\ (Sealed' <=> Sealed)
  BY <1>1, SameWithout, KeptWithout
<1>3. TypeOK'
  BY <1>1 DEF TypeOK, Places, Finishing
<1>4. disk'.status # None
  <2>1. disk.status # None
    BY <1>1 DEF StartInv, Finishing
  <2>2. "complete" # None
    BY NoneIsNothing
  <2> QED
    BY <1>1, <2>1, <2>2
<1> QED
  BY <1>1, <1>2, <1>3, <1>4, FinishingKeepsIt

LEMMA WriteCompleteKeepsIt ==
    ASSUME TrajectoryInv, UNCHANGED machine, WriteComplete
    PROVE  TrajectoryInv'
<1> USE DEF TrajectoryInv
<1>1. /\ pc = "complete" /\ disk' \in Directories /\ Differs(disk', disk, {"files"})
      /\ pc' = "down" /\ mem' = Lost /\ attempt' = attempt
  BY WriteCompleteFrame
<1>2. SameTrajectory /\ Kept /\ disk'.status = disk.status
  BY <1>1, SameWithout, KeptWithout
<1>3. Lost \in Processes
  BY Numbers DEF Lost, Blank, Processes, Lineages
<1>4. TypeOK'
  BY <1>1, <1>3 DEF TypeOK, Places
<1>5. mem'.start = 0 /\ mem'.step = 0 /\ mem'.lineage = Blank /\ mem'.emitted = {}
  BY <1>1 DEF Lost
<1> QED
  BY <1>1, <1>2, <1>4, <1>5, GoneKeepsIt

LEMMA TrajectoryStep ==
    ASSUME TrajectoryInv, [Next]_vars
    PROVE  TrajectoryInv'
<1>1. CASE UNCHANGED vars
  BY <1>1 DEF vars, TrajectoryInv, TypeOK, StartInv, MemInv, PlaceInv, LatestInv, FileInv,
              ContinuesInv, SnapshotInv, RetiredInv, SealInv, EvaluationBehind, CheckpointBehind,
              AtStart, Pointed, SnapshotNamed, SnapshotTaken, Payload, Sealed, Prefix
<1>2. CASE Launch /\ UNCHANGED machine
  <2>1. CASE Initialize
    BY <1>2, <2>1, InitializeKeepsIt
  <2>2. CASE InitializeStops
    <3>1. UNCHANGED vars
      BY <1>2, <2>2 DEF InitializeStops, vars
    <3> QED
      BY <1>1, <3>1
  <2> QED
    BY <1>2, <2>1, <2>2 DEF Launch
<1>3. CASE Run /\ UNCHANGED machine
  <2>1. CASE RecordManifests \/ Recover \/ Restore
    BY <1>3, <2>1, RecordManifestsKeepsIt, RecoverKeepsIt, RestoreKeepsIt
  <2>2. CASE Hooks
    BY <1>3, <2>2, SkipHookKeepsIt, AppendingKeepsIt, EvaluatedKeepsIt, WriteSnapshotKeepsIt,
       WriteIndexKeepsIt, SaveFileKeepsIt, PointLatestKeepsIt, PruneSupersededKeepsIt,
       CheckpointedKeepsIt DEF Hooks
  <2>3. CASE Train
    BY <1>3, <2>3, TrainKeepsIt
  <2>4. CASE Finish
    BY <1>3, <2>4, AppendingKeepsIt, BuildResultKeepsIt, StopsKeepIt, WriteRetiredKeepsIt,
       RemovePointerKeepsIt, PruneRetiredKeepsIt, FinalizeKeepsIt, WriteCompleteKeepsIt DEF Finish
  <2> QED
    BY <1>3, <2>1, <2>2, <2>3, <2>4 DEF Run
<1>4. CASE Crash /\ UNCHANGED machine
  BY <1>4, StopsKeepIt
<1> QED
  BY <1>1, <1>2, <1>3, <1>4 DEF Next

LEMMA TrajectoryInit ==
    ASSUME Init
    PROVE  TrajectoryInv
<1>1. disk = Empty /\ mem = Lost /\ pc = "down" /\ attempt = 1 /\ machine \in Machines
  BY DEF Init
<1>2. /\ disk.files = {} /\ disk.latest = None /\ disk.retired = None
  BY <1>1 DEF Empty
<1>3. Empty \in Directories
  BY DEF Empty, Directories
<1>4. Lost \in Processes
  BY Numbers DEF Lost, Blank, Processes, Lineages
<1>5. TypeOK
  BY <1>1, <1>3, <1>4, Numbers DEF TypeOK, Places
<1>6. StartInv
  BY <1>1, <1>2 DEF StartInv, Lost
<1>7. MemInv /\ PlaceInv /\ FileInv /\ ContinuesInv /\ SnapshotInv
  BY <1>1 DEF MemInv, PlaceInv, FileInv, ContinuesInv, SnapshotInv, Training, Trained
<1>8. LatestInv /\ RetiredInv
  BY <1>2 DEF LatestInv, RetiredInv
<1>9. SealInv
  BY <1>1, <1>2 DEF SealInv, Finishing, Sealed
<1> QED
  BY <1>5, <1>6, <1>7, <1>8, <1>9 DEF TrajectoryInv

\* The trajectory part of the invariant is inductive by itself.
THEOREM TrajectoryInvariance == Spec => []TrajectoryInv
<1>1. TrajectoryInv /\ [Next]_vars => TrajectoryInv'
  BY TrajectoryStep
<1> QED
  BY <1>1, TrajectoryInit, PTL DEF Spec

\* The type invariant, for every run and every number of interruptions.
THEOREM RunTypeCorrect == Spec => []TypeOK
<1>1. TrajectoryInv => TypeOK
  BY DEF TrajectoryInv
<1> QED
  BY <1>1, TrajectoryInvariance, PTL

\* The snapshots that a sealed run leaves, with their index, are of the model
\* that its retired marker vouches for, whichever attempts wrote them.
THEOREM SnapshotsAgree == Spec => []SnapshotsAreOneModel
<1>1. TrajectoryInv => SnapshotsAreOneModel
  <2> SUFFICES ASSUME TrajectoryInv, Sealed, CheckpointSteps # {}, NEW s \in SnapshotSteps
               PROVE  /\ disk.snapshot[s] = Prefix(disk.retired.history, s)
                      /\ disk.index[s] = disk.snapshot[s]
    BY DEF SnapshotsAreOneModel, Prefix
  <2>1. disk.retired # None
    BY DEF TrajectoryInv, SealInv
  <2> QED
    BY <2>1 DEF TrajectoryInv, RetiredInv
<1> QED
  BY <1>1, TrajectoryInvariance, PTL

-------------------------------------------------------------------------------
\* The run implements ResumableTrajectory.

\* The step leaves what the trajectory is committed by.
Uncommitted ==
    disk'.latest = disk.latest /\ disk'.retired = disk.retired /\ (Sealed' <=> Sealed)

LEMMA UncommittedWithout ==
    ASSUME NEW parts, Differs(disk', disk, parts), parts \cap {"files", "latest", "retired"} = {}
    PROVE  Uncommitted
BY DEF Differs, Parts, Uncommitted, Sealed

LEMMA UncommittedEnd ==
    ASSUME NEW parts, Ended(parts), parts \cap {"files", "latest", "retired"} = {}
    PROVE  Uncommitted
<1>1. (parts \cup {"status"}) \cap {"files", "latest", "retired"} = {}
  OBVIOUS
<1> QED
  BY <1>1, UncommittedWithout DEF Ended

LEMMA LaunchCommitsNothing ==
    ASSUME TrajectoryInv, Launch \/ RecordManifests \/ Recover \/ Restore
    PROVE  Uncommitted
<1> USE DEF TrajectoryInv
<1>1. CASE Initialize
  BY <1>1, InitializeFrame DEF Differs, Parts, Uncommitted
<1>2. CASE InitializeStops
  BY <1>2 DEF InitializeStops, Uncommitted, Sealed
<1>3. CASE RecordManifests
  <2>1. Sealed' <=> Sealed
    BY <1>3, RecordManifestsFrame
  <2>2. Differs(disk', disk, {"files"}) \/ Differs(disk', disk, {"files"} \cup {"status"})
    BY <1>3, RecordManifestsFrame DEF Ended, Continued
  <2>3. disk'.latest = disk.latest /\ disk'.retired = disk.retired
    BY <2>2 DEF Differs, Parts
  <2> QED
    BY <2>1, <2>3 DEF Uncommitted
<1>4. CASE Recover
  BY <1>4, RecoverFrame, UncommittedWithout, UncommittedEnd
<1>5. CASE Restore
  <2>1. disk.latest # None => mem.resumed
    BY <1>5 DEF Restore, StartInv
  <2> QED
    BY <1>5, <2>1, RestoreFrame, UncommittedWithout, UncommittedEnd
<1> QED
  BY <1>1, <1>2, <1>3, <1>4, <1>5 DEF Launch

LEMMA HooksCommitNothing ==
    ASSUME TrajectoryInv, Hooks, ~PointLatest
    PROVE  Uncommitted
<1> USE DEF TrajectoryInv
<1>1. CASE SkipHook
  BY <1>1 DEF SkipHook, Continue, Uncommitted, Sealed
<1>2. CASE AppendMetrics \/ AppendPredictions
  BY <1>2, AppendingFrame, UncommittedWithout, UncommittedEnd DEF Continued
<1>3. CASE Evaluated \/ Checkpointed
  BY <1>3 DEF Evaluated, Checkpointed, Emit, Uncommitted, Sealed
<1>4. CASE WriteSnapshot
  BY <1>4, WriteSnapshotFrame, UncommittedWithout DEF Continued
<1>5. CASE WriteIndex
  <2>1. mem.step \in SnapshotSteps
    BY <1>5 DEF WriteIndex, PlaceInv
  <2> QED
    BY <1>5, <2>1, WriteIndexFrame, UncommittedWithout DEF Continued
<1>6. CASE SaveFile
  <2>1. mem.step \in CheckpointSteps
    BY <1>6 DEF SaveFile, PlaceInv
  <2> QED
    BY <1>6, <2>1, SaveFileFrame, UncommittedWithout DEF Continued
<1>7. CASE PruneSuperseded
  <2>1. Prune(mem.step, "checkpointed")
    BY <1>7 DEF PruneSuperseded
  <2> QED
    BY <2>1, PruneFrame, UncommittedWithout, UncommittedEnd
<1> QED
  BY <1>1, <1>2, <1>3, <1>4, <1>5, <1>6, <1>7 DEF Hooks

LEMMA FinishCommitsNothing ==
    ASSUME TrajectoryInv, Crash \/ Train \/ Finish,
           ~WriteRetired, ~RemovePointer, ~WriteComplete
    PROVE  Uncommitted
<1> USE DEF TrajectoryInv
<1>1. CASE Crash \/ ResultRaises \/ SummaryRaises \/ AttestRaises
  <2>1. Ended({})
    BY <1>1, CrashFrame, RaiseFrame DEF ResultRaises, SummaryRaises, AttestRaises
  <2> QED
    BY <2>1, UncommittedEnd
<1>2. CASE CollectRows
  BY <1>2, AppendingFrame, UncommittedWithout, UncommittedEnd DEF Continued
<1>3. CASE Train \/ BuildResult
  BY <1>3 DEF Train, BuildResult, Continue, Uncommitted, Sealed
<1>4. CASE PruneRetired
  <2>1. Prune(0, "summary")
    BY <1>4 DEF PruneRetired
  <2> QED
    BY <2>1, PruneFrame, UncommittedWithout, UncommittedEnd
<1>5. CASE WriteSummary \/ WriteStatus \/ Attest
  BY <1>5, WriteSummaryFrame, WriteStatusFrame, AttestFrame, UncommittedWithout DEF Continued
<1> QED
  BY <1>1, <1>2, <1>3, <1>4, <1>5 DEF Finish

LEMMA UncommittedStutters ==
    ASSUME Uncommitted
    PROVE  UNCHANGED <<Committed, Sealed>>
BY DEF Uncommitted, Committed, Sealed

\* Moving the pointer extends what was committed by what the process has done.
LEMMA PointLatestCommits ==
    ASSUME TrajectoryInv, PointLatest
    PROVE  Trajectory!Next \/ UNCHANGED <<Committed, Sealed>>
<1> USE DEF TrajectoryInv
<1>1. pc = "point" /\ mem.step \in CheckpointSteps /\ ~AtStart /\ pc \in Training
  BY DEF PointLatest, PlaceInv, Training
<1>2. disk'.latest = [step |-> mem.step, payload |-> Payload] /\ Differs(disk', disk, {"latest"})
  BY <1>1, PointLatestFrame DEF Continued
<1>3. disk'.retired = disk.retired /\ (Sealed' <=> Sealed)
  BY <1>2 DEF Differs, Parts, Sealed
<1>4. disk'.latest # None /\ disk'.latest.payload.lineage = mem.lineage
  <2>1. disk'.latest \in Pointers
    BY <1>1, <1>2, PayloadTypes DEF Pointers
  <2>2. None \notin Pointers
    BY NoneIsNothing
  <2> QED
    BY <1>2, <2>1, <2>2 DEF Payload
<1>5. disk.retired = None /\ (disk.latest # None => disk.latest.step \in CheckpointSteps)
  BY <1>1, AheadOfCheckpoint
<1>6. Committed' = mem.lineage
  BY <1>3, <1>4, <1>5 DEF Committed
<1>7. \A t \in 1 .. Steps : Committed[t] > 0 => mem.lineage[t] = Committed[t]
  <2>1. CASE disk.latest = None
    <3>1. Committed = Blank
      BY <1>5, <2>1 DEF Committed
    <3> QED
      BY <3>1 DEF Blank
  <2>2. CASE disk.latest # None
    <3>1. Committed = disk.latest.payload.lineage /\ disk.latest.step \in 0 .. Steps
      BY <1>5, <2>2, StepNumbers DEF Committed
    <3>2. \A t \in 1 .. Steps : Committed[t] > 0 => t <= disk.latest.step
      BY <2>2, <3>1 DEF LatestInv
    <3>3. \A t \in 1 .. disk.latest.step : mem.lineage[t] = Committed[t]
      BY <1>1, <2>2, <3>1 DEF ContinuesInv
    <3> QED
      BY <3>1, <3>2, <3>3, Numbers
  <2> QED
    BY <2>1, <2>2
<1>8. ~Sealed
  BY <1>1 DEF SealInv
<1>9. Sealed' = Sealed
  BY <1>3 DEF Sealed
<1>10. Trajectory!Extends(Committed, Committed')
  BY <1>6, <1>7 DEF Trajectory!Extends
<1> QED
  BY <1>8, <1>9, <1>10 DEF Trajectory!Next, Trajectory!Commit

\* The marker says what the last checkpoint said.
LEMMA RetirementStutters ==
    ASSUME TrajectoryInv, WriteRetired \/ RemovePointer
    PROVE  UNCHANGED <<Committed, Sealed>>
<1> USE DEF TrajectoryInv
<1>1. CASE WriteRetired
  <2>1. /\ pc = "retire" /\ Differs(disk', disk, {"retired"})
        /\ disk'.retired = [final |-> IF Steps \in SnapshotSteps THEN disk.index[Steps] ELSE None,
                            history |-> mem.lineage]
    BY <1>1, WriteRetiredFrame DEF Continued
  <2>2. disk'.retired # None /\ disk'.retired.history = mem.lineage
    <3>1. disk'.retired \in Markers
      BY <2>1 DEF Markers, TypeOK, Directories, Processes
    <3>2. None \notin Markers
      BY NoneIsNothing
    <3> QED
      BY <2>1, <3>1, <3>2
  <2>3. /\ mem.step = Steps /\ Steps \in CheckpointSteps /\ pc \in Training
    BY <2>1, Numbers DEF PlaceInv, Trained, Training
  <2>4. CheckpointBehind(Steps)
    BY <2>1, <2>3 DEF CheckpointBehind, Trained
  <2>5. disk.latest # None /\ Steps <= disk.latest.step
    BY <2>1, <2>3, <2>4 DEF ContinuesInv
  <2>6. disk.latest.step \in CheckpointSteps /\ disk.latest.payload.lineage \in Lineages
    BY <2>5 DEF TypeOK, Directories, Pointers, Payloads
  <2>7. disk.latest.step = Steps
    <3>1. disk.latest.step \in 0 .. Steps
      BY <2>6, StepNumbers
    <3> QED
      BY <2>5, <3>1, Numbers
  <2>8. \A t \in 1 .. Steps : mem.lineage[t] = disk.latest.payload.lineage[t]
    BY <2>3, <2>5, <2>7 DEF ContinuesInv
  <2>9. mem.lineage = disk.latest.payload.lineage
    <3>1. mem.lineage \in Lineages
      BY MemTypes
    <3>2. disk.latest.payload.lineage \in Lineages
      BY <2>6
    <3> QED
      BY <2>8, <3>1, <3>2, SameLineage
  <2>10. Committed = mem.lineage
    BY <2>5, <2>9 DEF Committed, RetiredInv
  <2>11. Committed' = mem.lineage
    BY <2>2 DEF Committed
  <2>12. Sealed' = Sealed
    BY <2>1 DEF Differs, Parts, Sealed
  <2> QED
    BY <2>10, <2>11, <2>12
<1>2. CASE RemovePointer
  <2>1. pc = "unpoint" /\ Differs(disk', disk, {"latest"})
    BY <1>2, RemovePointerFrame DEF Continued
  <2>2. disk'.retired = disk.retired /\ disk'.files = disk.files
    BY <2>1 DEF Differs, Parts
  <2>3. disk.retired # None
    BY <2>1 DEF SealInv
  <2> QED
    BY <2>2, <2>3 DEF Committed, Sealed
<1> QED
  BY <1>1, <1>2

\* COMPLETE seals the history that the marker vouches for.
LEMMA WriteCompleteSeals ==
    ASSUME CheckpointSteps # {}, TrajectoryInv, WriteComplete
    PROVE  Trajectory!Next
<1> USE DEF TrajectoryInv
<1>1. pc = "complete" /\ Differs(disk', disk, {"files"})
  BY WriteCompleteFrame
<1>2. disk.retired # None
  BY <1>1 DEF SealInv, Finishing
<1>3. disk'.retired = disk.retired
  BY <1>1 DEF Differs, Parts
<1>4. ~Sealed
  BY <1>1 DEF SealInv
<1>5. Sealed' = TRUE
  <2>1. disk' = [disk EXCEPT !.files = disk.files \cup {"COMPLETE"}]
    BY DEF WriteComplete
  <2>2. disk'.files = disk.files \cup {"COMPLETE"}
    BY <2>1 DEF TypeOK, Directories
  <2> QED
    BY <2>2 DEF Sealed
<1>6. Committed = disk.retired.history /\ Committed' = disk.retired.history
  BY <1>2, <1>3 DEF Committed
<1>7. Trajectory!Extends(Committed, Committed')
  BY <1>6 DEF Trajectory!Extends
<1>8. Trajectory!Complete(Committed')
  BY <1>2, <1>6 DEF Trajectory!Complete, RetiredInv
<1> QED
  BY <1>4, <1>5, <1>7, <1>8 DEF Trajectory!Next, Trajectory!Seal

\* A run with checkpoints never replaces a committed step, however its processes
\* end, and is sealed with a complete trajectory: it implements
\* ResumableTrajectory. Without any, nothing is ever committed.
THEOREM ImplementsTrajectory == CheckpointSteps # {} => (Spec => CommittedTrajectory)
<1> SUFFICES ASSUME CheckpointSteps # {}
             PROVE  Spec => CommittedTrajectory
  OBVIOUS
<1>1. Init => Trajectory!Init
  <2> SUFFICES ASSUME Init
               PROVE  Committed = Blank /\ ~Sealed
    BY DEF Trajectory!Init, Trajectory!Blank, Blank, Sealed
  <2>1. disk.files = {} /\ disk.latest = None /\ disk.retired = None
    BY DEF Init, Empty
  <2> QED
    BY <2>1 DEF Committed, Sealed
<1>2. TrajectoryInv /\ [Next]_vars => [Trajectory!Next]_<<Committed, Sealed>>
  <2> SUFFICES ASSUME TrajectoryInv, [Next]_vars
               PROVE  Trajectory!Next \/ UNCHANGED <<Committed, Sealed>>
    OBVIOUS
  <2>1. CASE UNCHANGED vars
    BY <2>1 DEF vars, Committed, Sealed
  <2>2. CASE PointLatest
    BY <2>2, PointLatestCommits
  <2>3. CASE WriteRetired \/ RemovePointer
    BY <2>3, RetirementStutters
  <2>4. CASE WriteComplete
    BY <2>4, WriteCompleteSeals
  <2>5. CASE /\ Launch \/ Run \/ Crash
             /\ ~PointLatest /\ ~WriteRetired /\ ~RemovePointer /\ ~WriteComplete
    BY <2>5, LaunchCommitsNothing, HooksCommitNothing, FinishCommitsNothing, UncommittedStutters
       DEF Run
  <2> QED
    BY <2>1, <2>2, <2>3, <2>4, <2>5 DEF Next
<1> QED
  BY <1>1, <1>2, TrajectoryInvariance, PTL DEF Spec, CommittedTrajectory, Trajectory!Spec

-------------------------------------------------------------------------------
\* The evidence, where the streams are left alone.

StreamsKept ==
    /\ disk'.rows = disk.rows /\ disk'.tail = disk.tail /\ disk'.last = disk.last
    /\ machine' = machine /\ attempt' \in {attempt, attempt + 1}

LEMMA StreamTypes ==
    ASSUME TypeOK, NEW s \in Streams
    PROVE  /\ disk.rows[s] \in SUBSET Entries
           /\ disk.tail[s] \in {"clean", "partial", "unterminated", "glued"}
           /\ disk.last[s] \in Entries \cup {None}
BY DEF TypeOK, Directories

LEMMA RowFields ==
    ASSUME NEW e \in Entries
    PROVE  /\ e.row \in Rows
           /\ e.row.kind \in {"evaluation", "optimization"} /\ e.row.step \in 0 .. Steps
           /\ e.row.index \in 1 .. EvalRows /\ e.row.value \in Nat
BY Numbers DEF Entries, Rows

LEMMA ValuesKept ==
    ASSUME TypeOK, ValueInv, UniqueInv, StreamsKept
    PROVE  ValueInv' /\ UniqueInv'
<1>1. UniqueInv'
  BY DEF UniqueInv, StreamsKept
<1>2. ASSUME NEW s \in Streams, NEW e \in disk.rows[s]
      PROVE  /\ machine.reproducible => e.row.value = 0
             /\ e.row.value <= attempt'
             /\ e.row.value = attempt' => disk.tail[s] # "unterminated"
  <2>1. /\ machine.reproducible => e.row.value = 0
        /\ e.row.value <= attempt
        /\ e.row.value = attempt => disk.tail[s] # "unterminated"
    BY DEF ValueInv
  <2>2. e.row.value \in Nat /\ attempt \in Nat
    BY StreamTypes, RowFields, MemTypes
  <2> QED
    BY <2>1, <2>2 DEF StreamsKept
<1> QED
  BY <1>1, <1>2 DEF ValueInv, StreamsKept

LEMMA QuietKeepsEvidence ==
    ASSUME TypeOK, EvidenceInv, StreamsKept, disk'.latest \in {disk.latest, None},
           pc' # "down" \/ Sealed' => pc # "down" \/ Sealed,
           pc' \in Training =>
             /\ pc \in Training /\ mem'.start = mem.start
             /\ \A s \in Streams, t \in EvalSteps : Appended(s, t)' => Appended(s, t),
           disk'.retired # None \/ pc' \in Finishing \/ Sealed' =>
             disk.retired # None \/ pc \in Finishing \/ Sealed
    PROVE  EvidenceInv'
<1> USE DEF EvidenceInv
<1>1. ValueInv' /\ UniqueInv'
  BY ValuesKept
<1>2. (NoRowIsGlued' <=> NoRowIsGlued) /\ (TailsAreSafe' <=> TailsAreSafe)
  BY DEF NoRowIsGlued, TailsAreSafe, StreamsKept
<1>3. \A s \in Streams, t \in EvalSteps : Full(s, t)' <=> Full(s, t)
  BY DEF Full, StreamsKept
<1>4. CleanInv'
  BY <1>2 DEF CleanInv, StreamsKept
<1>5. TailInv'
  BY <1>2 DEF TailInv, StreamsKept
<1>6. OverwrittenInv'
  BY <1>2 DEF OverwrittenInv, StreamsKept
<1>7. FullInv'
  <2>1. TailsAreSafe => (disk.latest # None =>
          \A s \in Streams, t \in EvalSteps : t <= disk.latest.step => Full(s, t))'
    BY <1>3 DEF FullInv
  <2>2. TailsAreSafe /\ pc' \in Training =>
          \A s \in Streams, t \in EvalSteps : Appended(s, t)' => Full(s, t)'
    BY <1>3 DEF FullInv
  <2> QED
    BY <1>2, <2>1, <2>2 DEF FullInv
<1>8. AllFullInv'
  BY <1>2, <1>3 DEF AllFullInv, AllFull
<1> QED
  BY <1>1, <1>4, <1>5, <1>6, <1>7, <1>8

LEMMA StreamsWithout ==
    ASSUME NEW parts, Differs(disk', disk, parts), parts \cap {"rows", "tail", "last"} = {},
           UNCHANGED machine, attempt' \in {attempt, attempt + 1}
    PROVE  StreamsKept
BY DEF Differs, Parts, StreamsKept

\* A process that ends in the middle of something else than an append.
LEMMA EndedKeepsEvidence ==
    ASSUME TrajectoryInv, EvidenceInv, UNCHANGED machine, pc # "down", NEW parts, Ended(parts),
           parts \subseteq {"files", "saved"}, Sealed' <=> Sealed
    PROVE  EvidenceInv'
<1>1. /\ Differs(disk', disk, parts \cup {"status"}) /\ pc' = "down"
      /\ attempt' \in {attempt, attempt + 1}
  BY DEF Ended
<1>2. StreamsKept
  <2>1. (parts \cup {"status"}) \cap {"rows", "tail", "last"} = {}
    OBVIOUS
  <2> QED
    BY <1>1, <2>1, StreamsWithout
<1>3. disk'.latest = disk.latest /\ disk'.retired = disk.retired
  BY <1>1 DEF Differs, Parts
<1>4. pc' \notin Training /\ pc' \notin Finishing
  BY <1>1 DEF Training, Finishing
<1> QED
  BY <1>1, <1>2, <1>3, <1>4, QuietKeepsEvidence DEF TrajectoryInv

\* A process that goes on, with no more behind it than before.
LEMMA ContinuedKeepsEvidence ==
    ASSUME TrajectoryInv, EvidenceInv, UNCHANGED <<machine, attempt>>, pc # "down",
           NEW parts, Differs(disk', disk, parts), parts \cap {"rows", "tail", "last"} = {},
           disk'.latest \in {disk.latest, None},
           pc' \in Training =>
             /\ pc \in Training /\ mem'.start = mem.start
             /\ \A s \in Streams, t \in EvalSteps : Appended(s, t)' => Appended(s, t),
           disk'.retired # None \/ pc' \in Finishing \/ Sealed' =>
             disk.retired # None \/ pc \in Finishing \/ Sealed
    PROVE  EvidenceInv'
<1>1. StreamsKept
  BY StreamsWithout
<1> QED
  BY <1>1, QuietKeepsEvidence DEF TrajectoryInv

LEMMA StopsKeepEvidence ==
    ASSUME TrajectoryInv, EvidenceInv, UNCHANGED machine,
           Crash \/ ResultRaises \/ SummaryRaises \/ AttestRaises
    PROVE  EvidenceInv'
<1>1. Ended({}) /\ pc # "down"
  BY CrashFrame, RaiseFrame
     DEF TrajectoryInv, Crash, ResultRaises, SummaryRaises, AttestRaises
<1>2. Sealed' <=> Sealed
  <2>1. "files" \notin {} \cup {"status"} /\ Differs(disk', disk, {} \cup {"status"})
    BY <1>1 DEF Ended
  <2> QED
    BY <2>1, SealedIsAFile
<1> QED
  BY <1>1, <1>2, EndedKeepsEvidence

LEMMA RecordManifestsKeepsEvidence ==
    ASSUME TrajectoryInv, EvidenceInv, UNCHANGED machine, RecordManifests
    PROVE  EvidenceInv'
<1>1. pc = "manifests" /\ (Sealed' <=> Sealed)
  BY RecordManifestsFrame DEF TrajectoryInv
<1>2. CASE Ended({"files"})
  BY <1>1, <1>2, EndedKeepsEvidence
<1>3. CASE Continued({"files"}, "restore")
  <2>1. Differs(disk', disk, {"files"}) /\ pc' = "restore" /\ UNCHANGED attempt
    BY <1>3 DEF Continued
  <2>2. disk'.latest = disk.latest /\ disk'.retired = disk.retired
    BY <2>1 DEF Differs, Parts
  <2>3. pc' \notin Training /\ pc' \notin Finishing
    BY <2>1 DEF Training, Finishing
  <2> QED
    BY <1>1, <2>1, <2>2, <2>3, ContinuedKeepsEvidence
<1> QED
  BY <1>2, <1>3, RecordManifestsFrame DEF TrajectoryInv

LEMMA RecoverKeepsEvidence ==
    ASSUME TrajectoryInv, EvidenceInv, UNCHANGED machine, Recover
    PROVE  EvidenceInv'
<1>1. pc = "restore"
  BY DEF Recover
<1>2. CASE Ended({"saved"})
  <2>1. Differs(disk', disk, {"saved"} \cup {"status"})
    BY <1>2 DEF Ended
  <2>2. Sealed' <=> Sealed
    BY <2>1 DEF Differs, Parts, Sealed
  <2> QED
    BY <1>1, <1>2, <2>2, EndedKeepsEvidence
<1>3. CASE Differs(disk', disk, {"saved"}) /\ pc' = "recovered" /\ UNCHANGED attempt
  <2>1. disk'.latest = disk.latest /\ disk'.retired = disk.retired /\ (Sealed' <=> Sealed)
    BY <1>3 DEF Differs, Parts, Sealed
  <2>2. pc' \notin Training /\ pc' \notin Finishing
    BY <1>3 DEF Training, Finishing
  <2> QED
    BY <1>1, <1>3, <2>1, <2>2, ContinuedKeepsEvidence
<1> QED
  BY <1>2, <1>3, RecoverFrame DEF TrajectoryInv

\* A resumed process has behind it what its checkpoint has.
LEMMA RestoreKeepsEvidence ==
    ASSUME TrajectoryInv, EvidenceInv, UNCHANGED machine, Restore
    PROVE  EvidenceInv'
<1> USE DEF TrajectoryInv, EvidenceInv
<1>1. pc = "restore" /\ (disk.latest # None => mem.resumed)
  BY DEF Restore, StartInv
<1>2. mem.start = 0 /\ mem.step = 0
  BY <1>1 DEF StartInv
<1>3. CASE Ended({"saved"})
  <2>1. Differs(disk', disk, {"saved"} \cup {"status"})
    BY <1>3 DEF Ended
  <2>2. Sealed' <=> Sealed
    BY <2>1 DEF Differs, Parts, Sealed
  <2> QED
    BY <1>1, <1>3, <2>2, EndedKeepsEvidence
<1>4. CASE /\ disk' \in Directories /\ Differs(disk', disk, {"saved"})
           /\ mem' = Loaded /\ pc' = "evaluate" /\ UNCHANGED attempt
  <2>1. /\ disk'.latest = disk.latest /\ disk'.retired = disk.retired /\ (Sealed' <=> Sealed)
        /\ StreamsKept
    BY <1>4 DEF Differs, Parts, Sealed, StreamsKept
  <2>2. ValueInv' /\ UniqueInv'
    BY <2>1, ValuesKept
  <2>3. (NoRowIsGlued' <=> NoRowIsGlued) /\ (TailsAreSafe' <=> TailsAreSafe)
    BY <2>1 DEF NoRowIsGlued, TailsAreSafe, StreamsKept
  <2>4. \A s \in Streams, t \in EvalSteps : Full(s, t)' <=> Full(s, t)
    BY <2>1 DEF Full, StreamsKept
  <2>5. CleanInv'
    BY <1>1, <2>1, <2>3 DEF CleanInv, StreamsKept
  <2>6. TailInv'
    BY <2>1, <2>3 DEF TailInv, StreamsKept
  <2>7. \A s \in Streams, t \in EvalSteps : Appended(s, t)' =>
          /\ ~(mem'.start < t)
          /\ disk.latest # None /\ t <= disk.latest.step
    <3>1. CASE disk.latest # None
      <4>1. mem'.start = disk.latest.step /\ mem'.step = disk.latest.step
        BY <1>1, <1>4, <3>1, LoadedFrame
      <4>2. disk.latest.step \in CheckpointSteps
        BY <3>1 DEF TypeOK, Directories, Pointers
      <4> QED
        BY <1>4, <3>1, <4>1, <4>2, StepNumbers DEF Appended, EvaluationBehind
    <3>2. CASE disk.latest = None
      <4>1. mem'.start = 0 /\ mem'.step = 0
        BY <1>2, <1>4, <3>2, LoadedFrame
      <4> QED
        BY <1>4, <4>1, StepNumbers DEF Appended, EvaluationBehind, AtStart
    <3> QED
      BY <3>1, <3>2
  <2>8. OverwrittenInv'
    BY <2>7 DEF OverwrittenInv
  <2>9. FullInv'
    <3>1. TailsAreSafe => (disk.latest # None =>
            \A s \in Streams, t \in EvalSteps : t <= disk.latest.step => Full(s, t))'
      BY <2>1, <2>4 DEF FullInv
    <3>2. TailsAreSafe =>
            \A s \in Streams, t \in EvalSteps : Appended(s, t)' => Full(s, t)'
      BY <2>4, <2>7 DEF FullInv
    <3> QED
      BY <2>3, <3>1, <3>2 DEF FullInv
  <2>10. AllFullInv'
    <3>1. pc' \notin Finishing
      BY <1>4 DEF Finishing
    <3> QED
      BY <2>1, <2>3, <2>4, <3>1 DEF AllFullInv, AllFull
  <2> QED
    BY <2>2, <2>5, <2>6, <2>8, <2>9, <2>10
<1> QED
  BY <1>1, <1>3, <1>4, RestoreFrame

\* Repairing a stream removes what is no row; every row stays.
LEMMA InitializeKeepsEvidence ==
    ASSUME TrajectoryInv, EvidenceInv, UNCHANGED machine, Initialize
    PROVE  EvidenceInv'
<1> USE DEF TrajectoryInv, EvidenceInv
<1>1. ~Sealed /\ ~Sealed' /\ pc = "down"
  BY InitializeFrame
<1>2. CASE /\ Differs(disk', disk, {"files"})
           /\ UNCHANGED <<mem, pc>>
           /\ attempt' = attempt + 1
  <2>1. disk'.latest = disk.latest /\ disk'.retired = disk.retired /\ StreamsKept
    BY <1>2 DEF Differs, Parts, StreamsKept
  <2>2. pc' \notin Training /\ pc' \notin Finishing
    BY <1>1, <1>2 DEF Training, Finishing
  <2> QED
    BY <1>1, <1>2, <2>1, <2>2, QuietKeepsEvidence
<1>3. CASE /\ Differs(disk', disk, {"files", "tail", "status"})
           /\ disk'.tail = Repaired
           /\ pc' = "manifests" /\ UNCHANGED attempt
  <2>1. /\ disk'.latest = disk.latest /\ disk'.retired = disk.retired
        /\ disk'.rows = disk.rows /\ disk'.last = disk.last
    BY <1>3 DEF Differs, Parts
  <2>2. \A s \in Streams : /\ disk'.tail[s] = "unterminated" <=> disk.tail[s] = "unterminated"
                           /\ disk'.tail[s] # "partial"
                           /\ disk.tail[s] = "partial" => disk'.tail[s] = "clean"
                           /\ disk.tail[s] = "clean" => disk'.tail[s] = "clean"
    BY <1>3 DEF Repaired
  <2>3. (NoRowIsGlued' <=> NoRowIsGlued) /\ (TailsAreSafe' <=> TailsAreSafe)
    BY DEF NoRowIsGlued, TailsAreSafe
  <2>4. \A s \in Streams, t \in EvalSteps : Full(s, t)' <=> Full(s, t)
    BY <2>1 DEF Full
  <2>5. pc' \notin Training /\ pc' \notin Finishing
    BY <1>3 DEF Training, Finishing
  <2>6. ValueInv'
    BY <1>3, <2>1, <2>2 DEF ValueInv
  <2>7. UniqueInv'
    BY <2>1 DEF UniqueInv
  <2>8. CleanInv'
    BY <2>2, <2>3 DEF CleanInv
  <2>9. TailInv'
    BY <2>1, <2>2, <2>3 DEF TailInv
  <2>10. OverwrittenInv'
    BY <2>5 DEF OverwrittenInv
  <2>11. FullInv'
    BY <2>1, <2>3, <2>4, <2>5 DEF FullInv
  <2>12. AllFullInv'
    BY <1>1, <2>1, <2>3, <2>4, <2>5 DEF AllFullInv, AllFull
  <2> QED
    BY <2>6, <2>7, <2>8, <2>9, <2>10, <2>11, <2>12
<1> QED
  BY <1>2, <1>3, InitializeFrame

-------------------------------------------------------------------------------
\* The evidence, and steps that leave no more evaluations behind.

LEMMA SkipHookKeepsEvidence ==
    ASSUME TrajectoryInv, EvidenceInv, UNCHANGED machine, SkipHook
    PROVE  EvidenceInv'
<1>1. /\ disk' = disk /\ mem' = mem /\ attempt' = attempt
      /\ \/ pc = "evaluate" /\ ~EvaluationDue /\ pc' = "checkpoint"
         \/ pc = "checkpoint" /\ ~CheckpointDue /\ pc' = "loop"
  BY DEF SkipHook, Continue
<1>2. Differs(disk', disk, {}) /\ (Sealed' <=> Sealed)
  BY <1>1 DEF Differs, Sealed
<1>3. \A s \in Streams, t \in EvalSteps : Appended(s, t)' => Appended(s, t)
  BY <1>1, DueIsNotAtStart DEF Appended, EvaluationBehind, AtStart
<1>4. pc \in Training /\ pc' \in Training /\ pc' \notin Finishing /\ pc # "down"
  BY <1>1 DEF Training, Finishing
<1> QED
  BY <1>1, <1>2, <1>3, <1>4, ContinuedKeepsEvidence

LEMMA EmitsKeepEvidence ==
    ASSUME TrajectoryInv, EvidenceInv, UNCHANGED machine, Evaluated \/ Checkpointed
    PROVE  EvidenceInv'
<1>1. /\ disk' = disk /\ mem'.start = mem.start /\ mem'.step = mem.step /\ attempt' = attempt
      /\ \/ pc = "evaluated" /\ pc' = "checkpoint"
         \/ pc = "checkpointed" /\ pc' = "loop"
  BY EmitFrame DEF Evaluated, Checkpointed, TrajectoryInv
<1>2. Differs(disk', disk, {}) /\ (Sealed' <=> Sealed)
  BY <1>1 DEF Differs, Sealed
<1>3. \A s \in Streams, t \in EvalSteps : Appended(s, t)' => Appended(s, t)
  BY <1>1 DEF Appended, EvaluationBehind, AtStart
<1>4. pc \in Training /\ pc' \in Training /\ pc' \notin Finishing /\ pc # "down"
  BY <1>1 DEF Training, Finishing
<1> QED
  BY <1>1, <1>2, <1>3, <1>4, ContinuedKeepsEvidence

LEMMA TrainKeepsEvidence ==
    ASSUME TrajectoryInv, EvidenceInv, UNCHANGED machine, Train
    PROVE  EvidenceInv'
<1>1. /\ disk' = disk /\ mem'.start = mem.start /\ mem'.step = mem.step + 1 /\ attempt' = attempt
      /\ pc = "loop" /\ pc' = "evaluate"
  BY TrainFrame DEF TrajectoryInv
<1>2. Differs(disk', disk, {}) /\ (Sealed' <=> Sealed)
  BY <1>1 DEF Differs, Sealed
<1>3. pc \in Training /\ pc' \in Training /\ pc' \notin Finishing /\ pc # "down"
  BY <1>1 DEF Training, Finishing
<1>4. mem.start <= mem.step /\ mem.start \in Nat /\ mem.step \in Nat
  BY <1>3, MemTypes DEF TrajectoryInv, MemInv
<1>5. \A s \in Streams, t \in EvalSteps : Appended(s, t)' => Appended(s, t)
  BY <1>1, <1>4, StepNumbers DEF Appended, EvaluationBehind, AtStart
<1> QED
  BY <1>1, <1>2, <1>3, <1>5, ContinuedKeepsEvidence

\* The steps of checkpoint_callback before and after the pointer.
LEMMA CheckpointKeepsEvidence ==
    ASSUME TrajectoryInv, EvidenceInv, UNCHANGED machine, WriteSnapshot \/ WriteIndex \/ SaveFile
    PROVE  EvidenceInv'
<1> USE DEF TrajectoryInv
<1>1. PICK parts \in {{}, {"snapshot"}, {"index"}, {"saved"}} :
        /\ Differs(disk', disk, parts) /\ mem' = mem /\ attempt' = attempt
        /\ pc \in {"checkpoint", "index", "save"}
        /\ pc' \in {"index", "save", "point", "checkpointed"}
  <2>1. CASE WriteSnapshot
    BY <2>1, WriteSnapshotFrame DEF Continued
  <2>2. CASE WriteIndex
    <3>1. mem.step \in SnapshotSteps
      BY <2>2 DEF WriteIndex, PlaceInv
    <3> QED
      BY <2>2, <3>1, WriteIndexFrame DEF Continued
  <2>3. CASE SaveFile
    <3>1. mem.step \in CheckpointSteps
      BY <2>3 DEF SaveFile, PlaceInv
    <3> QED
      BY <2>3, <3>1, SaveFileFrame DEF Continued
  <2> QED
    BY <2>1, <2>2, <2>3
<1>2. /\ disk'.latest = disk.latest /\ disk'.retired = disk.retired /\ (Sealed' <=> Sealed)
      /\ parts \cap {"rows", "tail", "last"} = {}
  BY <1>1 DEF Differs, Parts, Sealed
<1>3. \A s \in Streams, t \in EvalSteps : Appended(s, t)' => Appended(s, t)
  BY <1>1 DEF Appended, EvaluationBehind, AtStart
<1>4. pc \in Training /\ pc' \in Training /\ pc' \notin Finishing /\ pc # "down"
  BY <1>1 DEF Training, Finishing
<1> QED
  BY <1>1, <1>2, <1>3, <1>4, ContinuedKeepsEvidence

LEMMA PruneSupersededKeepsEvidence ==
    ASSUME TrajectoryInv, EvidenceInv, UNCHANGED machine, PruneSuperseded
    PROVE  EvidenceInv'
<1>1. pc = "prune" /\ Prune(mem.step, "checkpointed")
  BY DEF PruneSuperseded
<1>2. CASE Ended({"saved"})
  <2>1. Differs(disk', disk, {"saved"} \cup {"status"})
    BY <1>2 DEF Ended
  <2>2. Sealed' <=> Sealed
    BY <2>1 DEF Differs, Parts, Sealed
  <2> QED
    BY <1>1, <1>2, <2>2, EndedKeepsEvidence
<1>3. CASE /\ Differs(disk', disk, {"saved"})
           /\ pc' = "checkpointed" /\ UNCHANGED <<mem, attempt>>
  <2>1. disk'.latest = disk.latest /\ disk'.retired = disk.retired /\ (Sealed' <=> Sealed)
    BY <1>3 DEF Differs, Parts, Sealed
  <2>2. \A s \in Streams, t \in EvalSteps : Appended(s, t)' => Appended(s, t)
    BY <1>1, <1>3 DEF Appended, EvaluationBehind, AtStart
  <2>3. pc \in Training /\ pc' \in Training /\ pc' \notin Finishing
    BY <1>1, <1>3 DEF Training, Finishing
  <2> QED
    BY <1>1, <1>3, <2>1, <2>2, <2>3, ContinuedKeepsEvidence
<1> QED
  BY <1>1, <1>2, <1>3, PruneFrame DEF TrajectoryInv

\* A checkpoint is named when its evaluations are durable, and the one of its own
\* step has left no row unterminated.
LEMMA PointLatestKeepsEvidence ==
    ASSUME TrajectoryInv, EvidenceInv, UNCHANGED machine, PointLatest
    PROVE  EvidenceInv'
<1> USE DEF TrajectoryInv, EvidenceInv
<1>1. pc = "point" /\ mem.step \in CheckpointSteps /\ ~AtStart /\ pc \in Training
  BY DEF PointLatest, PlaceInv, Training
<1>2. /\ Differs(disk', disk, {"latest"}) /\ pc' = "prune" /\ mem' = mem /\ attempt' = attempt
      /\ disk'.latest.step = mem.step
  BY <1>1, PointLatestFrame DEF Continued
<1>3. /\ disk'.retired = disk.retired /\ (Sealed' <=> Sealed) /\ StreamsKept
  BY <1>2 DEF Differs, Parts, Sealed, StreamsKept
<1>4. ValueInv' /\ UniqueInv'
  BY <1>3, ValuesKept
<1>5. (NoRowIsGlued' <=> NoRowIsGlued) /\ (TailsAreSafe' <=> TailsAreSafe)
  BY <1>3 DEF NoRowIsGlued, TailsAreSafe, StreamsKept
<1>6. \A s \in Streams, t \in EvalSteps : Full(s, t)' <=> Full(s, t)
  BY <1>3 DEF Full, StreamsKept
<1>7. pc' \in Training /\ pc' \notin Finishing /\ pc' # "down" /\ pc # "down"
  BY <1>1, <1>2 DEF Training, Finishing
<1>8. \A s \in Streams, t \in EvalSteps : /\ Appended(s, t)' <=> Appended(s, t)
                                          /\ t <= mem.step => Appended(s, t)
  BY <1>1, <1>2, StepNumbers, MemTypes DEF Appended, EvaluationBehind, AtStart
<1>9. CleanInv'
  BY <1>3, <1>5, <1>7 DEF CleanInv, StreamsKept
<1>10. TailInv'
  <2>1. mem.step \in EvalSteps /\ mem.start < mem.step /\ mem.step <= mem.step
    <3>1. mem.step \in EvalSteps /\ 0 < mem.step
      BY <1>1, StepNumbers
    <3>2. mem.start <= mem.step
      BY <1>1 DEF MemInv
    <3> QED
      BY <1>1, <3>1, <3>2, MemTypes DEF AtStart
  <2>2. TailsAreSafe => \A s \in Streams : disk.tail[s] # "unterminated"
    BY <1>1, <1>8, <2>1 DEF OverwrittenInv
  <2> QED
    BY <1>3, <1>5, <2>2 DEF TailInv, StreamsKept
<1>11. OverwrittenInv'
  BY <1>1, <1>2, <1>3, <1>5, <1>8 DEF OverwrittenInv, StreamsKept
<1>12. FullInv'
  <2>1. TailsAreSafe =>
          \A s \in Streams, t \in EvalSteps : t <= disk'.latest.step => Full(s, t)'
    BY <1>1, <1>2, <1>6, <1>8 DEF FullInv
  <2>2. TailsAreSafe =>
          \A s \in Streams, t \in EvalSteps : Appended(s, t)' => Full(s, t)'
    BY <1>1, <1>6, <1>8 DEF FullInv
  <2> QED
    BY <1>5, <2>1, <2>2 DEF FullInv
<1>13. AllFullInv'
  BY <1>3, <1>5, <1>6, <1>7 DEF AllFullInv, AllFull
<1> QED
  BY <1>4, <1>9, <1>10, <1>11, <1>12, <1>13

-------------------------------------------------------------------------------
\* The evidence at the end of a run.

\* What a process that has done all updates has appended is every evaluation.
LEMMA TrainedIsFull ==
    ASSUME TrajectoryInv, EvidenceInv, pc \in Trained
    PROVE  NoRowIsGlued => AllFull
<1>1. pc \in Training /\ mem.step = Steps
  BY DEF TrajectoryInv, PlaceInv, Training, Trained
<1>2. \A s \in Streams, t \in EvalSteps : Appended(s, t)
  BY <1>1, StepNumbers, Numbers DEF Appended, EvaluationBehind, Trained
<1> QED
  BY <1>1, <1>2 DEF EvidenceInv, FullInv, TailsAreSafe, AllFull

\* Evidence that is complete stays so when the streams do.
LEMMA FullKeepsEvidence ==
    ASSUME TrajectoryInv, EvidenceInv, NoRowIsGlued => AllFull,
           UNCHANGED <<machine, attempt>>, pc # "down",
           NEW parts, Differs(disk', disk, parts), parts \cap {"rows", "tail", "last"} = {},
           disk'.latest \in {disk.latest, None},
           pc' \in Training =>
             /\ pc \in Training /\ mem'.start = mem.start
             /\ \A s \in Streams, t \in EvalSteps : Appended(s, t)' => Appended(s, t)
    PROVE  EvidenceInv'
<1> USE DEF EvidenceInv
<1>1. StreamsKept
  BY StreamsWithout
<1>2. ValueInv' /\ UniqueInv'
  BY <1>1, ValuesKept DEF TrajectoryInv
<1>3. (NoRowIsGlued' <=> NoRowIsGlued) /\ (TailsAreSafe' <=> TailsAreSafe)
  BY DEF NoRowIsGlued, TailsAreSafe
<1>4. \A s \in Streams, t \in EvalSteps : Full(s, t)' <=> Full(s, t)
  BY <1>1 DEF Full, StreamsKept
<1>5. CleanInv'
  BY <1>1, <1>3 DEF CleanInv, StreamsKept
<1>6. TailInv'
  BY <1>1, <1>3 DEF TailInv, StreamsKept
<1>7. OverwrittenInv'
  BY <1>1, <1>3 DEF OverwrittenInv, StreamsKept
<1>8. FullInv'
  <2>1. TailsAreSafe => (disk.latest # None =>
          \A s \in Streams, t \in EvalSteps : t <= disk.latest.step => Full(s, t))'
    BY <1>4 DEF FullInv
  <2>2. TailsAreSafe /\ pc' \in Training =>
          \A s \in Streams, t \in EvalSteps : Appended(s, t)' => Full(s, t)'
    BY <1>4 DEF FullInv
  <2> QED
    BY <1>3, <2>1, <2>2 DEF FullInv
<1>9. AllFullInv'
  BY <1>3, <1>4 DEF AllFullInv, AllFull
<1> QED
  BY <1>2, <1>5, <1>6, <1>7, <1>8, <1>9

\* From there on nothing is appended.
LEMMA EndKeepsEvidence ==
    ASSUME TrajectoryInv, EvidenceInv, UNCHANGED machine,
           BuildResult \/ WriteRetired \/ RemovePointer \/ PruneRetired
    PROVE  EvidenceInv'
<1> USE DEF TrajectoryInv
<1>1. CASE Ended({"saved"}) /\ PruneRetired
  <2>1. Differs(disk', disk, {"saved"} \cup {"status"})
    BY <1>1 DEF Ended
  <2>2. Sealed' <=> Sealed
    BY <2>1 DEF Differs, Parts, Sealed
  <2>3. pc # "down"
    BY <1>1 DEF PruneRetired
  <2> QED
    BY <1>1, <2>2, <2>3, EndedKeepsEvidence
<1>2. CASE \E parts \in {{}, {"retired"}, {"latest"}, {"saved"}} :
             /\ Differs(disk', disk, parts) /\ mem' = mem /\ attempt' = attempt
             /\ disk'.latest \in {disk.latest, None}
             /\ pc \in Trained \cup {"recovered"}
             /\ pc' \in {"retire", "unpoint", "unlink", "summary"}
             /\ pc = "recovered" => pc' = "summary"
  <2>1. PICK parts \in {{}, {"retired"}, {"latest"}, {"saved"}} :
             /\ Differs(disk', disk, parts) /\ mem' = mem /\ attempt' = attempt
             /\ disk'.latest \in {disk.latest, None}
             /\ pc \in Trained \cup {"recovered"}
             /\ pc' \in {"retire", "unpoint", "unlink", "summary"}
             /\ pc = "recovered" => pc' = "summary"
    BY <1>2
  <2>2. NoRowIsGlued => AllFull
    <3>1. CASE pc \in Trained
      BY <3>1, TrainedIsFull
    <3>2. CASE pc = "recovered"
      BY <3>2 DEF SealInv, EvidenceInv, AllFullInv
    <3> QED
      BY <2>1, <3>1, <3>2
  <2>3. parts \cap {"rows", "tail", "last"} = {} /\ pc # "down"
    BY <2>1 DEF Trained
  <2>4. pc' \in Training =>
          /\ pc \in Training /\ mem'.start = mem.start
          /\ \A s \in Streams, t \in EvalSteps : Appended(s, t)' => Appended(s, t)
    <3>1. SUFFICES ASSUME pc' \in Training
                   PROVE  /\ pc \in Training /\ mem'.start = mem.start
                          /\ \A s \in Streams, t \in EvalSteps : Appended(s, t)' => Appended(s, t)
      OBVIOUS
    <3>2. pc \in Trained
      BY <2>1, <3>1 DEF Training
    <3> QED
      BY <2>1, <3>1, <3>2 DEF Training, Trained, Appended, EvaluationBehind, AtStart
  <2> QED
    BY <2>1, <2>2, <2>3, <2>4, FullKeepsEvidence
<1>3. CASE BuildResult
  <2>1. /\ disk' = disk /\ mem' = mem /\ attempt' = attempt
        /\ pc \in {"result", "recovered"} /\ pc' \in {"retire", "summary"}
        /\ pc = "recovered" => pc' = "summary"
    BY <1>3 DEF BuildResult, Continue
  <2>2. Differs(disk', disk, {}) /\ pc \in Trained \cup {"recovered"}
    BY <2>1 DEF Differs, Trained
  <2> QED
    BY <1>2, <2>1, <2>2
<1>4. CASE WriteRetired
  <2>1. /\ Differs(disk', disk, {"retired"}) /\ mem' = mem /\ attempt' = attempt
        /\ pc = "retire" /\ pc' = "unpoint"
    BY <1>4, WriteRetiredFrame DEF Continued
  <2>2. disk'.latest = disk.latest
    BY <2>1 DEF Differs, Parts
  <2> QED
    BY <1>2, <2>1, <2>2 DEF Trained
<1>5. CASE RemovePointer
  <2>1. /\ Differs(disk', disk, {"latest"}) /\ mem' = mem /\ attempt' = attempt
        /\ pc = "unpoint" /\ pc' = "unlink" /\ disk'.latest = None
    BY <1>5, RemovePointerFrame DEF Continued
  <2> QED
    BY <1>2, <2>1 DEF Trained
<1>6. CASE PruneRetired
  <2>1. pc = "unlink" /\ Prune(0, "summary")
    BY <1>6 DEF PruneRetired
  <2>2. CASE Differs(disk', disk, {"saved"}) /\ pc' = "summary" /\ UNCHANGED <<mem, attempt>>
    <3>1. disk'.latest = disk.latest
      BY <2>2 DEF Differs, Parts
    <3> QED
      BY <1>2, <2>1, <2>2, <3>1 DEF Trained
  <2> QED
    BY <1>1, <1>6, <2>1, <2>2, PruneFrame
<1> QED
  BY <1>3, <1>4, <1>5, <1>6

LEMMA FinalizeKeepsEvidence ==
    ASSUME TrajectoryInv, EvidenceInv, UNCHANGED machine,
           WriteSummary \/ WriteStatus \/ Attest \/ WriteComplete
    PROVE  EvidenceInv'
<1> USE DEF TrajectoryInv
<1>1. PICK parts \in {{"summary"}, {"status"}, {"completion"}, {"files"}} :
        /\ Differs(disk', disk, parts) /\ attempt' = attempt
        /\ pc \in Finishing /\ pc' \in Finishing \cup {"down"}
  <2>1. CASE WriteSummary
    BY <2>1, WriteSummaryFrame DEF Continued, Finishing
  <2>2. CASE WriteStatus
    BY <2>2, WriteStatusFrame DEF Continued, Finishing
  <2>3. CASE Attest
    BY <2>3, AttestFrame DEF Continued, Finishing
  <2>4. CASE WriteComplete
    BY <2>4, WriteCompleteFrame DEF Finishing
  <2> QED
    BY <2>1, <2>2, <2>3, <2>4
<1>2. disk'.latest = disk.latest /\ parts \cap {"rows", "tail", "last"} = {}
  BY <1>1 DEF Differs, Parts
<1>3. pc # "down" /\ pc' \notin Training
  BY <1>1 DEF Finishing, Training
<1> QED
  BY <1>1, <1>2, <1>3, ContinuedKeepsEvidence

-------------------------------------------------------------------------------
\* The evidence and the streams.

\* The rows of a batch say what their attempt has computed.
Fresh(batch) ==
    \A r \in batch : (machine.reproducible => r.value = 0) /\ r.value \in {0, attempt}

\* And none of them is of an evaluation that a checkpoint counts.
BeyondLatest(batch) ==
    disk.latest # None => \A r \in batch : r.kind = "optimization" \/ r.step > disk.latest.step

LEMMA RowIs ==
    ASSUME NEW kind, NEW s, NEW i
    PROVE  /\ Row(kind, s, i).kind = kind /\ Row(kind, s, i).step = s
           /\ Row(kind, s, i).index = i /\ Row(kind, s, i).value = Value(s)
BY DEF Row

LEMMA EntryIs ==
    ASSUME NEW r
    PROVE  Entry(r).row = r
BY DEF Entry

\* The value of a step that the process has made itself.
LEMMA FreshValue ==
    ASSUME TrajectoryInv, pc \in Training, NEW s \in 0 .. Steps,
           s = 0 \/ (mem.start < s /\ s <= mem.step)
    PROVE  /\ machine.reproducible => Value(s) = 0
           /\ Value(s) \in {0, attempt}
           /\ ~machine.reproducible /\ s # 0 => Value(s) = attempt
<1>1. s # 0 => s \in 1 .. Steps
  BY Numbers
<1>2. s # 0 => mem.lineage[s] = attempt
  BY <1>1 DEF TrajectoryInv, MemInv
<1> QED
  BY <1>2 DEF Value

\* An append, where it is made and what it takes.
LEMMA AppendsAreFresh ==
    ASSUME TrajectoryInv
    PROVE  /\ pc = "evaluate" /\ EvaluationDue =>
                Fresh(EvaluationMetrics) /\ BeyondLatest(EvaluationMetrics)
           /\ pc = "predict" => Fresh(EvaluationRows) /\ BeyondLatest(EvaluationRows)
           /\ pc = "loop" /\ ~Remaining =>
                Fresh(OptimizationRows) /\ BeyondLatest(OptimizationRows)
<1> USE DEF TrajectoryInv
<1>1. ASSUME pc \in {"evaluate", "predict"}, ~AtStart
      PROVE  /\ Fresh(EvaluationRows) /\ BeyondLatest(EvaluationRows)
             /\ Fresh(EvaluationMetrics) /\ BeyondLatest(EvaluationMetrics)
  <2>1. pc \in Training
    BY <1>1 DEF Training
  <2>2. mem.step = 0 \/ (mem.start < mem.step /\ mem.step <= mem.step)
    <3>1. mem.start <= mem.step
      BY <2>1 DEF MemInv
    <3> QED
      BY <1>1, <3>1, MemTypes DEF AtStart
  <2>3. /\ machine.reproducible => Value(mem.step) = 0
        /\ Value(mem.step) \in {0, attempt}
    BY <2>1, <2>2, FreshValue, MemTypes
  <2>4. disk.latest # None => mem.step > disk.latest.step
    <3>1. disk.latest # None => disk.latest.step \in CheckpointSteps /\ disk.latest.step < mem.step
      BY <1>1, AheadOfCheckpoint
    <3> QED
      BY <3>1, StepNumbers, MemTypes
  <2>5. \A r \in EvaluationMetrics : r.value = Value(mem.step) /\ r.step = mem.step
    BY RowIs DEF EvaluationMetrics, EvaluationRows
  <2>6. EvaluationRows \subseteq EvaluationMetrics
    BY DEF EvaluationMetrics
  <2>7. Fresh(EvaluationMetrics) /\ BeyondLatest(EvaluationMetrics)
    BY <2>3, <2>4, <2>5 DEF Fresh, BeyondLatest
  <2> QED
    BY <2>6, <2>7 DEF Fresh, BeyondLatest
<1>2. pc = "predict" => ~AtStart
  BY DEF PlaceInv
<1>3. ASSUME pc = "loop", ~Remaining
      PROVE  Fresh(OptimizationRows) /\ BeyondLatest(OptimizationRows)
  <2>1. pc \in Training /\ mem.step = Steps
    BY <1>3, MemTypes, Numbers DEF Training, Remaining
  <2>2. \A s \in mem.start + 1 .. Steps : s \in 0 .. Steps /\ mem.start < s /\ s <= mem.step
    BY <2>1, MemTypes, Numbers
  <2>3. \A s \in mem.start + 1 .. Steps : /\ machine.reproducible => Value(s) = 0
                                          /\ Value(s) \in {0, attempt}
    BY <2>1, <2>2, FreshValue
  <2>4. \A r \in OptimizationRows : \E s \in mem.start + 1 .. Steps :
          r.value = Value(s) /\ r.kind = "optimization"
    BY RowIs DEF OptimizationRows
  <2> QED
    BY <2>3, <2>4 DEF Fresh, BeyondLatest
<1> QED
  BY <1>1, <1>2, <1>3, DueIsNotAtStart

\* No stream says a row twice, whether the append is finished or not.
LEMMA AppendsAreNew ==
    ASSUME UniqueInv, NEW stream \in Streams, NEW batch, NEW w \in SUBSET Novel(stream, batch),
           NEW end, NEW last, WrittenTo(disk', stream, w, end, last)
    PROVE  UniqueInv'
<1>1. ASSUME NEW e \in disk'.rows[stream], NEW f \in disk'.rows[stream], e.row = f.row
      PROVE  e = f
  <2>1. \A g \in disk'.rows[stream] : g \in disk.rows[stream] \/ \E r \in w : g = Entry(r)
    BY DEF WrittenTo
  <2>2. CASE e \in disk.rows[stream] /\ f \in disk.rows[stream]
    BY <1>1, <2>2 DEF UniqueInv
  <2>3. \A r \in w, g \in disk.rows[stream] : g.row # Entry(r).row
    BY EntryIs DEF Novel, Durable
  <2>4. CASE (\E r \in w : e = Entry(r)) /\ (\E r \in w : f = Entry(r))
    BY <1>1, <2>4, EntryIs
  <2> QED
    BY <1>1, <2>1, <2>2, <2>3, <2>4
<1>2. \A s \in Streams : s # stream => disk'.rows[s] = disk.rows[s]
  BY DEF WrittenTo
<1> QED
  BY <1>1, <1>2 DEF UniqueInv

\* An append that is cut short takes no evidence of the checkpoint.
LEMMA CutKeepsEvidence ==
    ASSUME TrajectoryInv, EvidenceInv, UNCHANGED machine, pc \in Appending,
           NEW stream \in Streams, NEW batch \in SUBSET Rows, Fresh(batch), BeyondLatest(batch),
           CutOff(stream, batch), Ended({"rows", "tail", "last"}), attempt' = attempt + 1
    PROVE  EvidenceInv'
<1> USE DEF TrajectoryInv, EvidenceInv
<1>1. PICK w \in SUBSET Novel(stream, batch), end \in Ends, last \in Entries \cup {None} :
        /\ WrittenTo(disk', stream, w, end, last)
        /\ end = "unterminated" =>
             "unterminated" \in machine.tails /\ \E r \in w : last = Entry(r)
  BY DEF CutOff
<1>2. /\ disk'.latest = disk.latest /\ disk'.retired = disk.retired /\ (Sealed' <=> Sealed)
      /\ pc' = "down"
  BY DEF Ended, Differs, Parts, Sealed
<1>3. pc # "down" /\ pc' \notin Training /\ pc' \notin Finishing /\ ~Sealed
  BY <1>2 DEF Appending, Training, Finishing, SealInv
<1>4. (NoRowIsGlued' <=> NoRowIsGlued) /\ (TailsAreSafe' <=> TailsAreSafe)
  BY DEF NoRowIsGlued, TailsAreSafe
<1>5. w \subseteq batch
  BY DEF Novel
<1>6. /\ \A s \in Streams : s # stream =>
           /\ disk'.rows[s] = disk.rows[s] /\ disk'.tail[s] = disk.tail[s]
           /\ disk'.last[s] = disk.last[s]
      /\ disk'.rows[stream] = (IF TakesTwo(stream, w, end) THEN disk.rows[stream] \ {disk.last[stream]}
                               ELSE disk.rows[stream]) \cup {Entry(r) : r \in w}
      /\ disk'.tail[stream] = IF w = {} /\ end = "clean" THEN disk.tail[stream]
                              ELSE IF disk.tail[stream] = "clean" \/ TakesTwo(stream, w, end) THEN end
                              ELSE "glued"
      /\ disk'.last[stream] = IF w = {} /\ end = "clean" THEN disk.last[stream] ELSE last
  BY <1>1 DEF WrittenTo
<1>7. ValueInv'
  <2>1. \A s \in Streams : \A e \in disk'.rows[s] :
          e \in disk.rows[s] \/ \E r \in w : e.row = r
    BY <1>6, EntryIs
  <2>2. \A s \in Streams : \A e \in disk.rows[s] :
          /\ machine.reproducible => e.row.value = 0
          /\ e.row.value \in Nat /\ e.row.value <= attempt
    BY StreamTypes, RowFields DEF ValueInv
  <2>3. \A r \in w : (machine.reproducible => r.value = 0) /\ r.value \in {0, attempt}
    BY <1>5 DEF Fresh
  <2>4. \A s \in Streams : \A e \in disk'.rows[s] :
          /\ machine.reproducible => e.row.value = 0
          /\ e.row.value \in Nat /\ e.row.value <= attempt
    BY <2>1, <2>2, <2>3, MemTypes
  <2>5. \A s \in Streams : \A e \in disk'.rows[s] :
          e.row.value <= attempt' /\ e.row.value # attempt'
    BY <2>4, MemTypes
  <2> QED
    BY <2>4, <2>5 DEF ValueInv
<1>8. UniqueInv'
  BY <1>1, AppendsAreNew
<1>9. CleanInv'
  <2>1. NoRowIsGlued => \A s \in Streams : disk.tail[s] = "clean"
    BY <1>3 DEF CleanInv
  <2>2. NoRowIsGlued => end \in {"clean", "partial"}
    BY <1>1 DEF NoRowIsGlued, Ends
  <2>3. NoRowIsGlued => \A s \in Streams : disk'.tail[s] \in {"clean", "partial"}
    BY <1>6, <2>1, <2>2
  <2> QED
    BY <1>2, <1>3, <1>4, <2>3 DEF CleanInv
<1>10. TailInv'
  <2> SUFFICES ASSUME TailsAreSafe, NEW s \in Streams, disk'.tail[s] = "unterminated",
                      disk.latest # None, disk'.last[s] # None
               PROVE  \/ disk'.last[s].row.kind = "optimization"
                      \/ disk'.last[s].row.step > disk.latest.step
    BY <1>2, <1>4 DEF TailInv
  <2>1. CASE disk'.tail[s] = disk.tail[s] /\ disk'.last[s] = disk.last[s]
    BY <2>1 DEF TailInv
  <2>2. CASE s = stream /\ end = "unterminated" /\ disk'.last[s] = last
    <3>1. PICK r \in w : last = Entry(r)
      BY <1>1, <2>2
    <3>2. last.row = r /\ r \in batch
      BY <1>5, <3>1, EntryIs
    <3> QED
      BY <2>2, <3>2 DEF BeyondLatest
  <2>3. TakesTwo(stream, w, end) => end = "partial"
    BY DEF TakesTwo
  <2> QED
    BY <1>6, <2>1, <2>2, <2>3
<1>11. OverwrittenInv'
  BY <1>3 DEF OverwrittenInv
<1>12. FullInv'
  <2> SUFFICES ASSUME TailsAreSafe, disk.latest # None, NEW s \in Streams, NEW t \in EvalSteps,
                      t <= disk.latest.step
               PROVE  Full(s, t)'
    BY <1>2, <1>3, <1>4 DEF FullInv
  <2>1. Full(s, t)
    BY DEF FullInv
  <2>2. disk.latest.step \in 0 .. Steps /\ t \in 0 .. Steps
    BY StepNumbers DEF TypeOK, Directories, Pointers
  <2>3. ASSUME NEW e \in disk.rows[s], e.row.kind = "evaluation", e.row.step = t
        PROVE  e \in disk'.rows[s]
    <3>1. CASE s # stream \/ ~TakesTwo(stream, w, end)
      BY <1>6, <3>1
    <3>2. CASE s = stream /\ TakesTwo(stream, w, end)
      <4>1. disk.tail[s] = "unterminated"
        BY <3>2 DEF TakesTwo
      <4>2. e \in Entries
        BY StreamTypes
      <4>3. e # None
        BY <4>2, NoneIsNothing
      <4>4. e # disk.last[s]
        <5>1. SUFFICES ASSUME e = disk.last[s] PROVE FALSE
          OBVIOUS
        <5>2. e.row.kind = "optimization" \/ e.row.step > disk.latest.step
          BY <4>1, <4>3, <5>1 DEF TailInv
        <5> QED
          BY <2>2, <2>3, <5>2
      <4> QED
        BY <1>6, <3>2, <4>4
    <3> QED
      BY <3>1, <3>2
  <2> QED
    BY <2>1, <2>3 DEF Full
<1>13. AllFullInv'
  <2> SUFFICES ASSUME NoRowIsGlued, disk.retired # None
               PROVE  AllFull'
    BY <1>2, <1>3, <1>4 DEF AllFullInv
  <2>1. AllFull
    BY DEF AllFullInv
  <2>2. disk.tail[stream] = "clean"
    BY <1>3 DEF CleanInv
  <2>3. \A s \in Streams : disk.rows[s] \subseteq disk'.rows[s]
    BY <1>6, <2>2 DEF TakesTwo
  <2> QED
    BY <2>1, <2>3 DEF AllFull, Full
<1> QED
  BY <1>7, <1>8, <1>9, <1>10, <1>11, <1>12, <1>13

\* A finished append takes nothing and makes the evaluation it is of complete.
LEMMA FinishedKeepsEvidence ==
    ASSUME TrajectoryInv, EvidenceInv, UNCHANGED machine, pc \in Appending,
           NEW stream \in Streams, NEW batch \in SUBSET Rows, Fresh(batch), NEW next \in Training,
           Continued({"rows", "tail", "last"}, next),
           WrittenTo(disk', stream, Novel(stream, batch), "clean", None),
           \A s \in Streams, t \in EvalSteps : Appended(s, t)' =>
             Appended(s, t) \/ (s = stream /\ t = mem.step /\ EvaluationRows \subseteq batch)
    PROVE  EvidenceInv'
<1> USE DEF TrajectoryInv, EvidenceInv
<1> DEFINE new == Novel(stream, batch)
<1>1. /\ disk'.latest = disk.latest /\ disk'.retired = disk.retired /\ (Sealed' <=> Sealed)
      /\ mem' = mem /\ attempt' = attempt /\ pc' = next
  BY DEF Continued, Differs, Parts, Sealed
<1>2. /\ pc \in Training /\ pc' \in Training /\ pc # "down" /\ pc' # "down"
      /\ pc' \notin Finishing /\ ~Sealed
  BY <1>1 DEF Appending, Training, Finishing, SealInv
<1>3. (NoRowIsGlued' <=> NoRowIsGlued) /\ (TailsAreSafe' <=> TailsAreSafe)
  BY DEF NoRowIsGlued, TailsAreSafe
<1>4. \A s \in Streams : disk.rows[s] \subseteq disk'.rows[s]
  BY DEF WrittenTo, TakesTwo
<1>5. \A s \in Streams : \A e \in disk'.rows[s] :
        e \in disk.rows[s] \/ (s = stream /\ \E r \in new : e = Entry(r))
  BY DEF WrittenTo, TakesTwo
<1>6. /\ \A r \in new : Entry(r) \in disk'.rows[stream]
      /\ \A r \in batch : r \in new \/ \E e \in disk.rows[stream] : e.row = r
  BY DEF WrittenTo, TakesTwo, Novel, Durable
<1>7. ASSUME NEW s \in Streams, disk'.tail[s] = "unterminated"
      PROVE  /\ disk.tail[s] = "unterminated" /\ disk'.last[s] = disk.last[s]
             /\ disk'.rows[s] = disk.rows[s] /\ (s = stream => new = {})
  <2>1. CASE s # stream
    BY <1>7, <2>1 DEF WrittenTo
  <2>2. CASE s = stream
    <3>1. new = {}
      BY <1>7, <2>2 DEF WrittenTo, TakesTwo
    <3> QED
      BY <1>7, <2>2, <3>1 DEF WrittenTo, TakesTwo
  <2> QED
    BY <2>1, <2>2
<1>8. ValueInv'
  <2>1. \A s \in Streams : \A e \in disk.rows[s] :
          (machine.reproducible => e.row.value = 0) /\ e.row.value <= attempt
    BY DEF ValueInv
  <2>2. \A r \in new : (machine.reproducible => r.value = 0) /\ r.value \in {0, attempt}
    BY DEF Novel, Fresh
  <2>3. \A s \in Streams : \A e \in disk'.rows[s] :
          e \in disk.rows[s] \/ \E r \in new : e.row = r
    BY <1>5, EntryIs
  <2>4. \A s \in Streams : \A e \in disk'.rows[s] :
          (machine.reproducible => e.row.value = 0) /\ e.row.value <= attempt
    BY <2>1, <2>2, <2>3, MemTypes
  <2>5. \A s \in Streams : \A e \in disk'.rows[s] :
          e.row.value = attempt => disk'.tail[s] # "unterminated"
    BY <1>7 DEF ValueInv
  <2> QED
    BY <1>1, <2>4, <2>5 DEF ValueInv
<1>9. UniqueInv'
  BY AppendsAreNew
<1>10. CleanInv'
  <2>1. NoRowIsGlued => \A s \in Streams : disk.tail[s] = "clean"
    BY <1>2 DEF CleanInv
  <2>2. NoRowIsGlued => \A s \in Streams : disk'.tail[s] = "clean"
    BY <2>1 DEF WrittenTo, TakesTwo
  <2> QED
    BY <1>3, <2>2 DEF CleanInv
<1>11. TailInv'
  BY <1>1, <1>3, <1>7 DEF TailInv
<1>12. OverwrittenInv'
  <2> SUFFICES ASSUME TailsAreSafe, NEW s \in Streams, NEW t \in EvalSteps, mem.start < t,
                      Appended(s, t)', disk'.tail[s] = "unterminated"
               PROVE  FALSE
    BY <1>1, <1>3 DEF OverwrittenInv
  <2>1. disk.tail[s] = "unterminated" /\ (s = stream => new = {})
    BY <1>7
  <2>2. ~Appended(s, t)
    BY <1>2, <2>1 DEF OverwrittenInv
  <2>3. s = stream /\ t = mem.step /\ EvaluationRows \subseteq batch
    BY <2>2
  <2>4. ~machine.reproducible
    BY <1>2, <2>1 DEF TailsAreSafe, CleanInv
  <2>5. mem.start < mem.step /\ mem.step <= mem.step /\ mem.step # 0
    BY <2>3, MemTypes
  <2>6. Value(mem.step) = attempt
    BY <1>2, <2>4, <2>5, FreshValue, MemTypes
  <2>7. Row("evaluation", mem.step, 1) \in batch
    BY <2>3, Numbers DEF EvaluationRows
  <2>8. PICK e \in disk.rows[stream] : e.row = Row("evaluation", mem.step, 1)
    BY <1>6, <2>1, <2>3, <2>7
  <2>9. e.row.value = attempt
    BY <2>6, <2>8, RowIs
  <2> QED
    BY <2>1, <2>3, <2>9 DEF ValueInv
<1>13. \A s \in Streams, t \in EvalSteps : Full(s, t) => Full(s, t)'
  BY <1>4 DEF Full
<1>14. EvaluationRows \subseteq batch => Full(stream, mem.step)'
  <2> SUFFICES ASSUME EvaluationRows \subseteq batch, NEW i \in 1 .. EvalRows
               PROVE  \E e \in disk'.rows[stream] :
                        e.row.kind = "evaluation" /\ e.row.step = mem.step /\ e.row.index = i
    BY <1>1 DEF Full
  <2> DEFINE r == Row("evaluation", mem.step, i)
  <2>1. r \in batch
    BY DEF EvaluationRows
  <2>2. r.kind = "evaluation" /\ r.step = mem.step /\ r.index = i
    BY RowIs
  <2> HIDE DEF r
  <2>3. \E e \in disk'.rows[stream] : e.row = r
    BY <1>4, <1>6, <2>1, EntryIs
  <2> QED
    BY <2>2, <2>3
<1>15. FullInv'
  <2>1. TailsAreSafe => (disk.latest # None =>
          \A s \in Streams, t \in EvalSteps : t <= disk.latest.step => Full(s, t))'
    BY <1>1, <1>13 DEF FullInv
  <2>2. ASSUME TailsAreSafe, NEW s \in Streams, NEW t \in EvalSteps, Appended(s, t)'
        PROVE  Full(s, t)'
    <3>1. CASE Appended(s, t)
      <4>1. Full(s, t)
        BY <1>2, <2>2, <3>1 DEF FullInv
      <4> QED
        BY <1>13, <4>1
    <3>2. CASE s = stream /\ t = mem.step /\ EvaluationRows \subseteq batch
      BY <1>1, <1>14, <3>2 DEF Full
    <3> QED
      BY <2>2, <3>1, <3>2
  <2> QED
    BY <1>3, <2>1, <2>2 DEF FullInv
<1>16. AllFullInv'
  BY <1>1, <1>2, <1>3, <1>13 DEF AllFullInv, AllFull
<1> QED
  BY <1>8, <1>9, <1>10, <1>11, <1>12, <1>15, <1>16

LEMMA AppendingKeepsEvidence ==
    ASSUME TrajectoryInv, EvidenceInv, UNCHANGED machine,
           AppendMetrics \/ AppendPredictions \/ CollectRows
    PROVE  EvidenceInv'
<1> DEFINE Finished(stream, batch, next) ==
             /\ Continued({"rows", "tail", "last"}, next)
             /\ WrittenTo(disk', stream, Novel(stream, batch), "clean", None)
<1>1. "metrics" \in Streams /\ "predictions" \in Streams
  BY DEF Streams
<1>2. CASE pc = "evaluate" /\ EvaluationDue /\ AppendBatch("metrics", EvaluationMetrics, "predict")
  <2>1. /\ pc \in Appending /\ EvaluationMetrics \in SUBSET Rows /\ "predict" \in Training
        /\ Fresh(EvaluationMetrics) /\ BeyondLatest(EvaluationMetrics)
    BY <1>2, BatchTypes, AppendsAreFresh DEF TrajectoryInv, Appending, Training
  <2>2. CASE Finished("metrics", EvaluationMetrics, "predict")
    <3>1. \A s \in Streams, t \in EvalSteps : Appended(s, t)' =>
            Appended(s, t) \/ (s = "metrics" /\ t = mem.step /\ EvaluationRows \subseteq EvaluationMetrics)
      BY <1>2, <2>2 DEF Continued, Appended, EvaluationBehind, AtStart, EvaluationMetrics
    <3> QED
      BY <1>1, <2>1, <2>2, <3>1, FinishedKeepsEvidence
  <2> QED
    BY <1>1, <1>2, <2>1, <2>2, AppendFrame, CutKeepsEvidence DEF TrajectoryInv
<1>3. CASE pc = "predict" /\ AppendBatch("predictions", EvaluationRows, "evaluated")
  <2>1. /\ pc \in Appending /\ EvaluationRows \in SUBSET Rows /\ "evaluated" \in Training
        /\ Fresh(EvaluationRows) /\ BeyondLatest(EvaluationRows)
    BY <1>3, BatchTypes, AppendsAreFresh DEF TrajectoryInv, Appending, Training
  <2>2. CASE Finished("predictions", EvaluationRows, "evaluated")
    <3>1. \A s \in Streams, t \in EvalSteps : Appended(s, t)' =>
            Appended(s, t) \/ (s = "predictions" /\ t = mem.step /\ EvaluationRows \subseteq EvaluationRows)
      BY <1>3, <2>2 DEF Continued, Appended, EvaluationBehind, AtStart, Streams
    <3> QED
      BY <1>1, <2>1, <2>2, <3>1, FinishedKeepsEvidence
  <2> QED
    BY <1>1, <1>3, <2>1, <2>2, AppendFrame, CutKeepsEvidence DEF TrajectoryInv
<1>4. CASE pc = "loop" /\ ~Remaining /\ AppendBatch("metrics", OptimizationRows, "result")
  <2>1. /\ pc \in Appending /\ OptimizationRows \in SUBSET Rows /\ "result" \in Training
        /\ Fresh(OptimizationRows) /\ BeyondLatest(OptimizationRows)
    BY <1>4, BatchTypes, AppendsAreFresh DEF TrajectoryInv, Appending, Training
  <2>2. CASE Finished("metrics", OptimizationRows, "result")
    <3>1. \A s \in Streams, t \in EvalSteps : Appended(s, t)' => Appended(s, t)
      BY <1>4, <2>2 DEF Continued, Appended, EvaluationBehind, AtStart
    <3> QED
      BY <1>1, <2>1, <2>2, <3>1, FinishedKeepsEvidence
  <2> QED
    BY <1>1, <1>4, <2>1, <2>2, AppendFrame, CutKeepsEvidence DEF TrajectoryInv
<1> QED
  BY <1>2, <1>3, <1>4, AppendSteps DEF TrajectoryInv

-------------------------------------------------------------------------------
\* The invariant.

LEMMA EvidenceStep ==
    ASSUME TrajectoryInv, EvidenceInv, [Next]_vars
    PROVE  EvidenceInv'
<1>1. CASE UNCHANGED vars
  BY <1>1 DEF vars, EvidenceInv, ValueInv, UniqueInv, CleanInv, TailInv, OverwrittenInv, FullInv,
              AllFullInv, AllFull, Full, Appended, EvaluationBehind, AtStart, NoRowIsGlued,
              TailsAreSafe, Sealed
<1>2. CASE Launch /\ UNCHANGED machine
  <2>1. CASE Initialize
    BY <1>2, <2>1, InitializeKeepsEvidence
  <2>2. CASE InitializeStops
    <3>1. UNCHANGED vars
      BY <1>2, <2>2 DEF InitializeStops, vars
    <3> QED
      BY <1>1, <3>1
  <2> QED
    BY <1>2, <2>1, <2>2 DEF Launch
<1>3. CASE Run /\ UNCHANGED machine
  <2>1. CASE RecordManifests \/ Recover \/ Restore
    BY <1>3, <2>1, RecordManifestsKeepsEvidence, RecoverKeepsEvidence, RestoreKeepsEvidence
  <2>2. CASE Hooks
    BY <1>3, <2>2, SkipHookKeepsEvidence, AppendingKeepsEvidence, EmitsKeepEvidence,
       CheckpointKeepsEvidence, PointLatestKeepsEvidence, PruneSupersededKeepsEvidence DEF Hooks
  <2>3. CASE Train
    BY <1>3, <2>3, TrainKeepsEvidence
  <2>4. CASE Finish
    BY <1>3, <2>4, AppendingKeepsEvidence, StopsKeepEvidence, EndKeepsEvidence,
       FinalizeKeepsEvidence DEF Finish
  <2> QED
    BY <1>3, <2>1, <2>2, <2>3, <2>4 DEF Run
<1>4. CASE Crash /\ UNCHANGED machine
  BY <1>4, StopsKeepEvidence
<1> QED
  BY <1>1, <1>2, <1>3, <1>4 DEF Next

LEMMA EvidenceInit ==
    ASSUME Init
    PROVE  EvidenceInv
<1>1. /\ \A s \in Streams : disk.rows[s] = {} /\ disk.tail[s] = "clean"
      /\ disk.files = {} /\ disk.latest = None /\ disk.retired = None /\ pc = "down"
  BY DEF Init, Empty
<1>2. pc \notin Training /\ pc \notin Finishing /\ ~Sealed
  BY <1>1 DEF Training, Finishing, Sealed
<1>3. ValueInv /\ UniqueInv /\ CleanInv /\ TailInv
  BY <1>1 DEF ValueInv, UniqueInv, CleanInv, TailInv
<1>4. OverwrittenInv /\ FullInv /\ AllFullInv
  BY <1>1, <1>2 DEF OverwrittenInv, FullInv, AllFullInv
<1> QED
  BY <1>3, <1>4 DEF EvidenceInv

\* The evidence needs the trajectory: what is durable depends on what is behind.
THEOREM EvidenceInvariance == Spec => [](TrajectoryInv /\ EvidenceInv)
<1>1. Init => TrajectoryInv /\ EvidenceInv
  BY TrajectoryInit, EvidenceInit
<1>2. TrajectoryInv /\ EvidenceInv /\ [Next]_vars => (TrajectoryInv /\ EvidenceInv)'
  BY TrajectoryStep, EvidenceStep
<1> QED
  BY <1>1, <1>2, PTL DEF Spec

\* The indices of a full evaluation.
LEMMA FullIndices ==
    ASSUME TypeOK, NEW s \in Streams, NEW t, Full(s, t)
    PROVE  {r.index : r \in Of(s, "evaluation", t)} = 1 .. EvalRows
<1>1. \A r \in Of(s, "evaluation", t) : r.index \in 1 .. EvalRows
  BY StreamTypes, RowFields DEF Of, Durable
<1>2. \A i \in 1 .. EvalRows : \E r \in Of(s, "evaluation", t) : r.index = i
  BY DEF Full, Of, Durable
<1> QED
  BY <1>1, <1>2

\* However its processes were interrupted between the two streams and the
\* checkpoint, a complete run can be read and holds every scheduled evaluation;
\* where a replay says what was lost, it holds it once.
THEOREM EvaluationsComplete == Spec => []EvaluationsAreComplete
<1>1. TrajectoryInv /\ EvidenceInv => EvaluationsAreComplete
  <2> SUFFICES ASSUME TrajectoryInv, EvidenceInv, Sealed, NoRowIsGlued, NEW s \in Streams
               PROVE  /\ disk.tail[s] = "clean"
                      /\ \A t \in EvalSteps : {r.index : r \in Of(s, "evaluation", t)} = 1 .. EvalRows
                      /\ machine.reproducible =>
                           \A e, f \in disk.rows[s] : Same(e.row, f.row) => e = f
    BY DEF EvaluationsAreComplete
  <2>1. disk.tail[s] = "clean"
    BY DEF EvidenceInv, CleanInv
  <2>2. \A t \in EvalSteps : {r.index : r \in Of(s, "evaluation", t)} = 1 .. EvalRows
    BY FullIndices DEF TrajectoryInv, EvidenceInv, AllFullInv, AllFull
  <2>3. ASSUME machine.reproducible, NEW e \in disk.rows[s], NEW f \in disk.rows[s],
               Same(e.row, f.row)
        PROVE  e = f
    <3>1. e.row \in Rows /\ f.row \in Rows
      BY StreamTypes, RowFields DEF TrajectoryInv
    <3>2. e.row.value = 0 /\ f.row.value = 0
      BY <2>3 DEF EvidenceInv, ValueInv
    <3>3. e.row = f.row
      BY <2>3, <3>1, <3>2 DEF Same, Rows
    <3> QED
      BY <3>3 DEF EvidenceInv, UniqueInv
  <2> QED
    BY <2>1, <2>2, <2>3
<1> QED
  BY <1>1, EvidenceInvariance, PTL

\* The checkpoint file that latest.json names is there, and as far as tails are
\* safe the evaluations that its hook state counts as done are durable.
THEOREM CheckpointGood == Spec => []CheckpointIsGood
<1>1. TrajectoryInv /\ EvidenceInv => CheckpointIsGood
  <2> SUFFICES ASSUME TrajectoryInv, EvidenceInv, disk.latest # None
               PROVE  LET checkpoint == disk.saved[disk.latest.step] IN
                      /\ checkpoint = disk.latest.payload
                      /\ \A t \in EvalSteps :
                           <<"evaluate", t>> \in checkpoint.emitted <=> t <= disk.latest.step
                      /\ TailsAreSafe =>
                           \A s \in Streams, t \in EvalSteps \cap 0 .. disk.latest.step :
                             {r.index : r \in Of(s, "evaluation", t)} = 1 .. EvalRows
    BY DEF CheckpointIsGood
  <2>1. /\ disk.saved[disk.latest.step] = disk.latest.payload
        /\ \A t \in EvalSteps :
             <<"evaluate", t>> \in disk.latest.payload.emitted <=> t <= disk.latest.step
    BY DEF TrajectoryInv, LatestInv
  <2>2. TailsAreSafe =>
          \A s \in Streams, t \in EvalSteps \cap 0 .. disk.latest.step : Full(s, t)
    BY DEF EvidenceInv, FullInv
  <2>3. TailsAreSafe =>
          \A s \in Streams, t \in EvalSteps \cap 0 .. disk.latest.step :
            {r.index : r \in Of(s, "evaluation", t)} = 1 .. EvalRows
    BY <2>2, FullIndices DEF TrajectoryInv
  <2> QED
    BY <2>1, <2>3
<1> QED
  BY <1>1, EvidenceInvariance, PTL
=============================================================================

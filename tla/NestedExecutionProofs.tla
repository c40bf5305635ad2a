------------------------ MODULE NestedExecutionProofs ------------------------
(***************************************************************************)
(* The nested-opening lifecycle keeps its promise however often processes   *)
(* are killed, signals strike, writes fail and the power goes: a completion *)
(* receipt is earned, and the root implements ExecutionVerdict.             *)
(***************************************************************************)
EXTENDS NestedExecution, TLAPS

\* Where the controller can still come to a completion receipt from.
Ahead == {"claim", "preflight"} \cup Body \cup RunningStage \cup Sealing

BuilderEnded  == {"builder_guardian_terminal", "builder_terminal", "inspect"}
VerifierEnded == {"verifier_guardian_terminal", "verifier_terminal"} \cup Committing \cup Sealing

\* Every receipt but the one being written is on the disk or not begun.
ReceiptsInv == controller \in Ahead => \A f \in Receipts : f \in durable \/ f = controller

\* The stages come in order, and a stage that is over ended with a watchdog
\* that vouched for it.
StageInv ==
    /\ controller \in {"claim", "preflight", "started"} \cup BuilderEnded => stage = "builder"
    /\ controller \in VerifierEnded => stage = "verifier"
    /\ controller \in Ahead /\ stage = "verifier" => watchdog["builder"] = "ok"
    /\ controller \in BuilderEnded => watchdog["builder"] = "ok"
    /\ controller \in VerifierEnded => watchdog["verifier"] = "ok"
    /\ controller = "lifetime" => watchdog[stage] = "ok"

\* A watchdog vouches for work that was done, a verifier for a sound report.
WorkInv ==
    /\ \A s \in Stages : watchdog[s] = "ok" => worker[s] = "done"
    /\ worker["verifier"] = "done" => report = "sound"

\* The committed report and the removal of the spool are on the disk.
CommitInv ==
    /\ controller \in {"unlink", "unlinked"} \cup Sealing => "report" \in durable
    /\ controller \in Sealing => "spool" \in durable

\* Everything a completion receipt vouches for.
Earned ==
    /\ \A f \in Receipts \cup {"report"} : root[f] = "whole" /\ f \in durable
    /\ root["spool"] = "absent" /\ "spool" \in durable
    /\ report = "sound"
    /\ AllEnded

\* A completion receipt, also one that a power failure may bring back, and the
\* controller that is about to write it.
NoCompletionEver == root["completion"] = "absent" /\ "completion" \in durable

CompletionInv ==
    /\ ~NoCompletionEver \/ controller \in {"completing", "returning"} => Earned
    /\ root["completion"] # "absent" =>
          controller \in {"completing", "returning", "failing", "gone"}
    /\ root["completion"] = "absent" /\ "completion" \notin durable =>
          controller \in {"withdrawn", "gone"}

\* A failure receipt excludes it.
FailureInv ==
    root["failure"] # "absent" \/ "failure" \notin durable =>
        controller \in {"recording", "gone"} /\ NoCompletionEver

IInv ==
    /\ TypeOK /\ ReceiptsInv /\ StageInv /\ WorkInv /\ CommitInv
    /\ CompletionInv /\ FailureInv

-------------------------------------------------------------------------------
\* The type invariant.

LEMMA ControllerTypes == TypeOK /\ ControllerStep => TypeOK'
<1> USE DEF TypeOK, Controllers, Body, RunningStage, Stopping, Committing, Sealing, Failing,
            Receipts, Artifacts, Stages, files, pipes, processes
<1> SUFFICES ASSUME TypeOK, ControllerStep
             PROVE  TypeOK'
  OBVIOUS
<1>1. CASE Claim \/ Preflight
  BY <1>1 DEF Claim, Preflight
<1>2. CASE WriteReceipt
  BY <1>2 DEF WriteReceipt, Create, Fill
<1>3. CASE ReceiptDurable
  BY <1>3 DEF ReceiptDurable, Sync, AfterReceipt
<1>4. CASE Launch
  BY <1>4 DEF Launch, Watchdogs, LiveWatchdog
<1>5. CASE CloseCopies \/ PidReported \/ WatchdogSucceeded \/ LifetimeEnded
  BY <1>5 DEF CloseCopies, PidReported, WatchdogSucceeded, LifetimeEnded
<1>6. CASE StageFails \/ CloseDeathPipe \/ TerminateWatchdog \/ Drained
  BY <1>6 DEF StageFails, CloseDeathPipe, TerminateWatchdog, Drained, CloseChannels, Watchdogs
<1>7. CASE Inspect \/ LinkDurable \/ UnlinkDurable \/ Alarm
  BY <1>7 DEF Inspect, LinkDurable, UnlinkDurable, Alarm
<1>8. CASE LinkReport \/ UnlinkSpool
  BY <1>8 DEF LinkReport, UnlinkSpool, Remove
<1> QED
  BY <1>1, <1>2, <1>3, <1>4, <1>5, <1>6, <1>7, <1>8 DEF ControllerStep

LEMMA ProcessTypes ==
    ASSUME TypeOK, NEW s \in Stages,
           \/ WatchdogStep(s) \/ StartGuardian(s) \/ WorkerGuardian(s)
           \/ FinishWork(s) \/ WorkFails(s) \/ WatchdogGuardian(s)
           \/ KillWatchdog(s) \/ KillWorker(s)
    PROVE  TypeOK'
<1> USE DEF TypeOK, Watchdogs, LiveWatchdog, Workers, LiveWorker, files, pipes, processes
<1>1. CASE WatchdogStep(s)
  BY <1>1 DEF WatchdogStep, StartWorker, ReportPid, GiveUp, SeeExit, StopWorker, EmitTerminal,
              KillGroup
<1>2. CASE WatchdogGuardian(s) \/ KillWatchdog(s)
  BY <1>2 DEF WatchdogGuardian, KillWatchdog
<1>3. CASE \/ StartGuardian(s) \/ WorkerGuardian(s) \/ FinishWork(s) \/ WorkFails(s)
           \/ KillWorker(s)
  BY <1>3 DEF StartGuardian, WorkerGuardian, FinishWork, WorkFails, KillWorker
<1> QED
  BY <1>1, <1>2, <1>3

LEMMA PowerFailureTypes == TypeOK /\ PowerFailure => TypeOK'
<1> SUFFICES ASSUME TypeOK, PowerFailure
             PROVE  TypeOK'
  OBVIOUS
<1>1. root' \in [Artifacts -> {"absent", "partial", "whole"}]
  BY DEF PowerFailure, TypeOK
<1>2. watchdog' \in [Stages -> Watchdogs] /\ worker' \in [Stages -> Workers]
  BY DEF PowerFailure, TypeOK, Watchdogs, Workers
<1> QED
  BY <1>1, <1>2 DEF TypeOK, PowerFailure, Controllers

LEMMA SealTypes ==
    TypeOK /\ (SealStep \/ ClaimFails \/ PreflightFails \/ SealFails \/ FailureLost) => TypeOK'
<1> USE DEF TypeOK, Controllers, Body, Sealing, Failing, Artifacts, files, pipes, processes,
            Leave
<1> SUFFICES ASSUME TypeOK,
                    SealStep \/ ClaimFails \/ PreflightFails \/ SealFails \/ FailureLost
             PROVE  TypeOK'
  OBVIOUS
<1>1. CASE \/ BlockSignals \/ Admit \/ Return \/ SealRefused \/ NoCompletion
           \/ ClaimFails \/ PreflightFails \/ SealFails \/ FailureLost
  BY <1>1 DEF BlockSignals, Admit, Return, SealRefused, NoCompletion, ClaimFails, PreflightFails,
              SealFails, FailureLost
<1>2. CASE \/ WriteCompletion \/ WithdrawCompletion \/ WriteFailure
  BY <1>2 DEF WriteCompletion, WithdrawCompletion, WriteFailure, Create, Fill, Remove
<1>3. CASE CompletionDurable \/ KeepCompletion \/ WithdrawalDurable \/ FailureDurable
  BY <1>3 DEF CompletionDurable, KeepCompletion, WithdrawalDurable, FailureDurable, Sync
<1> QED
  BY <1>1, <1>2, <1>3 DEF SealStep

LEMMA OtherTypes ==
    TypeOK /\ (CleanUpInterrupted \/ Interrupted \/ SpoolReport \/ DeadlinePasses
                  \/ KillController) => TypeOK'
<1> USE DEF TypeOK, Controllers, Failing, Stopping, Artifacts, files, pipes, processes
<1>1. TypeOK /\ SpoolReport => TypeOK'
  BY DEF SpoolReport, Create, Fill, Sync
<1>2. TypeOK /\ (CleanUpInterrupted \/ Interrupted \/ DeadlinePasses \/ KillController) => TypeOK'
  BY DEF CleanUpInterrupted, CloseChannels, Interrupted, DeadlinePasses, KillController
<1> QED
  BY <1>1, <1>2

LEMMA TypesKept == TypeOK /\ [Next]_vars => TypeOK'
<1>1. TypeOK /\ UNCHANGED vars => TypeOK'
  BY DEF TypeOK, vars, files, pipes, processes
<1> QED
  BY <1>1, ControllerTypes, ProcessTypes, PowerFailureTypes, SealTypes, OtherTypes
     DEF Next, SharedNext, Environment

-------------------------------------------------------------------------------
\* The watchdogs and the workers.

ProcessStep(s) ==
    \/ WatchdogStep(s) \/ StartGuardian(s) \/ WorkerGuardian(s)
    \/ FinishWork(s) \/ WorkFails(s) \/ WatchdogGuardian(s)
    \/ KillWatchdog(s) \/ KillWorker(s)

\* A process step leaves controller and root alone, and what has ended ended.
LEMMA ProcessFrame ==
    ASSUME TypeOK, NEW s \in Stages, ProcessStep(s)
    PROVE  /\ UNCHANGED <<controller, stage, files, pipes, late>>
           /\ \A t \in Stages : watchdog[t] = "ok" => watchdog'[t] = "ok"
           /\ AllEnded => AllEnded'
           /\ \A t \in Stages : worker[t] = "done" /\ watchdog[t] # "starting" => worker'[t] = "done"
<1> USE DEF TypeOK, AllEnded, WatchdogLives, WorkerLives, LiveWatchdog, LiveWorker, pipes
<1>1. CASE StartWorker(s) \/ ReportPid(s) \/ SeeExit(s) \/ EmitTerminal(s)
  BY <1>1 DEF StartWorker, ReportPid, SeeExit, EmitTerminal
<1>2. CASE GiveUp(s) \/ StopWorker(s)
  BY <1>2 DEF GiveUp, StopWorker, KillGroup
<1>3. CASE WatchdogGuardian(s) \/ KillWatchdog(s)
  BY <1>3 DEF WatchdogGuardian, KillWatchdog
<1>4. CASE \/ StartGuardian(s) \/ WorkerGuardian(s) \/ FinishWork(s) \/ WorkFails(s)
           \/ KillWorker(s)
  BY <1>4 DEF StartGuardian, WorkerGuardian, FinishWork, WorkFails, KillWorker
<1> QED
  BY <1>1, <1>2, <1>3, <1>4 DEF ProcessStep, WatchdogStep

LEMMA ProcessWork ==
    ASSUME TypeOK, WorkInv, NEW s \in Stages, ProcessStep(s)
    PROVE  WorkInv'
<1> USE DEF TypeOK, WorkInv, LiveWatchdog, LiveWorker, Stages, files
<1>1. CASE StartWorker(s) \/ ReportPid(s) \/ SeeExit(s) \/ EmitTerminal(s)
  BY <1>1 DEF StartWorker, ReportPid, SeeExit, EmitTerminal, Succeeds
<1>2. CASE GiveUp(s) \/ StopWorker(s)
  BY <1>2 DEF GiveUp, StopWorker, KillGroup
<1>3. CASE WatchdogGuardian(s) \/ KillWatchdog(s)
  BY <1>3 DEF WatchdogGuardian, KillWatchdog
<1>4. CASE \/ StartGuardian(s) \/ WorkerGuardian(s) \/ WorkFails(s) \/ KillWorker(s)
  BY <1>4 DEF StartGuardian, WorkerGuardian, WorkFails, KillWorker, WorkerLives
<1>5. CASE FinishWork(s)
  BY <1>5 DEF FinishWork, CanFinish
<1> QED
  BY <1>1, <1>2, <1>3, <1>4, <1>5 DEF ProcessStep, WatchdogStep

LEMMA ProcessKeeps ==
    ASSUME IInv, NEW s \in Stages, ProcessStep(s)
    PROVE  IInv'
<1> USE DEF IInv
<1>1. TypeOK'
  BY ProcessTypes DEF ProcessStep
<1>2. UNCHANGED <<controller, stage, root, durable, report>>
  BY ProcessFrame DEF files
<1>3. AllEnded => AllEnded'
  BY ProcessFrame
<1>4. \A t \in Stages : watchdog[t] = "ok" => watchdog'[t] = "ok"
  BY ProcessFrame
<1>5. ReceiptsInv' /\ CommitInv' /\ FailureInv'
  BY <1>2 DEF ReceiptsInv, CommitInv, FailureInv, NoCompletionEver
<1>6. StageInv'
  <2>1. stage \in Stages /\ "builder" \in Stages /\ "verifier" \in Stages
    BY DEF TypeOK, Stages
  <2> QED
    BY <1>2, <1>4, <2>1 DEF StageInv
<1>7. WorkInv'
  BY ProcessWork
<1>8. CompletionInv'
  BY <1>2, <1>3 DEF CompletionInv, NoCompletionEver, Earned
<1> QED
  BY <1>1, <1>5, <1>6, <1>7, <1>8

-------------------------------------------------------------------------------
\* The controller.

\* It gives up, ends or is killed: nothing is claimed of it any more.
LEMMA GivingUpKeeps ==
    ASSUME IInv, TypeOK', UNCHANGED <<stage, files, processes>>,
           \/ controller' = "gone"
           \/ controller' = "failing" /\ controller \notin {"withdrawn", "recording", "gone"}
           \/ controller' \in Stopping /\ controller \in {"launch"} \cup RunningStage \cup Stopping
    PROVE  IInv'
<1> USE DEF IInv, files, processes, Ahead, Body, RunningStage, Stopping, Sealing, Committing, Receipts
<1>1. ReceiptsInv' /\ CommitInv' /\ WorkInv'
  BY DEF ReceiptsInv, CommitInv, WorkInv
<1>2. StageInv'
  BY DEF StageInv, BuilderEnded, VerifierEnded
<1>3. CompletionInv'
  BY DEF CompletionInv, NoCompletionEver, Earned, AllEnded, WatchdogLives, WorkerLives
<1>4. FailureInv'
  BY DEF FailureInv, NoCompletionEver
<1> QED
  BY <1>1, <1>2, <1>3, <1>4

\* No step of a stage or of the commit touches either terminal receipt.
LEMMA BothReceiptsStayAbsent ==
    ASSUME IInv,
           controller \in {"claim", "preflight", "seal"} \cup Body \cup RunningStage \cup Stopping,
           controller' \notin {"completing", "returning"},
           \A f \in {"completion", "failure"} :
              root'[f] = root[f] /\ (f \in durable => f \in durable')
    PROVE  CompletionInv' /\ FailureInv'
<1> USE DEF IInv, Body, RunningStage, Stopping, Committing, Receipts
<1>1. NoCompletionEver /\ NoCompletionEver'
  BY DEF CompletionInv, NoCompletionEver
<1>2. root'["failure"] = "absent" /\ "failure" \in durable'
  BY DEF FailureInv
<1> QED
  BY <1>1, <1>2 DEF CompletionInv, FailureInv, NoCompletionEver

LEMMA ControllerKeeps == IInv /\ ControllerStep => IInv'
<1> SUFFICES ASSUME IInv, ControllerStep
             PROVE  IInv'
  OBVIOUS
<1>1. TypeOK'
  BY ControllerTypes DEF IInv
<1> USE <1>1 DEF IInv, files, processes, Ahead, Body, RunningStage, Stopping, Sealing, Committing,
             Receipts, BuilderEnded, VerifierEnded
<1>2. CASE Claim \/ Preflight
  <2>1. (CompletionInv' /\ FailureInv') \/ controller' = "gone"
    BY <1>2, BothReceiptsStayAbsent DEF Claim, Preflight
  <2> QED
    BY <1>2, <2>1, GivingUpKeeps
       DEF Claim, Preflight, ReceiptsInv, StageInv, WorkInv, CommitInv
<1>3. CASE WriteReceipt
  <2>1. CompletionInv' /\ FailureInv'
    BY <1>3, BothReceiptsStayAbsent DEF WriteReceipt, Create, Fill, TypeOK, Artifacts
  <2> QED
    BY <1>3, <2>1 DEF WriteReceipt, Create, Fill, ReceiptsInv, StageInv, WorkInv, CommitInv
<1>4. CASE ReceiptDurable
  <2>1. CompletionInv' /\ FailureInv'
    BY <1>4, BothReceiptsStayAbsent DEF ReceiptDurable, Sync, AfterReceipt
  <2> QED
    BY <1>4, <2>1 DEF ReceiptDurable, Sync, AfterReceipt, ReceiptsInv, StageInv, WorkInv, CommitInv
<1>5. CASE Launch
  <2>1. CompletionInv' /\ FailureInv'
    BY <1>5, BothReceiptsStayAbsent DEF Launch
  <2> QED
    BY <1>5, <2>1 DEF Launch, TypeOK, Stages, ReceiptsInv, StageInv, WorkInv, CommitInv
<1>6. CASE CloseCopies \/ PidReported \/ WatchdogSucceeded \/ LifetimeEnded
  <2>1. CompletionInv' /\ FailureInv'
    BY <1>6, BothReceiptsStayAbsent DEF CloseCopies, PidReported, WatchdogSucceeded, LifetimeEnded
  <2> QED
    BY <1>6, <2>1 DEF CloseCopies, PidReported, WatchdogSucceeded, LifetimeEnded, TypeOK, Stages,
                      ReceiptsInv, StageInv, WorkInv, CommitInv
<1>7. CASE StageFails \/ CloseDeathPipe \/ Drained \/ Alarm
  BY <1>7, GivingUpKeeps DEF StageFails, CloseDeathPipe, Drained, CloseChannels, Alarm
<1>8. CASE TerminateWatchdog
  <2>1. CompletionInv' /\ FailureInv'
    BY <1>8, BothReceiptsStayAbsent DEF TerminateWatchdog
  <2> QED
    BY <1>8, <2>1 DEF TerminateWatchdog, WatchdogLives, TypeOK, Stages,
                      ReceiptsInv, StageInv, WorkInv, CommitInv
<1>9. CASE Inspect \/ LinkReport \/ LinkDurable \/ UnlinkSpool \/ UnlinkDurable
  <2>1. CompletionInv' /\ FailureInv'
    BY <1>9, BothReceiptsStayAbsent
       DEF Inspect, LinkReport, LinkDurable, UnlinkSpool, UnlinkDurable, Remove, TypeOK, Artifacts
  <2> QED
    BY <1>9, <2>1 DEF Inspect, LinkReport, LinkDurable, UnlinkSpool, UnlinkDurable, Remove,
                      ReceiptsInv, StageInv, WorkInv, CommitInv
<1> QED
  BY <1>2, <1>3, <1>4, <1>5, <1>6, <1>7, <1>8, <1>9 DEF ControllerStep

\* From the seal on every process has ended.
LEMMA SealedProcesses ==
    ASSUME IInv, controller \in Sealing
    PROVE  AllEnded /\ report = "sound"
BY DEF IInv, StageInv, WorkInv, VerifierEnded, Ahead, TypeOK, Stages, AllEnded, WatchdogLives,
       WorkerLives, LiveWatchdog, LiveWorker

\* The sealed end, up to the completion receipt.
LEMMA SealingKeeps ==
    IInv /\ (BlockSignals \/ Admit \/ WriteCompletion \/ CompletionDurable) => IInv'
<1> SUFFICES ASSUME IInv, BlockSignals \/ Admit \/ WriteCompletion \/ CompletionDurable
             PROVE  IInv'
  OBVIOUS
<1>1. TypeOK'
  BY SealTypes DEF IInv, SealStep
<1>2. ReceiptsInv' /\ StageInv' /\ WorkInv' /\ CommitInv'
  BY DEF IInv, BlockSignals, Admit, WriteCompletion, CompletionDurable, Create, Fill, Sync,
         files, processes, Ahead, Sealing, Receipts, BuilderEnded, VerifierEnded,
         ReceiptsInv, StageInv, WorkInv, CommitInv
<1>3. CompletionInv' /\ FailureInv'
  <2> USE DEF IInv, files, processes, CompletionInv, FailureInv, NoCompletionEver
  <2>1. CASE BlockSignals
    BY <2>1 DEF BlockSignals
  <2>2. CASE Admit
    <3>1. Earned
      BY <2>2, SealedProcesses
         DEF Admit, Inventory, Earned, ReceiptsInv, CommitInv, Ahead, Sealing, Receipts, Artifacts
    <3> QED
      BY <2>2, <3>1 DEF Admit, Earned, AllEnded, WatchdogLives, WorkerLives
  <2>3. CASE WriteCompletion \/ CompletionDurable
    <3>1. Earned /\ root["failure"] = "absent" /\ "failure" \in durable
      BY <2>3 DEF WriteCompletion, CompletionDurable
    <3>2. AllEnded'
      BY <2>3, <3>1
         DEF WriteCompletion, CompletionDurable, Earned, AllEnded, WatchdogLives, WorkerLives
    <3>3. \A f \in Artifacts \ {"completion"} :
             root'[f] = root[f] /\ (f \in durable => f \in durable')
      BY <2>3 DEF WriteCompletion, CompletionDurable, Create, Fill, Sync, TypeOK
    <3>4. Earned' /\ root'["failure"] = "absent" /\ "failure" \in durable'
      BY <2>3, <3>1, <3>2, <3>3
         DEF WriteCompletion, CompletionDurable, Earned, Receipts, Artifacts
    <3>5. /\ controller' \in {"completing", "returning"}
          /\ root'["completion"] # "absent"
      BY <2>3 DEF WriteCompletion, CompletionDurable, Create, Fill, Sync, TypeOK, Artifacts
    <3> QED
      BY <3>4, <3>5
  <2> QED
    BY <2>1, <2>2, <2>3
<1> QED
  BY <1>1, <1>2, <1>3 DEF IInv

\* What is claimed of a controller that may still complete is void for another.
LEMMA BeyondCompletion ==
    ASSUME IInv, UNCHANGED <<report, processes>>,
           controller' \in Failing \cup {"gone"}
    PROVE  ReceiptsInv' /\ StageInv' /\ WorkInv' /\ CommitInv'
BY DEF IInv, processes, Ahead, Body, RunningStage, Sealing, Committing, Receipts, Failing,
       BuilderEnded, VerifierEnded, ReceiptsInv, StageInv, WorkInv, CommitInv

LEMMA FailingKeeps ==
    ASSUME IInv,
           \/ KeepCompletion \/ WithdrawCompletion \/ WithdrawalDurable \/ NoCompletion
           \/ WriteFailure \/ FailureDurable
    PROVE  IInv'
<1>1. TypeOK'
  BY SealTypes DEF IInv, SealStep
<1>2. UNCHANGED <<report, processes>> /\ controller' \in Failing \cup {"gone"}
  BY DEF KeepCompletion, WithdrawCompletion, WithdrawalDurable, NoCompletion, WriteFailure,
         FailureDurable, Leave, Failing, files
<1>3. ReceiptsInv' /\ StageInv' /\ WorkInv' /\ CommitInv'
  BY <1>2, BeyondCompletion
<1>4. AllEnded => AllEnded'
  BY <1>2 DEF AllEnded, WatchdogLives, WorkerLives, processes
<1>5. CompletionInv' /\ FailureInv'
  <2> USE <1>4 DEF IInv, files, CompletionInv, FailureInv, NoCompletionEver, Earned
  <2>1. CASE KeepCompletion \/ NoCompletion
    BY <2>1 DEF KeepCompletion, NoCompletion, Leave
  <2>2. CASE WithdrawCompletion
    BY <2>2 DEF WithdrawCompletion, Remove, Receipts, TypeOK, Artifacts
  <2>3. CASE WithdrawalDurable
    BY <2>3 DEF WithdrawalDurable
  <2>4. CASE WriteFailure \/ FailureDurable
    <3>1. NoCompletionEver
      BY <2>4 DEF WriteFailure, FailureDurable
    <3>2. NoCompletionEver' /\ controller' \in {"recording", "gone"}
      BY <2>4, <3>1 DEF WriteFailure, FailureDurable, Create, Fill, Sync, Leave, TypeOK, Artifacts
    <3> QED
      BY <3>2
  <2> QED
    BY <2>1, <2>2, <2>3, <2>4
<1> QED
  BY <1>1, <1>3, <1>5 DEF IInv

LEMMA LeavingKeeps ==
    ASSUME IInv,
           \/ Return \/ SealRefused \/ SealFails \/ ClaimFails \/ PreflightFails \/ FailureLost
           \/ CleanUpInterrupted \/ Interrupted \/ KillController
    PROVE  IInv'
<1>1. TypeOK'
  BY SealTypes, OtherTypes DEF IInv, SealStep
<1> QED
  BY <1>1, GivingUpKeeps
     DEF Return, SealRefused, SealFails, ClaimFails, PreflightFails, FailureLost, CleanUpInterrupted,
         CloseChannels, Interrupted, KillController, Leave, files, Body, RunningStage, Stopping,
         Committing, Sealing, Receipts

-------------------------------------------------------------------------------
\* The builder, the clock and the power.

LEMMA SpoolKeeps == IInv /\ SpoolReport => IInv'
<1> SUFFICES ASSUME IInv, SpoolReport
             PROVE  IInv'
  OBVIOUS
<1>1. TypeOK'
  BY OtherTypes DEF IInv
<1>2. ~AllEnded /\ controller \notin Sealing
  <2>1. ~AllEnded
    BY DEF SpoolReport, AllEnded, WorkerLives, LiveWorker, Stages
  <2> QED
    BY <2>1, SealedProcesses
<1>3. /\ UNCHANGED <<controller, stage, processes>>
      /\ \A f \in Artifacts \ {"spool"} :
           root'[f] = root[f] /\ (f \in durable <=> f \in durable')
      /\ report # "none" => report' = report
  BY DEF SpoolReport, Create, Fill, Sync, IInv, TypeOK, processes
<1>4. ReceiptsInv' /\ StageInv' /\ WorkInv' /\ CommitInv'
  BY <1>2, <1>3 DEF IInv, ReceiptsInv, StageInv, WorkInv, CommitInv, processes, Artifacts, Receipts
<1>5. NoCompletionEver /\ NoCompletionEver' /\ controller \notin {"completing", "returning"}
  BY <1>2, <1>3 DEF IInv, CompletionInv, Earned, NoCompletionEver, Artifacts
<1>6. CompletionInv' /\ FailureInv'
  BY <1>3, <1>5 DEF IInv, CompletionInv, FailureInv, NoCompletionEver, Artifacts
<1> QED
  BY <1>1, <1>4, <1>6 DEF IInv

\* What was on the disk stays, every process is gone.
LEMMA PowerFailureFrame ==
    ASSUME TypeOK, PowerFailure
    PROVE  /\ controller' = "gone" /\ UNCHANGED report /\ durable' = Artifacts
           /\ \A f \in durable : root'[f] = root[f]
           /\ \A s \in Stages : watchdog[s] = "ok" <=> watchdog'[s] = "ok"
           /\ \A s \in Stages : worker[s] = "done" <=> worker'[s] = "done"
           /\ AllEnded'
<1>1. \A f \in durable : root'[f] = root[f]
  BY DEF PowerFailure, TypeOK
<1>2. \A s \in Stages : watchdog'[s] = (IF WatchdogLives(s) THEN "dead" ELSE watchdog[s])
  BY DEF PowerFailure
<1>3. \A s \in Stages : worker'[s] = (IF WorkerLives(s) THEN "dead" ELSE worker[s])
  BY DEF PowerFailure
<1> QED
  BY <1>1, <1>2, <1>3
     DEF PowerFailure, AllEnded, WatchdogLives, WorkerLives, LiveWatchdog, LiveWorker

LEMMA PowerFailureKeeps == IInv /\ PowerFailure => IInv'
<1> SUFFICES ASSUME IInv, PowerFailure
             PROVE  IInv'
  OBVIOUS
<1>1. TypeOK /\ TypeOK'
  BY PowerFailureTypes DEF IInv
<1>2. /\ controller' = "gone" /\ UNCHANGED report /\ durable' = Artifacts
      /\ \A f \in durable : root'[f] = root[f]
      /\ \A s \in Stages : watchdog[s] = "ok" <=> watchdog'[s] = "ok"
      /\ \A s \in Stages : worker[s] = "done" <=> worker'[s] = "done"
      /\ AllEnded'
  BY <1>1, PowerFailureFrame
<1>3. ReceiptsInv' /\ StageInv' /\ WorkInv' /\ CommitInv'
  <2>1. ReceiptsInv' /\ StageInv' /\ CommitInv'
    BY <1>2 DEF ReceiptsInv, StageInv, CommitInv, Ahead, Body, RunningStage, Sealing,
                Committing, Receipts, BuilderEnded, VerifierEnded
  <2>2. WorkInv'
    BY <1>2 DEF IInv, WorkInv, Stages
  <2> QED
    BY <2>1, <2>2
<1>4. CASE NoCompletionEver
  <2>1. NoCompletionEver'
    BY <1>2, <1>4 DEF NoCompletionEver, Artifacts
  <2> QED
    BY <1>1, <1>2, <1>3, <2>1 DEF IInv, CompletionInv, FailureInv
<1>5. CASE ~NoCompletionEver
  <2>1. Earned /\ root["failure"] = "absent" /\ "failure" \in durable
    BY <1>5 DEF IInv, CompletionInv, FailureInv
  <2>2. Earned' /\ root'["failure"] = "absent" /\ "failure" \in durable'
    BY <1>2, <2>1 DEF Earned, Artifacts, Receipts
  <2> QED
    BY <1>1, <1>2, <1>3, <2>2 DEF IInv, CompletionInv, FailureInv, Artifacts
<1> QED
  BY <1>4, <1>5

LEMMA StutterKeeps == IInv /\ (UNCHANGED vars \/ DeadlinePasses) => IInv'
<1>1. IInv /\ (UNCHANGED vars \/ DeadlinePasses) => TypeOK'
  BY TypesKept, OtherTypes DEF IInv
<1> QED
  BY <1>1 DEF DeadlinePasses, vars, files, pipes, processes, IInv, ReceiptsInv, StageInv, WorkInv,
              CommitInv, CompletionInv, FailureInv, NoCompletionEver, Earned, AllEnded,
              WatchdogLives, WorkerLives

-------------------------------------------------------------------------------
\* The theorems.

LEMMA Initially == Init => IInv
<1> USE DEF Init, Stages
<1>1. Init => TypeOK
  BY DEF TypeOK, Controllers, Watchdogs, Workers
<1>2. Init => ReceiptsInv /\ StageInv /\ WorkInv /\ CommitInv
  BY DEF ReceiptsInv, StageInv, WorkInv, CommitInv, Artifacts, BuilderEnded, VerifierEnded, Committing,
         Sealing
<1>3. Init => \A f \in Artifacts : root[f] = "absent" /\ f \in durable
  OBVIOUS
<1>4. Init => CompletionInv /\ FailureInv
  BY <1>3 DEF CompletionInv, FailureInv, NoCompletionEver, Artifacts
<1> QED
  BY <1>1, <1>2, <1>4 DEF IInv

LEMMA Invariance == IInv /\ [Next]_vars => IInv'
<1> SUFFICES ASSUME IInv, [Next]_vars
             PROVE  IInv'
  OBVIOUS
<1>1. CASE \E s \in Stages : ProcessStep(s)
  BY <1>1, ProcessKeeps
<1>2. CASE ControllerStep
  BY <1>2, ControllerKeeps
<1>3. CASE SpoolReport \/ PowerFailure \/ DeadlinePasses \/ UNCHANGED vars
  BY <1>3, SpoolKeeps, PowerFailureKeeps, StutterKeeps
<1>4. CASE \/ BlockSignals \/ Admit \/ WriteCompletion \/ CompletionDurable
           \/ KeepCompletion \/ WithdrawCompletion \/ WithdrawalDurable \/ NoCompletion
           \/ WriteFailure \/ FailureDurable
  BY <1>4, SealingKeeps, FailingKeeps
<1>5. CASE \/ Return \/ SealRefused \/ SealFails \/ ClaimFails \/ PreflightFails \/ FailureLost
           \/ CleanUpInterrupted \/ Interrupted \/ KillController
  BY <1>5, LeavingKeeps
<1> QED
  BY <1>1, <1>2, <1>3, <1>4, <1>5 DEF Next, SharedNext, SealStep, Environment, ProcessStep

LEMMA InvariantHolds == Spec => []IInv
BY Initially, Invariance, PTL DEF Spec

\* Controller, processes, pipes and root have the values the model gives them.
THEOREM TypeCorrect == Spec => []TypeOK
<1>1. IInv => TypeOK
  BY DEF IInv
<1> QED
  BY <1>1, InvariantHolds, PTL

\* A completion receipt, whole or not, lies only in a root that has everything
\* it states and that no process can write to any more.
THEOREM EarnedCompletion == Spec => []CompletionIsEarned
<1>1. IInv => CompletionIsEarned
  BY DEF IInv, CompletionInv, FailureInv, NoCompletionEver, Earned, CompletionIsEarned
<1> QED
  BY <1>1, InvariantHolds, PTL

-------------------------------------------------------------------------------
\* NestedExecution implements ExecutionVerdict.

Receipted == {"completion", "failure"}

\* A terminal receipt that is whole and on the disk stays so.
LEMMA WholeStays ==
    ASSUME TypeOK, [Next]_vars, NEW f \in Receipted, Whole(f)
    PROVE  Whole(f)'
<1> USE DEF Whole, Receipted, files
<1>1. CASE \E s \in Stages : ProcessStep(s)
  BY <1>1, ProcessFrame
<1>2. CASE ControllerStep
  BY <1>2 DEF ControllerStep, Claim, Preflight, WriteReceipt, ReceiptDurable, Launch, CloseCopies,
              PidReported, WatchdogSucceeded, LifetimeEnded, StageFails, CloseDeathPipe,
              TerminateWatchdog, Drained, CloseChannels, Inspect, LinkReport, LinkDurable,
              UnlinkSpool, UnlinkDurable, Alarm, Create, Fill, Sync, Remove, TypeOK
<1>3. CASE SpoolReport
  BY <1>3 DEF SpoolReport, Create, Fill, Sync, TypeOK
<1>4. CASE PowerFailure
  BY <1>4, PowerFailureFrame DEF Artifacts
<1>5. CASE DeadlinePasses \/ UNCHANGED vars
  BY <1>5 DEF DeadlinePasses, vars
<1>6. CASE \/ BlockSignals \/ Admit \/ NoCompletion \/ KeepCompletion \/ WithdrawalDurable
  BY <1>6 DEF BlockSignals, Admit, NoCompletion, KeepCompletion, WithdrawalDurable, Leave
<1>7. CASE \/ WriteCompletion \/ CompletionDurable \/ WriteFailure \/ FailureDurable
           \/ WithdrawCompletion
  BY <1>7 DEF WriteCompletion, CompletionDurable, WriteFailure, FailureDurable, WithdrawCompletion,
              Create, Fill, Sync, Remove, TypeOK
<1>8. CASE \/ Return \/ SealRefused \/ SealFails \/ ClaimFails \/ PreflightFails \/ FailureLost
           \/ CleanUpInterrupted \/ Interrupted \/ KillController
  BY <1>8 DEF Return, SealRefused, SealFails, ClaimFails, PreflightFails, FailureLost,
              CleanUpInterrupted, CloseChannels, Interrupted, KillController, Leave
<1> QED
  BY <1>1, <1>2, <1>3, <1>4, <1>5, <1>6, <1>7, <1>8
     DEF Next, SharedNext, SealStep, Environment, ProcessStep

\* Only the builder makes a report, once, and touches no receipt then.
LEMMA ReportIsBuiltOnce ==
    ASSUME TypeOK, [Next]_vars, report' # report
    PROVE  /\ report = "none" /\ report' \in {"sound", "unsound"}
           /\ \A f \in Receipted : Whole(f)' <=> Whole(f)
<1> USE DEF files
<1>1. CASE SpoolReport
  BY <1>1 DEF SpoolReport, Create, TypeOK, Whole, Receipted
<1>2. CASE \E s \in Stages : ProcessStep(s)
  BY <1>2, ProcessFrame
<1>3. CASE ControllerStep
  BY <1>3 DEF ControllerStep, Claim, Preflight, WriteReceipt, ReceiptDurable, Launch, CloseCopies,
              PidReported, WatchdogSucceeded, LifetimeEnded, StageFails, CloseDeathPipe,
              TerminateWatchdog, Drained, CloseChannels, Inspect, LinkReport, LinkDurable,
              UnlinkSpool, UnlinkDurable, Alarm
<1>4. CASE PowerFailure \/ DeadlinePasses \/ UNCHANGED vars
  BY <1>4 DEF PowerFailure, DeadlinePasses, vars
<1>5. CASE SealStep
  BY <1>5 DEF SealStep, BlockSignals, Admit, WriteCompletion, CompletionDurable, Return,
              SealRefused, SealFails, KeepCompletion, WithdrawCompletion, WithdrawalDurable,
              NoCompletion, WriteFailure, FailureDurable
<1>6. CASE \/ SealFails \/ ClaimFails \/ PreflightFails \/ FailureLost
           \/ CleanUpInterrupted \/ Interrupted \/ KillController
  BY <1>6 DEF SealFails, ClaimFails, PreflightFails, FailureLost, CleanUpInterrupted,
              CloseChannels, Interrupted, KillController
<1> QED
  BY <1>1, <1>2, <1>3, <1>4, <1>5, <1>6 DEF Next, SharedNext, Environment, ProcessStep

\* A completion receipt stands over a sound report, beside no failure receipt.
LEMMA CompletionExcludes ==
    ASSUME IInv, Whole("completion")
    PROVE  report = "sound" /\ ~Whole("failure")
BY DEF IInv, CompletionInv, FailureInv, NoCompletionEver, Earned, Whole

LEMMA VerdictStep ==
    ASSUME IInv, IInv', [Next]_vars
    PROVE  [Promise!Build \/ Promise!Complete \/ Promise!Fail]_(Promise!verdictVars)
<1> USE DEF Promise!Build, Promise!Complete, Promise!Fail, Promise!verdictVars
<1>1. /\ Whole("completion") => Whole("completion")'
      /\ Whole("failure") => Whole("failure")'
  BY WholeStays DEF IInv, Receipted
<1>2. /\ Whole("completion") => report = "sound" /\ ~Whole("failure")
      /\ Whole("completion")' => report' = "sound" /\ ~Whole("failure")'
  BY CompletionExcludes DEF IInv, CompletionInv, FailureInv, NoCompletionEver, Earned, Whole
<1>3. CASE report' # report
  <2>1. /\ report = "none" /\ report' \in {"sound", "unsound"}
        /\ Whole("completion")' <=> Whole("completion")
        /\ Whole("failure")' <=> Whole("failure")
    BY <1>3, ReportIsBuiltOnce DEF IInv, Receipted
  <2>2. ~Whole("completion")
    BY <1>2, <2>1
  <2>3. Verdict' = Verdict /\ Verdict # "complete"
    BY <2>1, <2>2 DEF Verdict
  <2> QED
    BY <2>1, <2>3
<1>4. CASE report' = report
  <2>1. CASE \/ Whole("completion")
             \/ /\ Whole("completion")' <=> Whole("completion")
                /\ Whole("failure")' <=> Whole("failure")
    BY <1>1, <1>2, <1>4, <2>1 DEF Verdict
  <2>2. CASE ~Whole("completion") /\ Whole("completion")'
    <3>1. Verdict = "open" /\ Verdict' = "complete" /\ report = "sound"
      BY <1>1, <1>2, <1>4, <2>2 DEF Verdict
    <3> QED
      BY <1>4, <3>1
  <2>3. CASE ~Whole("completion")' /\ ~Whole("failure") /\ Whole("failure")'
    <3>1. Verdict = "open" /\ Verdict' = "failed"
      BY <1>1, <1>2, <2>3 DEF Verdict
    <3> QED
      BY <1>4, <3>1
  <2> QED
    BY <1>1, <2>1, <2>2, <2>3
<1> QED
  BY <1>3, <1>4

\* The root is decided at most once, is complete only over a sound report, and
\* never carries both receipts, whatever was killed and whenever.
THEOREM ImplementsVerdict == Spec => VerdictIsFinal
<1>1. Init => Promise!Init
  <2> SUFFICES ASSUME Init
               PROVE  Promise!Init
    OBVIOUS
  <2>1. ~Whole("completion") /\ ~Whole("failure")
    BY DEF Init, Whole, Artifacts
  <2> QED
    BY <2>1 DEF Init, Promise!Init, Verdict
<1>2. IInv /\ IInv' /\ [Next]_vars =>
        [Promise!Build \/ Promise!Complete \/ Promise!Fail]_(Promise!verdictVars)
  BY VerdictStep
<1> QED
  BY <1>1, <1>2, InvariantHolds, PTL DEF Spec, VerdictIsFinal, Promise!Spec
=============================================================================

-------------------------- MODULE GuardedExecution --------------------------
(***************************************************************************)
(* The execution lifecycle of a registered census: a controller claims one *)
(* output root, runs a builder and then a verifier, each as a fresh worker *)
(* process owned by a fresh watchdog process, and commits the report.      *)
(* The processes watch each other only through pipes: the end of a pipe    *)
(* that nobody can write to any more is how a death is noticed.            *)
(*                                                                         *)
(* This module is the part that both lifecycles of the repository share,   *)
(* up to the committed report.  NestedExecution and CensusExecution add    *)
(* how a root is sealed and what a failure does to it.                     *)
(*                                                                         *)
(* Any process may be killed at any moment, the power may fail, a signal,  *)
(* an I/O error or a refused input may interrupt the controller anywhere   *)
(* its signals are open.  Nothing bounds how often.                        *)
(***************************************************************************)
Stages == {"builder", "verifier"}

\* The receipts written while the stages run, in their order.
Receipts == {"started", "builder_guardian_terminal", "builder_terminal",
             "verifier_guardian_terminal", "verifier_terminal"}

Artifacts == Receipts \cup {"spool", "report", "completion", "failure"}

VARIABLES
    controller,  \* where the controller is; a receipt's name while it writes it
    stage,       \* the stage the controller is in
    root,        \* the directory: [Artifacts -> absent, partial or whole]
    durable,     \* the artifacts whose state in the directory is on the disk
    report,      \* what the builder derived: "none", "sound" or "unsound"
    held,        \* stages whose death pipe the controller keeps open
    copies,      \* stages whose child ends the controller has not closed yet
    watchdog,    \* [Stages -> the watchdog process]
    worker,      \* [Stages -> the worker process]
    late         \* the registered deadline has passed

files     == <<root, durable, report>>
pipes     == <<held, copies>>
processes == <<watchdog, worker>>
vars      == <<controller, stage, files, pipes, processes, late>>

RunningStage == {"hold", "await_pid", "await_exit", "lifetime"}
Stopping     == {"stop", "terminate", "drain"}
Committing   == {"commit", "linked", "unlink", "unlinked"}
Body         == {"launch", "inspect"} \cup Receipts \cup Committing
Sealing      == {"seal", "blocked", "completing", "returning"}
Failing      == {"failing", "withdrawn", "recording"}
Controllers  == {"claim", "preflight", "gone"} \cup Body \cup RunningStage \cup Stopping
                                  \cup Sealing \cup Failing

LiveWatchdog == {"starting", "waiting", "watching", "exited", "stopped"}
Watchdogs    == {"none", "ok", "bad", "dead"} \cup LiveWatchdog
LiveWorker   == {"fresh", "guarded"}
Workers      == {"none", "done", "failed", "dead"} \cup LiveWorker

WatchdogLives(s) == watchdog[s] \in LiveWatchdog
WorkerLives(s)   == worker[s] \in LiveWorker
AllEnded == \A s \in Stages : ~WatchdogLives(s) /\ ~WorkerLives(s)

TypeOK ==
    /\ controller \in Controllers
    /\ stage \in Stages
    /\ root \in [Artifacts -> {"absent", "partial", "whole"}]
    /\ durable \subseteq Artifacts
    /\ report \in {"none", "sound", "unsound"}
    /\ held \subseteq Stages
    /\ copies \subseteq Stages
    /\ watchdog \in [Stages -> Watchdogs]
    /\ worker \in [Stages -> Workers]
    /\ late \in BOOLEAN

Init ==
    /\ controller = "claim"
    /\ stage = "builder"
    /\ root = [f \in Artifacts |-> "absent"]
    /\ durable = Artifacts
    /\ report = "none"
    /\ held = {}
    /\ copies = {}
    /\ watchdog = [s \in Stages |-> "none"]
    /\ worker = [s \in Stages |-> "none"]
    /\ late = FALSE

-----------------------------------------------------------------------------
\* One exclusive artifact: created, filled, then synced with its directory.

Create(f) ==
    /\ root[f] = "absent"
    /\ root' = [root EXCEPT ![f] = "partial"]
    /\ durable' = durable \ {f}

Fill(f) ==
    /\ root[f] = "partial"
    /\ root' = [root EXCEPT ![f] = "whole"]
    /\ UNCHANGED durable

Sync(f) ==
    /\ root[f] = "whole"
    /\ f \notin durable
    /\ durable' = durable \cup {f}
    /\ UNCHANGED root

Remove(f) ==
    /\ root[f] # "absent"
    /\ root' = [root EXCEPT ![f] = "absent"]
    /\ durable' = durable \ {f}

-----------------------------------------------------------------------------
\* The controller.

\* An existing root is refused; so is one whose creation fails.
Claim ==
    /\ controller = "claim"
    /\ controller' \in {"preflight", "gone"}
    /\ UNCHANGED <<stage, files, pipes, processes, late>>

Preflight ==
    /\ controller = "preflight"
    /\ ~late
    /\ controller' = "started"
    /\ UNCHANGED <<stage, files, pipes, processes, late>>

AfterReceipt ==
    [started                    |-> "launch",
     builder_guardian_terminal  |-> "builder_terminal",
     builder_terminal           |-> "inspect",
     verifier_guardian_terminal |-> "verifier_terminal",
     verifier_terminal          |-> "commit"]

WriteReceipt ==
    /\ controller \in Receipts
    /\ Create(controller) \/ Fill(controller)
    /\ UNCHANGED <<controller, stage, report, pipes, processes, late>>

ReceiptDurable ==
    /\ controller \in Receipts
    /\ Sync(controller)
    /\ controller' = AfterReceipt[controller]
    /\ UNCHANGED <<stage, report, pipes, processes, late>>

\* The watchdog is spawned; a signal inside the spawn call leaves the
\* controller without the handle of the process it has just started.
Launch ==
    /\ controller = "launch"
    /\ ~late
    /\ controller' \in {"hold", "drain"}
    /\ watchdog' = [watchdog EXCEPT ![stage] = "starting"]
    /\ held' = held \cup {stage}
    /\ copies' = copies \cup {stage}
    /\ UNCHANGED <<stage, files, worker, late>>

CloseCopies ==
    /\ controller = "hold"
    /\ controller' = "await_pid"
    /\ copies' = copies \ {stage}
    /\ UNCHANGED <<stage, files, held, processes, late>>

PidReported ==
    /\ controller = "await_pid"
    /\ watchdog[stage] \in {"watching", "exited", "stopped", "ok"}
    /\ controller' = "await_exit"
    /\ UNCHANGED <<stage, files, pipes, processes, late>>

WatchdogSucceeded ==
    /\ controller = "await_exit"
    /\ watchdog[stage] = "ok"
    /\ controller' = "lifetime"
    /\ UNCHANGED <<stage, files, pipes, processes, late>>

\* The worker's lifetime pipe must have ended; then the terminals are parsed.
LifetimeEnded ==
    /\ controller = "lifetime"
    /\ ~WorkerLives(stage)
    /\ controller' = IF stage = "builder" THEN "builder_guardian_terminal"
                                          ELSE "verifier_guardian_terminal"
    /\ held' = held \ {stage}
    /\ UNCHANGED <<stage, files, copies, processes, late>>

\* The wait ends badly: no process identity, a failed watchdog, or no answer
\* within the grace that follows the deadline.
StageFails ==
    /\ \/ controller = "await_pid" /\ watchdog[stage] \in {"bad", "dead"}
       \/ controller = "await_exit" /\ watchdog[stage] \in {"bad", "dead"}
       \/ controller \in RunningStage /\ late
    /\ controller' = "stop"
    /\ UNCHANGED <<stage, files, pipes, processes, late>>

CloseDeathPipe ==
    /\ controller = "stop"
    /\ controller' = "terminate"
    /\ held' = held \ {stage}
    /\ UNCHANGED <<stage, files, copies, processes, late>>

TerminateWatchdog ==
    /\ controller = "terminate"
    /\ controller' = "drain"
    /\ watchdog' = [watchdog EXCEPT ![stage] =
                        IF WatchdogLives(stage) THEN "dead" ELSE @]
    /\ UNCHANGED <<stage, files, pipes, worker, late>>

\* The bounded wait for the lifetime pipe is over, successful or not, or a
\* second signal cut the clean-up short; every pipe end is closed.
CloseChannels ==
    /\ controller' = "failing"
    /\ held' = held \ {stage}
    /\ copies' = copies \ {stage}
    /\ UNCHANGED <<stage, files, processes, late>>

Drained == controller = "drain" /\ CloseChannels

CleanUpInterrupted == controller \in Stopping /\ CloseChannels

\* The spool is opened, compared with the builder's terminal and kept open.
Inspect ==
    /\ controller = "inspect"
    /\ root["spool"] = "whole"
    /\ controller' = "launch"
    /\ stage' = "verifier"
    /\ UNCHANGED <<files, pipes, processes, late>>

LinkReport ==
    /\ controller = "commit"
    /\ ~late
    /\ root["spool"] = "whole"
    /\ root["report"] = "absent"
    /\ controller' = "linked"
    /\ root' = [root EXCEPT !["report"] = "whole"]
    /\ durable' = durable \ {"report"}
    /\ UNCHANGED <<stage, report, pipes, processes, late>>

LinkDurable ==
    /\ controller = "linked"
    /\ controller' = "unlink"
    /\ durable' = durable \cup {"report"}
    /\ UNCHANGED <<stage, root, report, pipes, processes, late>>

UnlinkSpool ==
    /\ controller = "unlink"
    /\ Remove("spool")
    /\ controller' = "unlinked"
    /\ UNCHANGED <<stage, report, pipes, processes, late>>

\* Mutant: the directory is not synced after the spool is gone.
UnlinkUnsynced ==
    /\ controller = "unlinked"
    /\ controller' = "seal"
    /\ UNCHANGED <<stage, files, pipes, processes, late>>

UnlinkDurable ==
    /\ controller = "unlinked"
    /\ controller' = "seal"
    /\ durable' = durable \cup {"spool"}
    /\ UNCHANGED <<stage, root, report, pipes, processes, late>>

\* SIGTERM, SIGINT, SIGHUP, an I/O error, a refused input or terminal.
Interrupted ==
    /\ \/ controller \in Body /\ controller' = "failing"
       \/ controller \in RunningStage /\ controller' = "stop"
    /\ UNCHANGED <<stage, files, pipes, processes, late>>

\* Mutant: the timer is disarmed once the stages are over.
AlarmUntilCommit ==
    /\ late
    /\ controller \in {"launch", "inspect"}
    /\ controller' = "failing"
    /\ UNCHANGED <<stage, files, pipes, processes, late>>

\* The interval timer, or the deadline test of the next step.
Alarm ==
    /\ late
    /\ controller \in Body
    /\ controller' = "failing"
    /\ UNCHANGED <<stage, files, pipes, processes, late>>

ControllerStep ==
    \/ Claim \/ Preflight \/ WriteReceipt \/ ReceiptDurable
    \/ Launch \/ CloseCopies \/ PidReported \/ WatchdogSucceeded \/ LifetimeEnded
    \/ StageFails \/ CloseDeathPipe \/ TerminateWatchdog \/ Drained
    \/ Inspect \/ LinkReport \/ LinkDurable \/ UnlinkSpool \/ UnlinkDurable
    \/ Alarm

-----------------------------------------------------------------------------
\* The watchdog of stage s.

\* Only the controller can write to the death pipe.
ControllerPipeEnded(s) == s \notin held

StartWorker(s) ==
    /\ watchdog[s] = "starting"
    /\ watchdog' = [watchdog EXCEPT ![s] = "waiting"]
    /\ worker' = [worker EXCEPT ![s] = "fresh"]
    /\ UNCHANGED <<controller, stage, files, pipes, late>>

\* The worker's guardian has acknowledged; its process identity is reported.
ReportPid(s) ==
    /\ watchdog[s] = "waiting"
    /\ worker[s] \in {"guarded", "done"}
    /\ ~ControllerPipeEnded(s)
    /\ watchdog' = [watchdog EXCEPT ![s] = "watching"]
    /\ UNCHANGED <<controller, stage, files, pipes, worker, late>>

\* Mutant: the trigger is recorded as the worker's state.
KillGroupByTrigger(s) == worker' = [worker EXCEPT ![s] = IF late THEN "registered_deadline" ELSE "dead"]

KillGroup(s) == worker' = [worker EXCEPT ![s] = IF @ \in LiveWorker THEN "dead" ELSE @]

\* No readiness: end of pipe, deadline or an exit before the acknowledgement.
GiveUp(s) ==
    /\ watchdog[s] = "waiting"
    /\ ControllerPipeEnded(s) \/ late \/ worker[s] \in {"failed", "dead"}
    /\ watchdog' = [watchdog EXCEPT ![s] = "bad"]
    /\ KillGroup(s)
    /\ UNCHANGED <<controller, stage, files, pipes, late>>

\* The worker has exited by itself.  Its group is cleaned up before it is reaped.
SeeExit(s) ==
    /\ watchdog[s] = "watching"
    /\ ~WorkerLives(s)
    /\ watchdog' = [watchdog EXCEPT ![s] = "exited"]
    /\ UNCHANGED <<controller, stage, files, pipes, worker, late>>

\* The controller's pipe ended or the deadline passed: the group is killed.
StopWorker(s) ==
    /\ watchdog[s] = "watching"
    /\ ControllerPipeEnded(s) \/ late
    /\ watchdog' = [watchdog EXCEPT ![s] = "stopped"]
    /\ KillGroup(s)
    /\ UNCHANGED <<controller, stage, files, pipes, late>>

Succeeds(s) == watchdog[s] = "exited" /\ worker[s] = "done" /\ ~late

EmitTerminal(s) ==
    /\ watchdog[s] \in {"exited", "stopped"}
    /\ watchdog' = [watchdog EXCEPT ![s] = IF Succeeds(s) THEN "ok" ELSE "bad"]
    /\ UNCHANGED <<controller, stage, files, pipes, worker, late>>

WatchdogStep(s) ==
    \/ StartWorker(s) \/ ReportPid(s) \/ GiveUp(s) \/ SeeExit(s) \/ StopWorker(s)
    \/ EmitTerminal(s)

-----------------------------------------------------------------------------
\* The worker of stage s.

\* Mutant: the worker inherits a write end of its own guard pipe.
GuardPipeInherited(s) == ~WatchdogLives(s) /\ ~WorkerLives(s)

\* Written to by the watchdog, and by a controller that still has its copies.
GuardPipeEnded(s) == ~WatchdogLives(s) /\ s \notin copies

StartGuardian(s) ==
    /\ worker[s] = "fresh"
    /\ worker' = [worker EXCEPT ![s] = "guarded"]
    /\ UNCHANGED <<controller, stage, files, pipes, watchdog, late>>

WorkerGuardian(s) ==
    /\ worker[s] = "guarded"
    /\ GuardPipeEnded(s)
    /\ worker' = [worker EXCEPT ![s] = "dead"]
    /\ UNCHANGED <<controller, stage, files, pipes, watchdog, late>>

\* The builder derives a report, which may be wrong, and spools it.
SpoolReport ==
    /\ worker["builder"] = "guarded"
    /\ \/ Create("spool") /\ report = "none" /\ report' \in {"sound", "unsound"}
       \/ (Fill("spool") \/ Sync("spool")) /\ UNCHANGED report
    /\ UNCHANGED <<controller, stage, pipes, processes, late>>

\* The verifier derives the report again from the frozen inputs.
CanFinish(s) ==
    IF s = "builder" THEN root["spool"] = "whole" /\ "spool" \in durable
                     ELSE report = "sound"

FinishWork(s) ==
    /\ worker[s] = "guarded"
    /\ CanFinish(s)
    /\ worker' = [worker EXCEPT ![s] = "done"]
    /\ UNCHANGED <<controller, stage, files, pipes, watchdog, late>>

WorkFails(s) ==
    /\ WorkerLives(s)
    /\ worker' = [worker EXCEPT ![s] = "failed"]
    /\ UNCHANGED <<controller, stage, files, pipes, watchdog, late>>

-----------------------------------------------------------------------------
\* The environment.

DeadlinePasses ==
    /\ ~late
    /\ late' = TRUE
    /\ UNCHANGED <<controller, stage, files, pipes, processes>>

KillController ==
    /\ controller # "gone"
    /\ controller' = "gone"
    /\ held' = {}
    /\ copies' = {}
    /\ UNCHANGED <<stage, files, processes, late>>

KillWatchdog(s) ==
    /\ WatchdogLives(s)
    /\ watchdog' = [watchdog EXCEPT ![s] = "dead"]
    /\ UNCHANGED <<controller, stage, files, pipes, worker, late>>

KillWorker(s) ==
    /\ WorkerLives(s)
    /\ worker' = [worker EXCEPT ![s] = "dead"]
    /\ UNCHANGED <<controller, stage, files, pipes, watchdog, late>>

\* What an artifact that is not on the disk yet may be when the power is back: a
\* new file lost or torn, a removed one there again.  The bytes of the report
\* and of the spool it is linked to were synced by the builder.
AfterPowerFailure(f) ==
    LET synced == f = "report" \/ (f = "spool" /\ root["report"] = "whole")
    IN  {"absent"} \cup (IF synced THEN {} ELSE {"partial"})
                   \cup (IF root[f] = "partial" THEN {} ELSE {"whole"})

PowerFailure ==
    /\ controller # "gone" \/ ~AllEnded \/ durable # Artifacts
    /\ controller' = "gone"
    /\ held' = {}
    /\ copies' = {}
    /\ watchdog' = [s \in Stages |-> IF WatchdogLives(s) THEN "dead" ELSE watchdog[s]]
    /\ worker' = [s \in Stages |-> IF WorkerLives(s) THEN "dead" ELSE worker[s]]
    /\ \E found \in [Artifacts \ durable -> {"absent", "partial", "whole"}] :
          /\ \A f \in DOMAIN found : found[f] \in AfterPowerFailure(f)
          /\ root' = [f \in Artifacts |-> IF f \in durable THEN root[f] ELSE found[f]]
    /\ durable' = Artifacts
    /\ UNCHANGED <<stage, report, late>>

Environment ==
    \/ DeadlinePasses \/ KillController \/ PowerFailure
    \/ \E s \in Stages : KillWatchdog(s) \/ KillWorker(s)

\* The controller returns or raises: its process ends and its pipes close.
Leave ==
    /\ controller' = "gone"
    /\ held' = {}
    /\ copies' = {}
    /\ UNCHANGED <<stage, processes, late>>

SharedNext ==
    \/ ControllerStep \/ CleanUpInterrupted \/ Interrupted
    \/ \E s \in Stages : \/ WatchdogStep(s) \/ StartGuardian(s) \/ WorkerGuardian(s)
                         \/ FinishWork(s) \/ WorkFails(s)
    \/ SpoolReport
    \/ Environment

-----------------------------------------------------------------------------
\* The mapping to ExecutionVerdict: the root is complete when its completion
\* receipt is on the disk and failed when its failure receipt is.
Whole(f) == root[f] = "whole" /\ f \in durable

Verdict ==
    CASE Whole("completion") /\ Whole("failure") -> "both"
      [] Whole("completion") /\ ~Whole("failure") -> "complete"
      [] ~Whole("completion") /\ Whole("failure") -> "failed"
      [] OTHER -> "open"

Promise == INSTANCE ExecutionVerdict WITH verdict <- Verdict

\* The root keeps the promise of ExecutionVerdict: it is decided at most once,
\* complete only over a sound report, and never carries both receipts.
VerdictIsFinal == Promise!Spec
=============================================================================

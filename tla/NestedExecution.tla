--------------------------- MODULE NestedExecution ---------------------------
(***************************************************************************)
(* The nested-opening feasibility lifecycle: GuardedExecution followed by  *)
(* a sealed end.  Before the completion receipt is written the managed     *)
(* signals are blocked, the timer is disarmed, the root is replayed and    *)
(* the deadline is read for the last time.  A failure looks first whether  *)
(* an exact completion receipt is there.                                   *)
(***************************************************************************)
EXTENDS GuardedExecution

\* The root is created but its hand-over fails: a failure receipt is tried.
ClaimFails ==
    /\ controller = "claim"
    /\ controller' = "failing"
    /\ UNCHANGED <<stage, files, pipes, processes, late>>

\* The held inputs are replayed and the clock is read; the first interruption
\* that can strike is the unmasking of the signals itself.
PreflightFails ==
    /\ controller = "preflight"
    /\ controller' = "failing"
    /\ UNCHANGED <<stage, files, pipes, processes, late>>

\* The bootstrap guardian thread kills the watchdog when the controller's pipe
\* ends.
WatchdogGuardian(s) ==
    /\ WatchdogLives(s)
    /\ ControllerPipeEnded(s)
    /\ watchdog' = [watchdog EXCEPT ![s] = "dead"]
    /\ UNCHANGED <<controller, stage, files, pipes, worker, late>>

\* The exact inventory before completion: six artifacts, all whole.
Inventory ==
    \A f \in Artifacts :
        root[f] = IF f \in Receipts \cup {"report"} THEN "whole" ELSE "absent"

\* Snapshot of the root, then every managed signal blocked and the timer off.
BlockSignals ==
    /\ controller = "seal"
    /\ Inventory
    /\ ~late
    /\ controller' = "blocked"
    /\ UNCHANGED <<stage, files, pipes, processes, late>>

Admit ==
    /\ controller = "blocked"
    /\ Inventory
    /\ ~late
    /\ controller' = "completing"
    /\ UNCHANGED <<stage, files, pipes, processes, late>>

WriteCompletion ==
    /\ controller = "completing"
    /\ Create("completion") \/ Fill("completion")
    /\ UNCHANGED <<controller, stage, report, pipes, processes, late>>

CompletionDurable ==
    /\ controller = "completing"
    /\ Sync("completion")
    /\ controller' = "returning"
    /\ UNCHANGED <<stage, report, pipes, processes, late>>

Return ==
    /\ controller = "returning"
    /\ Leave
    /\ UNCHANGED files

\* With signals blocked only an I/O error or a failed check can raise.  The
\* last deadline test and the last replay of the root are such checks.
SealFails ==
    /\ controller \in Sealing
    /\ controller' = "failing"
    /\ UNCHANGED <<stage, files, pipes, processes, late>>

SealRefused ==
    /\ controller \in {"seal", "blocked"}
    /\ ~Inventory \/ late
    /\ SealFails

\* An exact completion receipt is made durable and is the last word.
KeepCompletion ==
    /\ controller = "failing"
    /\ root["completion"] = "whole"
    /\ durable' = durable \cup {"completion"}
    /\ Leave
    /\ UNCHANGED <<root, report>>

\* One that is not exact, or cannot be made durable, is taken away.  A receipt
\* the disk has confirmed once is taken to be confirmed again.
WithdrawCompletion ==
    /\ controller = "failing"
    /\ "completion" \notin durable
    /\ Remove("completion")
    /\ controller' = "withdrawn"
    /\ UNCHANGED <<stage, report, pipes, processes, late>>

WithdrawalDurable ==
    /\ controller = "withdrawn"
    /\ controller' = "recording"
    /\ durable' = durable \cup {"completion"}
    /\ UNCHANGED <<stage, root, report, pipes, processes, late>>

\* Mutant: the failure receipt is written without a look at the root.
FailBlindly ==
    /\ controller = "failing"
    /\ controller' = "recording"
    /\ UNCHANGED <<stage, files, pipes, processes, late>>

NoCompletion ==
    /\ controller = "failing"
    /\ root["completion"] = "absent"
    /\ controller' = "recording"
    /\ UNCHANGED <<stage, files, pipes, processes, late>>

WriteFailure ==
    /\ controller = "recording"
    /\ Create("failure") \/ Fill("failure")
    /\ UNCHANGED <<controller, stage, report, pipes, processes, late>>

FailureDurable ==
    /\ controller = "recording"
    /\ Sync("failure")
    /\ Leave
    /\ UNCHANGED report

\* Anything that goes wrong while failing is swallowed.
FailureLost ==
    /\ controller \in Failing
    /\ Leave
    /\ UNCHANGED files

SealStep ==
    \/ BlockSignals \/ Admit \/ WriteCompletion \/ CompletionDurable \/ Return
    \/ SealRefused \/ KeepCompletion \/ WithdrawCompletion \/ WithdrawalDurable
    \/ NoCompletion \/ WriteFailure \/ FailureDurable

Next ==
    \/ SharedNext \/ SealStep
    \/ ClaimFails \/ PreflightFails \/ SealFails \/ FailureLost
    \/ \E s \in Stages : WatchdogGuardian(s)

Spec == Init /\ [][Next]_vars

\* The controller runs on, a watchdog and a guardian thread react to what they
\* can see.  A worker may compute for ever and nothing makes time pass.
FairSpec ==
    /\ Spec
    /\ WF_vars(ControllerStep \/ SealStep \/ (late /\ PreflightFails))
    /\ \A s \in Stages : /\ WF_vars(WatchdogStep(s) \/ WatchdogGuardian(s))
                         /\ WF_vars(StartGuardian(s))
                         /\ WF_vars(WorkerGuardian(s))

-----------------------------------------------------------------------------
\* A completion receipt is only ever in a root whose receipts and report are
\* whole and on the disk, whose spool is gone from the disk, that has no
\* failure receipt, whose report is the one a fresh process derived again, and
\* that no process of the run can write to any more: what the receipt states
\* under "completion", whatever was killed and whenever the power failed.
CompletionIsEarned ==
    root["completion"] # "absent" =>
        /\ \A f \in Receipts \cup {"report"} : root[f] = "whole" /\ f \in durable
        /\ root["spool"] = "absent" /\ "spool" \in durable
        /\ root["failure"] = "absent"
        /\ report = "sound"
        /\ AllEnded

\* A worker never outlives its run for good: once the controller is gone, killed
\* or not, every watchdog and every worker ends, without help of the deadline.
NoOrphans == controller = "gone" ~> AllEnded

\* After the deadline the run comes to its end: controller, watchdogs, workers.
DeadlineEndsTheRun == late ~> controller = "gone" /\ AllEnded
=============================================================================

--------------------------- MODULE CensusExecution ---------------------------
(***************************************************************************)
(* The evaluation-census lifecycle, the older of the two.  The stages are  *)
(* those of GuardedExecution; its end is open: the signals and the timer   *)
(* stay armed until the root is left, the deadline is tested once more     *)
(* after the completion receipt, and a failure does not look at the root.  *)
(***************************************************************************)
EXTENDS GuardedExecution

\* The root is claimed and the timer is armed before the try block: what
\* strikes here leaves an empty root behind.
PreflightFails ==
    /\ controller = "preflight"
    /\ Leave
    /\ UNCHANGED files

\* The watchdog cannot report the process to a controller that is gone and
\* leaves the worker to its own guardian.
ReportIsLost(s) ==
    /\ watchdog[s] = "waiting"
    /\ worker[s] \in {"guarded", "done"}
    /\ ControllerPipeEnded(s)
    /\ watchdog' = [watchdog EXCEPT ![s] = "bad"]
    /\ UNCHANGED <<controller, stage, files, pipes, worker, late>>

AdmitCompletion ==
    /\ controller = "seal"
    /\ ~late
    /\ controller' = "completing"
    /\ UNCHANGED <<stage, files, pipes, processes, late>>

WriteCompletion ==
    /\ controller = "completing"
    /\ Create("completion") \/ Fill("completion")
    /\ UNCHANGED <<controller, stage, report, pipes, processes, late>>

CompletionDurable ==
    /\ controller = "completing"
    /\ Sync("completion")
    /\ controller' = "returning"
    /\ UNCHANGED <<stage, report, pipes, processes, late>>

Return ==
    /\ controller = "returning"
    /\ ~late
    /\ Leave
    /\ UNCHANGED files

\* A signal, the timer or the deadline test, also after the completion receipt.
EndFails ==
    /\ controller \in {"seal", "completing", "returning"}
    /\ controller' = "failing"
    /\ UNCHANGED <<stage, files, pipes, processes, late>>

WriteFailure ==
    /\ controller = "failing"
    /\ Create("failure") \/ Fill("failure")
    /\ UNCHANGED <<controller, stage, report, pipes, processes, late>>

FailureDurable ==
    /\ controller = "failing"
    /\ Sync("failure")
    /\ Leave
    /\ UNCHANGED report

FailureLost ==
    /\ controller = "failing"
    /\ Leave
    /\ UNCHANGED files

Next ==
    \/ SharedNext
    \/ AdmitCompletion \/ WriteCompletion \/ CompletionDurable \/ Return
    \/ PreflightFails \/ EndFails \/ WriteFailure \/ FailureDurable \/ FailureLost
    \/ \E s \in Stages : ReportIsLost(s)

Spec == Init /\ [][Next]_vars

-----------------------------------------------------------------------------
\* What the two terminal receipts say of each other: the completion receipt
\* "failure_receipt_present": False, the failure receipt
\* "completion_receipt_present": False.  Only one of them may be on the disk.
ReceiptsAgree == ~(Whole("completion") /\ Whole("failure"))
=============================================================================

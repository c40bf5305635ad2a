-------------------------- MODULE ExecutionVerdict --------------------------
(***************************************************************************)
(* What the execution root of a registered run promises to the person who  *)
(* opens it later: a report may be built once, the root is decided once,   *)
(* it is only ever called complete over a report that is right, and after  *)
(* that nothing about it changes.  Two lifecycle implementations claim to  *)
(* keep this promise: NestedExecution and CensusExecution.                 *)
(***************************************************************************)
VARIABLES
    report,   \* "none", or what a builder wrote: "sound" or "unsound"
    verdict   \* "open", "complete", "failed", or "both" receipts at once

verdictVars == <<report, verdict>>

Init == report = "none" /\ verdict = "open"

Build ==
    /\ report = "none"
    /\ verdict # "complete"
    /\ report' \in {"sound", "unsound"}
    /\ UNCHANGED verdict

Complete ==
    /\ verdict = "open"
    /\ report = "sound"
    /\ verdict' = "complete"
    /\ UNCHANGED report

Fail ==
    /\ verdict = "open"
    /\ verdict' = "failed"
    /\ UNCHANGED report

Spec == Init /\ [][Build \/ Complete \/ Fail]_verdictVars
=============================================================================

--------------------------- MODULE MCGoalZendoRun ---------------------------
(***************************************************************************)
(* The machines of the runs: one that reproduces a replay, one on CUDA     *)
(* that does not and may glue rows, and one on CUDA that reproduces.       *)
(***************************************************************************)
EXTENDS GoalZendoRun

Exact      == [tails |-> {"partial"}, reproducible |-> TRUE, cuda |-> FALSE]
Inexact    == [tails |-> {"partial", "unterminated"}, reproducible |-> FALSE, cuda |-> TRUE]
ExactCuda  == [Exact EXCEPT !.cuda = TRUE]

BothMachines == {Exact, Inexact}
CudaMachine  == {ExactCuda}
=============================================================================

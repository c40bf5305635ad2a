---------------------------- MODULE MCForkWorldRun ----------------------------
(* Instances of ForkWorldRun: what a run with task level "fork" saves.     *)
EXTENDS ForkWorldRun

OneCheckpoint == <<"final">>
TwoCheckpoints == <<"early", "final">>
ForkLevel == <<"fork">>

===============================================================================

------------------------- MODULE ResumableTrajectory --------------------------
(***************************************************************************)
(* What a resumable training run promises to whoever reads its directory:  *)
(* one trajectory that is only ever extended.  Steps that were committed   *)
(* survive every interruption and are never recomputed; when the run is    *)
(* sealed the trajectory is complete, and after that nothing changes.      *)
(***************************************************************************)
EXTENDS Naturals

CONSTANT Steps

VARIABLES
    history,    \* history[s] is the attempt that made step s, 0 if none has
    sealed

Blank == [s \in 1 .. Steps |-> 0]

\* g makes every step that f makes, by the same attempt.
Extends(f, g) == \A s \in 1 .. Steps : f[s] > 0 => g[s] = f[s]

Complete(f) == \A s \in 1 .. Steps : f[s] > 0

Init == history = Blank /\ sealed = FALSE

Commit ==
    /\ ~sealed
    /\ history' # history
    /\ Extends(history, history')
    /\ UNCHANGED sealed

Seal ==
    /\ ~sealed
    /\ sealed' = TRUE
    /\ Extends(history, history')
    /\ Complete(history')

Next == Commit \/ Seal

Spec == Init /\ [][Next]_<<history, sealed>>

===============================================================================

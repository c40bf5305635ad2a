--------------------------- MODULE MCForkWorldSweep ---------------------------
(* Instances of ForkWorldSweep: the two shards of one experiment, and two    *)
(* experiments that share an artifact root.                                  *)
EXTENDS ForkWorldSweep

CONSTANTS s1, s2, r1, r2

TwoShards == [s \in {s1, s2} |-> [index |-> IF s = s1 THEN 0 ELSE 1, count |-> 2, max |-> 9]]
OneRunEach == [s \in {s1, s2} |-> [index |-> IF s = s1 THEN 0 ELSE 1, count |-> 2, max |-> 1]]

SameRequest == [s \in {s1, s2} |-> r1]
OwnRequests == [s \in {s1, s2} |-> IF s = s1 THEN r1 ELSE r2]

===============================================================================

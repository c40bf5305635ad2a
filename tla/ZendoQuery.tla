------------------------------ MODULE ZendoQuery ------------------------------
(***************************************************************************)
(* Version spaces and questions of the interactive game: catalog.py and    *)
(* query.py of goalzendo_interactive.                                      *)
(*                                                                         *)
(* The catalog keeps one rule per truth vector, so a rule is the set of    *)
(* the scenes it accepts, and a version space a set of rules.              *)
(***************************************************************************)
EXTENDS Naturals, FiniteSets

CONSTANTS
    Scenes,     \* the scene universe
    Catalog     \* the retained rules, each the set of the scenes it accepts

ASSUME QueryConstants ==
    /\ IsFiniteSet(Scenes)
    /\ Catalog \subseteq SUBSET Scenes

Smaller(m, n) == IF m < n THEN m ELSE n

\* VersionSpace.observe
Observe(space, s, label) == {r \in space : (s \in r) = label}

\* VersionSpace.observe_many, for the labels that the rule truth gives
ObserveMany(space, scenes, truth) == {r \in space : \A s \in scenes : (s \in r) = (s \in truth)}

\* VersionSpace.label_counts
Accepted(space, s) == Cardinality({r \in space : s \in r})
Rejected(space, s) == Cardinality(space) - Accepted(space, s)

Balance(space, s) == Smaller(Rejected(space, s), Accepted(space, s))

\* Mutation: the most lopsided question.
WorstQueries(space, legal) ==
    LET balances == {Balance(space, t) : t \in legal} IN
    {s \in legal : \A b \in balances : b >= Balance(space, s)}

\* The scenes optimal_legal_query chooses from: its frozen hash breaks the
\* tie, which is any of them here.
OptimalQueries(space, legal) ==
    LET balances == {Balance(space, t) : t \in legal} IN
    {s \in legal : \A b \in balances : b <= Balance(space, s)}

-------------------------------------------------------------------------------

\* partitions: the proper splits of a version space, a split and its complement
\* counted once.
Partitions(space) ==
    {{Observe(space, s, TRUE), Observe(space, s, FALSE)} : s \in Scenes} \ {{space, {}}}

\* Mutation: a full tree is cut off.
FitsWithRoom(space, depth) == Cardinality(space) < 2 ^ depth

\* What a tree of that depth can tell apart.
Fits(space, depth) == Cardinality(space) <= 2 ^ depth

\* feasible: whether a decision tree of depth d tells the rules apart; spaces
\* and halves too large for the depth are cut off first.
SearchStep(tree, d, space) ==
    \/ Cardinality(space) <= 1
    \/ /\ d > 0 /\ Fits(space, d)
       /\ \E split \in Partitions(space) :
            /\ \A half \in split : Fits(half, d - 1)
            /\ \A half \in split : tree[<<d - 1, half>>]

Feasible(depth) ==
    LET tree[node \in (0 .. depth) \X SUBSET Catalog] == SearchStep(tree, node[1], node[2])
    IN  tree

\* (n - 1).bit_length()
BitLength(n) == CHOOSE k \in 0 .. n : 2 ^ k >= n /\ \A j \in 0 .. n : 2 ^ j >= n => k <= j

\* exact_minimax_identification_depth: the depths it accepts, smallest first;
\* None is the empty set.
FeasibleDepths(space, max) ==
    {d \in BitLength(Cardinality(space)) .. max : Feasible(max)[<<d, space>>]}

\* The definition it is checked against: without the cut-offs, and from depth 0.
TreeStep(tree, d, space) ==
    \/ Cardinality(space) <= 1
    \/ /\ d > 0
       /\ \E s \in Scenes : \A label \in BOOLEAN : tree[<<d - 1, Observe(space, s, label)>>]

Identifiable(depth) ==
    LET tree[node \in (0 .. depth) \X SUBSET Catalog] == TreeStep(tree, node[1], node[2])
    IN  tree

IdentifiableDepths(space, max) == {d \in 0 .. max : Identifiable(max)[<<d, space>>]}

===============================================================================

--------------------------- MODULE ZendoQueryProofs ---------------------------
(***************************************************************************)
(* Version spaces, the questions that split them, and the search for the   *)
(* depth of their trees, for every finite scene universe and every         *)
(* catalog. Induction over the depth is over the least counterexample.     *)
(***************************************************************************)
EXTENDS ZendoQuery, FiniteSetTheorems, WellFoundedInduction, TLAPS

\* A version space is finite: there are finitely many scenes to differ on.
LEMMA SpacesAreFinite ==
    ASSUME NEW space \in SUBSET Catalog
    PROVE  IsFiniteSet(space)
<1>1. IsFiniteSet(SUBSET Scenes)
  BY QueryConstants, FS_SUBSET
<1>2. space \subseteq SUBSET Scenes
  BY QueryConstants
<1> QED
  BY <1>1, <1>2, FS_Subset

\* The two counts of label_counts are those of the two halves of the split.
LEMMA LabelCounts ==
    ASSUME NEW space \in SUBSET Catalog, NEW s
    PROVE  /\ Accepted(space, s) \in Nat /\ Rejected(space, s) \in Nat
           /\ Cardinality(space) = Accepted(space, s) + Rejected(space, s)
           /\ Cardinality(Observe(space, s, TRUE)) = Accepted(space, s)
           /\ Cardinality(Observe(space, s, FALSE)) = Rejected(space, s)
<1> DEFINE yes == {r \in space : s \in r}
           no == space \ yes
<1>1. IsFiniteSet(space) /\ IsFiniteSet(yes) /\ IsFiniteSet(no)
  <2>1. IsFiniteSet(space)
    BY SpacesAreFinite
  <2>2. yes \subseteq space /\ no \subseteq space
    OBVIOUS
  <2> QED
    BY <2>1, <2>2, FS_Subset
<1>2. Cardinality(space) \in Nat /\ Cardinality(yes) \in Nat /\ Cardinality(no) \in Nat
  BY <1>1, FS_CardinalityType
<1>3. Cardinality(no) = Cardinality(space) - Cardinality(yes)
  <2>1. space \cap yes = yes
    OBVIOUS
  <2> QED
    BY <1>1, <2>1, FS_Difference
<1>4. Observe(space, s, TRUE) = yes /\ Observe(space, s, FALSE) = no
  BY DEF Observe
<1>5. Accepted(space, s) = Cardinality(yes)
  BY DEF Accepted
<1>6. Rejected(space, s) = Cardinality(space) - Cardinality(yes)
  BY <1>5 DEF Rejected
<1> HIDE DEF yes, no
<1>7. Rejected(space, s) \in Nat /\ Cardinality(no) = Rejected(space, s)
  BY <1>2, <1>3, <1>6
<1>8. Accepted(space, s) \in Nat /\ Cardinality(space) = Accepted(space, s) + Rejected(space, s)
  BY <1>2, <1>5, <1>6
<1>9. Cardinality(Observe(space, s, TRUE)) = Accepted(space, s)
  BY <1>4, <1>5, Zenon
<1>10. Cardinality(Observe(space, s, FALSE)) = Rejected(space, s)
  BY <1>4, <1>7, Zenon
<1> QED
  BY <1>7, <1>8, <1>9, <1>10, Zenon

\* The smaller half is no larger than either.
LEMMA BalanceIsBounded ==
    ASSUME NEW space \in SUBSET Catalog, NEW s
    PROVE  /\ Balance(space, s) \in Nat
           /\ Balance(space, s) <= Accepted(space, s)
           /\ Balance(space, s) <= Rejected(space, s)
<1>1. Accepted(space, s) \in Nat /\ Rejected(space, s) \in Nat
  BY LabelCounts
<1> QED
  BY <1>1 DEF Balance, Smaller

\* A scene on which all rules of the space agree splits nothing off.
LEMMA AgreementHasNoBalance ==
    ASSUME NEW space \in SUBSET Catalog, NEW s,
           \A r, q \in space : (s \in r) = (s \in q)
    PROVE  Balance(space, s) = 0
<1>1. Observe(space, s, TRUE) = {} \/ Observe(space, s, FALSE) = {}
  BY DEF Observe
<1>2. /\ Accepted(space, s) \in Nat /\ Cardinality(Observe(space, s, TRUE)) = Accepted(space, s)
      /\ Rejected(space, s) \in Nat /\ Cardinality(Observe(space, s, FALSE)) = Rejected(space, s)
  BY LabelCounts
<1>3. Cardinality({}) = 0
  BY FS_EmptySet
<1>4. Accepted(space, s) = 0 \/ Rejected(space, s) = 0
  BY <1>1, <1>2, <1>3
<1> QED
  BY <1>2, <1>4 DEF Balance, Smaller

\* A scene on which two of them differ splits the space.
LEMMA DisagreementHasBalance ==
    ASSUME NEW space \in SUBSET Catalog, NEW s,
           NEW r \in space, NEW q \in space, s \in r, s \notin q
    PROVE  Balance(space, s) >= 1
<1> DEFINE yes == Observe(space, s, TRUE)
           no == Observe(space, s, FALSE)
<1>1. r \in yes /\ q \in no
  BY DEF Observe
<1>2. IsFiniteSet(yes) /\ IsFiniteSet(no)
  <2>1. yes \subseteq space /\ no \subseteq space
    BY DEF Observe
  <2> QED
    BY <2>1, SpacesAreFinite, FS_Subset
<1>3. Cardinality(yes) # 0 /\ Cardinality(no) # 0
  BY <1>1, <1>2, FS_EmptySet
<1>4. /\ Accepted(space, s) \in Nat /\ Cardinality(yes) = Accepted(space, s)
      /\ Rejected(space, s) \in Nat /\ Cardinality(no) = Rejected(space, s)
  BY LabelCounts
<1> HIDE DEF yes, no
<1> QED
  BY <1>3, <1>4 DEF Balance, Smaller

\* Whatever the answer, a question with a positive balance leaves fewer rules.
LEMMA BalancedQuestionNarrows ==
    ASSUME NEW space \in SUBSET Catalog, NEW s, Balance(space, s) >= 1, NEW label \in BOOLEAN
    PROVE  Cardinality(Observe(space, s, label)) < Cardinality(space)
<1>1. /\ Accepted(space, s) \in Nat /\ Rejected(space, s) \in Nat
      /\ Cardinality(space) = Accepted(space, s) + Rejected(space, s)
      /\ Cardinality(Observe(space, s, TRUE)) = Accepted(space, s)
      /\ Cardinality(Observe(space, s, FALSE)) = Rejected(space, s)
  BY LabelCounts
<1>2. Accepted(space, s) >= 1 /\ Rejected(space, s) >= 1
  BY <1>1 DEF Balance, Smaller
<1>3. Accepted(space, s) < Cardinality(space) /\ Rejected(space, s) < Cardinality(space)
  BY <1>1, <1>2
<1>4. CASE label = TRUE
  BY <1>1, <1>3, <1>4, Zenon
<1>5. CASE label = FALSE
  BY <1>1, <1>3, <1>5, Zenon
<1> QED
  BY <1>4, <1>5

\* The rules of a catalog are extensionally unique: two of them differ
\* somewhere, so a space of several rules can always be split.
LEMMA SeveralRulesCanBeSplit ==
    ASSUME NEW space \in SUBSET Catalog, Cardinality(space) > 1
    PROVE  \E s \in Scenes : \E r, q \in space : s \in r /\ s \notin q
<1>1. IsFiniteSet(space)
  BY SpacesAreFinite
<1>2. space # {}
  BY <1>1, FS_EmptySet
<1>3. PICK r \in space : TRUE
  BY <1>2
<1>4. space # {r}
  BY FS_Singleton
<1>5. PICK q \in space : q # r
  BY <1>3, <1>4
<1>6. r \subseteq Scenes /\ q \subseteq Scenes
  BY QueryConstants
<1>7. \E s \in Scenes : (s \in r /\ s \notin q) \/ (s \in q /\ s \notin r)
  BY <1>5, <1>6
<1> QED
  BY <1>7

\* If everything outside legal splits nothing, the best of the legal scenes is
\* the best of all, and narrows a space of several rules.
LEMMA BestOfTheUnseen ==
    ASSUME NEW space \in SUBSET Catalog, Cardinality(space) > 1,
           NEW legal \in SUBSET Scenes,
           \A s \in Scenes \ legal : Balance(space, s) = 0,
           NEW s \in OptimalQueries(space, legal)
    PROVE  /\ s \in OptimalQueries(space, Scenes)
           /\ Balance(space, s) >= 1
<1>1. s \in legal /\ \A t \in legal : Balance(space, t) <= Balance(space, s)
  BY DEF OptimalQueries
<1>2. \A t \in Scenes : Balance(space, t) <= Balance(space, s)
  BY <1>1, BalanceIsBounded
<1>3. PICK t \in Scenes : Balance(space, t) >= 1
  BY SeveralRulesCanBeSplit, DisagreementHasBalance
<1>4. Balance(space, s) >= 1
  BY <1>2, <1>3, BalanceIsBounded
<1> QED
  BY <1>1, <1>2, <1>4 DEF OptimalQueries

-------------------------------------------------------------------------------
(* Least numbers and powers of two.                                        *)

\* A nonempty set of natural numbers has a least element.
LEMMA LeastNatural ==
    ASSUME NEW T \in SUBSET Nat, T # {}
    PROVE  \E n \in T : \A m \in T : n <= m
<1> DEFINE R == {ss \in Nat \X Nat : ss[1] < ss[2]}
<1>1. IsWellFoundedOn(R, Nat)
  BY NatLessThanWellFounded DEF OpToRel
<1>2. \A m, n \in Nat : m < n => <<m, n>> \in R
  OBVIOUS
<1> HIDE DEF R
<1>3. PICK n \in T : \A m \in T : ~(<<m, n>> \in R)
  BY <1>1, WFMin
<1>4. ASSUME NEW m \in T
      PROVE  n <= m
  <2>1. m \in Nat /\ n \in Nat /\ ~(m < n)
    BY <1>2, <1>3
  <2> QED
    BY <2>1
<1> QED
  BY <1>4

\* Where a set of numbers holds 0 and with every number the next, it holds all of them.
LEMMA EveryNatural ==
    ASSUME NEW S, 0 \in S, \A n \in Nat : n \in S => n + 1 \in S
    PROVE  Nat \subseteq S
<1> SUFFICES ASSUME Nat \ S # {}
             PROVE  FALSE
  OBVIOUS
<1>1. PICK n \in Nat \ S : \A m \in Nat \ S : n <= m
  BY LeastNatural
<1>2. n # 0 /\ n - 1 \in Nat /\ ~(n <= n - 1) /\ (n - 1) + 1 = n
  BY <1>1
<1>3. n - 1 \in S
  BY <1>1, <1>2
<1> QED
  BY <1>1, <1>2, <1>3

\* 2 ^ n is the number of subsets of n things.
LEMMA PowersOfTwo ==
    /\ 2 ^ 0 = 1
    /\ \A n \in Nat : 2 ^ n \in Nat /\ 2 ^ (n + 1) = 2 ^ n + 2 ^ n
<1>1. ASSUME NEW n \in Nat
      PROVE  IsFiniteSet(1 .. n) /\ Cardinality(1 .. n) = n
  BY FS_Interval
<1>2. ASSUME NEW n \in Nat
      PROVE  /\ IsFiniteSet(SUBSET (1 .. n)) /\ Cardinality(SUBSET (1 .. n)) = 2 ^ n
             /\ 2 ^ n \in Nat
  BY <1>1, FS_SUBSET, FS_CardinalityType
<1>3. 2 ^ 0 = 1
  OBVIOUS
<1>4. ASSUME NEW n \in Nat
      PROVE  2 ^ (n + 1) = 2 ^ n + 2 ^ n
  <2> DEFINE old == SUBSET (1 .. n)
             new == {A \cup {n + 1} : A \in old}
             f == [A \in old |-> A \cup {n + 1}]
  <2>1. n + 1 \in Nat /\ n + 1 \notin 1 .. n /\ 1 .. n + 1 = (1 .. n) \cup {n + 1}
    OBVIOUS
  <2>2. SUBSET (1 .. n + 1) = old \cup new
    <3>1. ASSUME NEW A \in SUBSET (1 .. n + 1), n + 1 \in A
          PROVE  A \in new
      <4>1. A \ {n + 1} \in old /\ A = (A \ {n + 1}) \cup {n + 1}
        BY <2>1, <3>1
      <4> QED
        BY <4>1
    <3>2. ASSUME NEW A \in SUBSET (1 .. n + 1), n + 1 \notin A
          PROVE  A \in old
      BY <2>1, <3>2
    <3>3. ASSUME NEW A \in old \cup new
          PROVE  A \in SUBSET (1 .. n + 1)
      BY <2>1
    <3> QED
      BY <3>1, <3>2, <3>3
  <2>3. old \cap new = {}
    BY <2>1
  <2>4. \A A, B \in old : A \cup {n + 1} = B \cup {n + 1} => A = B
    <3> SUFFICES ASSUME NEW A \in old, NEW B \in old, A \cup {n + 1} = B \cup {n + 1}
                 PROVE  A = B
      OBVIOUS
    <3>1. A = (A \cup {n + 1}) \ {n + 1} /\ B = (B \cup {n + 1}) \ {n + 1}
      BY <2>1
    <3> QED
      BY <3>1
  <2>5. f \in Bijection(old, new)
    <3>1. f \in [old -> new] /\ \A A \in old : f[A] = A \cup {n + 1}
      OBVIOUS
    <3>2. \A B \in new : \E A \in old : f[A] = B
      BY <3>1
    <3>3. \A A, B \in old : f[A] = f[B] => A = B
      BY <2>4, <3>1
    <3> HIDE DEF f, new, old
    <3> QED
      BY <3>1, <3>2, <3>3 DEF Bijection, Injection, IsInjective, Surjection
  <2>6. ExistsBijection(old, new)
    BY <2>5, Zenon DEF ExistsBijection
  <2>7. IsFiniteSet(old) /\ Cardinality(old) = 2 ^ n /\ 2 ^ n \in Nat
    BY <1>2
  <2> HIDE DEF old, new, f
  <2>8. IsFiniteSet(new) /\ Cardinality(new) = 2 ^ n
    BY <2>6, <2>7, FS_Bijection
  <2>9. Cardinality(old \cup new) = Cardinality(old) + Cardinality(new) - Cardinality(old \cap new)
    BY <2>7, <2>8, FS_Union
  <2>10. Cardinality(old \cap new) = 0
    BY <2>3, FS_EmptySet
  <2>11. Cardinality(SUBSET (1 .. n + 1)) = 2 ^ (n + 1)
    BY <1>2, <2>1
  <2>12. Cardinality(old \cup new) = 2 ^ n + 2 ^ n
    BY <2>7, <2>8, <2>9, <2>10
  <2> QED
    BY <2>2, <2>11, <2>12, Zenon
<1> QED
  BY <1>2, <1>3, <1>4

\* They grow, and faster than their exponents.
LEMMA PowersGrow ==
    /\ \A n \in Nat : n < 2 ^ n
    /\ \A m, n \in Nat : m <= n => 2 ^ m <= 2 ^ n
<1>1. Nat \subseteq {n \in Nat : n < 2 ^ n}
  <2> DEFINE S == {n \in Nat : n < 2 ^ n}
  <2>1. 0 \in S
    BY PowersOfTwo
  <2>2. ASSUME NEW n \in Nat, n < 2 ^ n
        PROVE  n + 1 \in S
    <3>1. 2 ^ n \in Nat /\ 2 ^ (n + 1) = 2 ^ n + 2 ^ n
      BY PowersOfTwo
    <3> QED
      BY <2>2, <3>1
  <2>3. \A n \in Nat : n \in S => n + 1 \in S
    BY <2>2
  <2> HIDE DEF S
  <2>4. Nat \subseteq S
    BY <2>1, <2>3, EveryNatural
  <2> QED
    BY <2>4 DEF S
<1>2. ASSUME NEW m \in Nat
      PROVE  Nat \subseteq {n \in Nat : m <= n => 2 ^ m <= 2 ^ n}
  <2> DEFINE S == {n \in Nat : m <= n => 2 ^ m <= 2 ^ n}
  <2>1. 0 \in S
    <3>1. 2 ^ m \in Nat /\ (m <= 0 => m = 0)
      BY PowersOfTwo
    <3>2. m <= 0 => 2 ^ m <= 2 ^ 0
      <4> SUFFICES ASSUME m = 0
                   PROVE  2 ^ m <= 2 ^ m
        BY <3>1
      <4> QED
        BY <3>1
    <3> QED
      BY <3>2
  <2>2. ASSUME NEW n \in Nat, n \in S
        PROVE  n + 1 \in S
    <3>1. 2 ^ n \in Nat /\ 2 ^ m \in Nat /\ 2 ^ (n + 1) \in Nat /\ 2 ^ (n + 1) = 2 ^ n + 2 ^ n
      BY PowersOfTwo
    <3>2. CASE m <= n
      BY <2>2, <3>1, <3>2
    <3>3. CASE m = n + 1
      BY <3>1, <3>3
    <3>4. CASE m > n + 1
      BY <3>4
    <3> QED
      BY <3>2, <3>3, <3>4
  <2> HIDE DEF S
  <2>3. Nat \subseteq S
    BY <2>1, <2>2, EveryNatural
  <2> QED
    BY <2>3 DEF S
<1> QED
  BY <1>1, <1>2


-------------------------------------------------------------------------------
(* The two searches as functions: each is defined at every depth and space *)
(* by its step, which looks one depth below.                               *)

\* The halves of a space, and so those of its splits, are spaces of the catalog.
LEMMA HalvesAreSpaces ==
    ASSUME NEW space \in SUBSET Catalog
    PROVE  /\ \A s, label : Observe(space, s, label) \in SUBSET Catalog
           /\ \A split \in Partitions(space) : \A half \in split : half \in SUBSET Catalog
<1>1. \A s, label : Observe(space, s, label) \in SUBSET Catalog
  BY DEF Observe
<1>2. ASSUME NEW split \in Partitions(space), NEW half \in split
      PROVE  half \in SUBSET Catalog
  <2>1. PICK s \in Scenes : split = {Observe(space, s, TRUE), Observe(space, s, FALSE)}
    BY DEF Partitions
  <2> QED
    BY <1>1, <1>2, <2>1
<1> QED
  BY <1>1, <1>2

LEMMA SearchLooksBelow ==
    ASSUME NEW f, NEW g, NEW d \in Nat, NEW space \in SUBSET Catalog,
           d > 0 => \A half \in SUBSET Catalog : f[<<d - 1, half>>] = g[<<d - 1, half>>]
    PROVE  SearchStep(f, d, space) = SearchStep(g, d, space)
<1>1. CASE d > 0
  <2>1. ASSUME NEW split \in Partitions(space)
        PROVE  (\A half \in split : f[<<d - 1, half>>]) <=> (\A half \in split : g[<<d - 1, half>>])
    <3>1. \A half \in split : f[<<d - 1, half>>] = g[<<d - 1, half>>]
      BY <1>1, HalvesAreSpaces
    <3> QED
      BY <3>1, Zenon
  <2> QED
    BY <2>1, Zenon DEF SearchStep
<1>2. CASE ~(d > 0)
  BY <1>2, Zenon DEF SearchStep
<1> QED
  BY <1>1, <1>2

LEMMA PlainSearchLooksBelow ==
    ASSUME NEW f, NEW g, NEW d \in Nat, NEW space \in SUBSET Catalog,
           d > 0 => \A half \in SUBSET Catalog : f[<<d - 1, half>>] = g[<<d - 1, half>>]
    PROVE  TreeStep(f, d, space) = TreeStep(g, d, space)
<1>1. CASE d > 0
  <2>1. \A s, label : f[<<d - 1, Observe(space, s, label)>>] = g[<<d - 1, Observe(space, s, label)>>]
    BY <1>1, HalvesAreSpaces
  <2> QED
    BY <2>1, Zenon DEF TreeStep
<1>2. CASE ~(d > 0)
  BY <1>2, Zenon DEF TreeStep
<1> QED
  BY <1>1, <1>2

Nodes(n) == (0 .. n) \X SUBSET Catalog
IsSearch(f, n) == f = [node \in Nodes(n) |-> SearchStep(f, node[1], node[2])]
IsPlainSearch(f, n) == f = [node \in Nodes(n) |-> TreeStep(f, node[1], node[2])]

LEMMA SearchExists ==
    ASSUME NEW n \in Nat
    PROVE  \E f : IsSearch(f, n)
<1> DEFINE S == {m \in Nat : \E f : IsSearch(f, m)}
<1>1. 0 \in S
  <2> DEFINE f == [node \in Nodes(0) |-> SearchStep(<< >>, node[1], node[2])]
             g == [node \in Nodes(0) |-> SearchStep(f, node[1], node[2])]
  <2>1. ASSUME NEW node \in Nodes(0)
        PROVE  SearchStep(<< >>, node[1], node[2]) = SearchStep(f, node[1], node[2])
    <3>1. node[1] \in Nat /\ node[2] \in SUBSET Catalog /\ ~(node[1] > 0)
      BY DEF Nodes
    <3> HIDE DEF f
    <3> QED
      BY <3>1, SearchLooksBelow
  <2>2. f = g
    BY <2>1, Zenon
  <2>3. IsSearch(f, 0)
    BY <2>2, Zenon DEF IsSearch
  <2> QED
    BY <2>3
<1>2. ASSUME NEW m \in Nat, m \in S
      PROVE  m + 1 \in S
  <2>1. PICK f : IsSearch(f, m)
    BY <1>2
  <2> DEFINE g == [node \in Nodes(m + 1) |-> SearchStep(f, node[1], node[2])]
             h == [node \in Nodes(m + 1) |-> SearchStep(g, node[1], node[2])]
  <2>2. \A node \in Nodes(m) : f[node] = g[node]
    <3>1. Nodes(m) \subseteq Nodes(m + 1)
      BY DEF Nodes
    <3>2. \A node \in Nodes(m) : f[node] = SearchStep(f, node[1], node[2])
      BY <2>1, Zenon DEF IsSearch
    <3> QED
      BY <3>1, <3>2, Zenon
  <2>3. ASSUME NEW node \in Nodes(m + 1)
        PROVE  SearchStep(f, node[1], node[2]) = SearchStep(g, node[1], node[2])
    <3>1. node[1] \in Nat /\ node[2] \in SUBSET Catalog
      BY DEF Nodes
    <3>2. node[1] > 0 => \A half \in SUBSET Catalog : <<node[1] - 1, half>> \in Nodes(m)
      BY DEF Nodes
    <3> HIDE DEF g
    <3>3. node[1] > 0 => \A half \in SUBSET Catalog : f[<<node[1] - 1, half>>] = g[<<node[1] - 1, half>>]
      BY <2>2, <3>2, Zenon
    <3> QED
      BY <3>1, <3>3, SearchLooksBelow
  <2>4. g = h
    BY <2>3, Zenon
  <2>5. IsSearch(g, m + 1)
    BY <2>4, Zenon DEF IsSearch
  <2> QED
    BY <2>5
<1> HIDE DEF S
<1>3. Nat \subseteq S
  BY <1>1, <1>2, EveryNatural
<1> QED
  BY <1>3 DEF S

LEMMA PlainSearchExists ==
    ASSUME NEW n \in Nat
    PROVE  \E f : IsPlainSearch(f, n)
<1> DEFINE S == {m \in Nat : \E f : IsPlainSearch(f, m)}
<1>1. 0 \in S
  <2> DEFINE f == [node \in Nodes(0) |-> TreeStep(<< >>, node[1], node[2])]
             g == [node \in Nodes(0) |-> TreeStep(f, node[1], node[2])]
  <2>1. ASSUME NEW node \in Nodes(0)
        PROVE  TreeStep(<< >>, node[1], node[2]) = TreeStep(f, node[1], node[2])
    <3>1. node[1] \in Nat /\ node[2] \in SUBSET Catalog /\ ~(node[1] > 0)
      BY DEF Nodes
    <3> HIDE DEF f
    <3> QED
      BY <3>1, PlainSearchLooksBelow
  <2>2. f = g
    BY <2>1, Zenon
  <2>3. IsPlainSearch(f, 0)
    BY <2>2, Zenon DEF IsPlainSearch
  <2> QED
    BY <2>3
<1>2. ASSUME NEW m \in Nat, m \in S
      PROVE  m + 1 \in S
  <2>1. PICK f : IsPlainSearch(f, m)
    BY <1>2
  <2> DEFINE g == [node \in Nodes(m + 1) |-> TreeStep(f, node[1], node[2])]
             h == [node \in Nodes(m + 1) |-> TreeStep(g, node[1], node[2])]
  <2>2. \A node \in Nodes(m) : f[node] = g[node]
    <3>1. Nodes(m) \subseteq Nodes(m + 1)
      BY DEF Nodes
    <3>2. \A node \in Nodes(m) : f[node] = TreeStep(f, node[1], node[2])
      BY <2>1, Zenon DEF IsPlainSearch
    <3> QED
      BY <3>1, <3>2, Zenon
  <2>3. ASSUME NEW node \in Nodes(m + 1)
        PROVE  TreeStep(f, node[1], node[2]) = TreeStep(g, node[1], node[2])
    <3>1. node[1] \in Nat /\ node[2] \in SUBSET Catalog
      BY DEF Nodes
    <3>2. node[1] > 0 => \A half \in SUBSET Catalog : <<node[1] - 1, half>> \in Nodes(m)
      BY DEF Nodes
    <3> HIDE DEF g
    <3>3. node[1] > 0 => \A half \in SUBSET Catalog : f[<<node[1] - 1, half>>] = g[<<node[1] - 1, half>>]
      BY <2>2, <3>2, Zenon
    <3> QED
      BY <3>1, <3>3, PlainSearchLooksBelow
  <2>4. g = h
    BY <2>3, Zenon
  <2>5. IsPlainSearch(g, m + 1)
    BY <2>4, Zenon DEF IsPlainSearch
  <2> QED
    BY <2>5
<1> HIDE DEF S
<1>3. Nat \subseteq S
  BY <1>1, <1>2, EveryNatural
<1> QED
  BY <1>3 DEF S

\* What the two searches answer at each depth and space.
LEMMA SearchAnswers ==
    ASSUME NEW max \in Nat, NEW d \in 0 .. max, NEW space \in SUBSET Catalog
    PROVE  /\ Feasible(max)[<<d, space>>] = SearchStep(Feasible(max), d, space)
           /\ Identifiable(max)[<<d, space>>] = TreeStep(Identifiable(max), d, space)
<1>1. IsSearch(Feasible(max), max)
  <2>1. PICK f : IsSearch(f, max)
    BY SearchExists
  <2> QED
    BY <2>1, Zenon DEF IsSearch, Nodes, Feasible
<1>2. IsPlainSearch(Identifiable(max), max)
  <2>1. PICK f : IsPlainSearch(f, max)
    BY PlainSearchExists
  <2> QED
    BY <2>1, Zenon DEF IsPlainSearch, Nodes, Identifiable
<1>3. <<d, space>> \in Nodes(max) /\ <<d, space>>[1] = d /\ <<d, space>>[2] = space
  BY DEF Nodes
<1> HIDE DEF Feasible, Identifiable
<1>4. \A f, node : IsSearch(f, max) /\ node \in Nodes(max) => f[node] = SearchStep(f, node[1], node[2])
  BY Zenon DEF IsSearch
<1>5. \A f, node : IsPlainSearch(f, max) /\ node \in Nodes(max) => f[node] = TreeStep(f, node[1], node[2])
  BY Zenon DEF IsPlainSearch
<1> QED
  BY <1>1, <1>2, <1>3, <1>4, <1>5, Zenon

-------------------------------------------------------------------------------
(* The cut-offs lose no tree and accept none.                              *)

\* A tree of depth d tells no more than 2 ^ d rules apart.
LEMMA TreesAreBounded ==
    ASSUME NEW max \in Nat, NEW d \in 0 .. max, NEW space \in SUBSET Catalog,
           Identifiable(max)[<<d, space>>]
    PROVE  Fits(space, d)
<1> DEFINE tree == Identifiable(max)
           S == {k \in Nat : k <= max => \A s \in SUBSET Catalog : tree[<<k, s>>] => Fits(s, k)}
<1>1. ASSUME NEW k \in Nat, NEW s \in SUBSET Catalog, Cardinality(s) <= 1
      PROVE  Fits(s, k)
  <2>1. Cardinality(s) \in Nat
    BY SpacesAreFinite, FS_CardinalityType
  <2>2. 2 ^ 0 <= 2 ^ k /\ 2 ^ 0 = 1 /\ 2 ^ k \in Nat
    BY PowersOfTwo, PowersGrow
  <2> QED
    BY <1>1, <2>1, <2>2 DEF Fits
<1>2. 0 \in S
  <2>1. ASSUME NEW s \in SUBSET Catalog, tree[<<0, s>>]
        PROVE  Cardinality(s) <= 1
    <3>1. TreeStep(tree, 0, s)
      BY <2>1, SearchAnswers
    <3> QED
      BY <3>1 DEF TreeStep
  <2> QED
    BY <1>1, <2>1
<1>3. ASSUME NEW k \in Nat, k \in S
      PROVE  k + 1 \in S
  <2> SUFFICES ASSUME k + 1 <= max, NEW s \in SUBSET Catalog, tree[<<k + 1, s>>]
               PROVE  Fits(s, k + 1)
    OBVIOUS
  <2>1. k + 1 \in 0 .. max /\ k <= max /\ (k + 1) - 1 = k
    OBVIOUS
  <2>2. TreeStep(tree, k + 1, s)
    BY <2>1, SearchAnswers
  <2>3. CASE Cardinality(s) <= 1
    BY <1>1, <2>3
  <2>4. CASE ~(Cardinality(s) <= 1)
    <3>1. PICK t \in Scenes : \A label \in BOOLEAN : tree[<<k, Observe(s, t, label)>>]
      BY <2>1, <2>2, <2>4 DEF TreeStep
    <3>2. \A label \in BOOLEAN : Fits(Observe(s, t, label), k)
      BY <1>3, <2>1, <3>1, HalvesAreSpaces
    <3>3. Accepted(s, t) <= 2 ^ k /\ Rejected(s, t) <= 2 ^ k
      BY <3>2, LabelCounts DEF Fits
    <3>4. /\ Cardinality(s) = Accepted(s, t) + Rejected(s, t)
          /\ Accepted(s, t) \in Nat /\ Rejected(s, t) \in Nat
      BY LabelCounts
    <3>5. 2 ^ k \in Nat /\ 2 ^ (k + 1) = 2 ^ k + 2 ^ k
      BY PowersOfTwo
    <3> QED
      BY <3>3, <3>4, <3>5 DEF Fits
  <2> QED
    BY <2>3, <2>4
<1> HIDE DEF S
<1>4. d \in S
  BY <1>2, <1>3, EveryNatural
<1> QED
  BY <1>4 DEF S

\* What the pruned search identifies at one depth it identifies at the next.
LEMMA DeeperSearchesDoNotLose ==
    ASSUME NEW max \in Nat, NEW d \in Nat, d + 1 <= max, NEW space \in SUBSET Catalog,
           Feasible(max)[<<d, space>>]
    PROVE  Feasible(max)[<<d + 1, space>>]
<1> DEFINE tree == Feasible(max)
           S == {k \in Nat : k + 1 <= max => \A s \in SUBSET Catalog : tree[<<k, s>>] => tree[<<k + 1, s>>]}
<1>1. ASSUME NEW k \in 0 .. max, NEW s \in SUBSET Catalog, Cardinality(s) <= 1
      PROVE  tree[<<k, s>>]
  BY <1>1, SearchAnswers DEF SearchStep
<1>2. 0 \in S
  <2> SUFFICES ASSUME 0 + 1 <= max, NEW s \in SUBSET Catalog, tree[<<0, s>>]
               PROVE  tree[<<0 + 1, s>>]
    OBVIOUS
  <2>1. 0 \in 0 .. max /\ 0 + 1 \in 0 .. max
    OBVIOUS
  <2>2. SearchStep(tree, 0, s)
    BY <2>1, SearchAnswers
  <2>3. Cardinality(s) <= 1
    BY <2>2 DEF SearchStep
  <2> QED
    BY <1>1, <2>1, <2>3
<1>3. ASSUME NEW k \in Nat, k \in S
      PROVE  k + 1 \in S
  <2> SUFFICES ASSUME (k + 1) + 1 <= max, NEW s \in SUBSET Catalog, tree[<<k + 1, s>>]
               PROVE  tree[<<(k + 1) + 1, s>>]
    OBVIOUS
  <2>1. /\ k + 1 \in 0 .. max /\ (k + 1) + 1 \in 0 .. max /\ k + 1 <= max
        /\ (k + 1) - 1 = k /\ ((k + 1) + 1) - 1 = k + 1 /\ (k + 1) + 1 > 0
    OBVIOUS
  <2>2. SearchStep(tree, k + 1, s)
    BY <2>1, SearchAnswers
  <2>3. CASE Cardinality(s) <= 1
    BY <1>1, <2>1, <2>3
  <2>4. CASE ~(Cardinality(s) <= 1)
    <3>1. /\ Fits(s, k + 1)
          /\ \E split \in Partitions(s) : /\ \A half \in split : Fits(half, k)
                                          /\ \A half \in split : tree[<<k, half>>]
      BY <2>1, <2>2, <2>4 DEF SearchStep
    <3>2. PICK split \in Partitions(s) : \A half \in split : Fits(half, k) /\ tree[<<k, half>>]
      BY <3>1
    <3>3. ASSUME NEW n \in Nat, NEW part \in SUBSET Catalog, Fits(part, n)
          PROVE  Fits(part, n + 1)
      <4>1. Cardinality(part) \in Nat
        BY SpacesAreFinite, FS_CardinalityType
      <4>2. 2 ^ n \in Nat /\ 2 ^ (n + 1) = 2 ^ n + 2 ^ n
        BY PowersOfTwo
      <4> QED
        BY <3>3, <4>1, <4>2 DEF Fits
    <3>4. \A half \in split : half \in SUBSET Catalog
      BY HalvesAreSpaces
    <3>5. \A half \in split : Fits(half, k + 1)
      BY <3>2, <3>3, <3>4
    <3>6. \A half \in split : tree[<<k + 1, half>>]
      BY <1>3, <2>1, <3>2, <3>4
    <3>7. Fits(s, (k + 1) + 1)
      BY <3>1, <3>3
    <3>8. SearchStep(tree, (k + 1) + 1, s)
      BY <2>1, <3>5, <3>6, <3>7 DEF SearchStep
    <3> QED
      BY <2>1, <3>8, SearchAnswers
  <2> QED
    BY <2>3, <2>4
<1> HIDE DEF S
<1>4. d \in S
  BY <1>2, <1>3, EveryNatural
<1> QED
  BY <1>4 DEF S

\* The pruned search and the plain one answer alike. Where the plain one asks a
\* question that splits nothing off, one level less will do.
LEMMA SearchesAgree ==
    ASSUME NEW max \in Nat, NEW d \in 0 .. max, NEW space \in SUBSET Catalog
    PROVE  Feasible(max)[<<d, space>>] <=> Identifiable(max)[<<d, space>>]
<1> DEFINE pruned == Feasible(max)
           plain == Identifiable(max)
           S == {k \in Nat : k <= max => \A s \in SUBSET Catalog : pruned[<<k, s>>] <=> plain[<<k, s>>]}
<1>1. 0 \in S
  <2>1. ASSUME NEW s \in SUBSET Catalog
        PROVE  pruned[<<0, s>>] <=> plain[<<0, s>>]
    <3>1. pruned[<<0, s>>] = SearchStep(pruned, 0, s) /\ plain[<<0, s>>] = TreeStep(plain, 0, s)
      BY SearchAnswers
    <3>2. SearchStep(pruned, 0, s) <=> TreeStep(plain, 0, s)
      BY DEF SearchStep, TreeStep
    <3> QED
      BY <3>1, <3>2, Zenon
  <2> QED
    BY <2>1
<1>2. ASSUME NEW k \in Nat, k \in S
      PROVE  k + 1 \in S
  <2> SUFFICES ASSUME k + 1 <= max, NEW s \in SUBSET Catalog
               PROVE  pruned[<<k + 1, s>>] <=> plain[<<k + 1, s>>]
    OBVIOUS
  <2>1. k + 1 \in 0 .. max /\ k \in 0 .. max /\ (k + 1) - 1 = k /\ k + 1 > 0
    OBVIOUS
  <2>2. \A part \in SUBSET Catalog : pruned[<<k, part>>] <=> plain[<<k, part>>]
    BY <1>2, <2>1
  <2>3. /\ pruned[<<k + 1, s>>] = SearchStep(pruned, k + 1, s)
        /\ plain[<<k + 1, s>>] = TreeStep(plain, k + 1, s)
    BY <2>1, SearchAnswers
  <2>4. CASE Cardinality(s) <= 1
    BY <2>3, <2>4 DEF SearchStep, TreeStep
  <2>5. ASSUME ~(Cardinality(s) <= 1), pruned[<<k + 1, s>>]
        PROVE  plain[<<k + 1, s>>]
    <3>1. PICK split \in Partitions(s) : \A half \in split : pruned[<<k, half>>]
      BY <2>1, <2>3, <2>5 DEF SearchStep
    <3>2. PICK t \in Scenes : split = {Observe(s, t, TRUE), Observe(s, t, FALSE)}
      BY DEF Partitions
    <3>3. \A label \in BOOLEAN : plain[<<k, Observe(s, t, label)>>]
      BY <2>2, <3>1, <3>2, HalvesAreSpaces
    <3>4. TreeStep(plain, k + 1, s)
      BY <2>1, <3>3 DEF TreeStep
    <3> QED
      BY <2>3, <3>4
  <2>6. ASSUME ~(Cardinality(s) <= 1), plain[<<k + 1, s>>]
        PROVE  pruned[<<k + 1, s>>]
    <3>1. PICK t \in Scenes : \A label \in BOOLEAN : plain[<<k, Observe(s, t, label)>>]
      BY <2>1, <2>3, <2>6 DEF TreeStep
    <3> DEFINE split == {Observe(s, t, TRUE), Observe(s, t, FALSE)}
    <3>2. \A half \in split : half \in SUBSET Catalog /\ plain[<<k, half>>]
      <4>1. plain[<<k, Observe(s, t, TRUE)>>] /\ plain[<<k, Observe(s, t, FALSE)>>]
        BY <3>1
      <4>2. Observe(s, t, TRUE) \in SUBSET Catalog /\ Observe(s, t, FALSE) \in SUBSET Catalog
        BY HalvesAreSpaces
      <4> QED
        BY <4>1, <4>2, Zenon
    <3>3. \A half \in split : Fits(half, k) /\ pruned[<<k, half>>]
      BY <2>1, <2>2, <3>2, TreesAreBounded
    <3>4. Fits(s, k + 1)
      BY <2>1, <2>6, TreesAreBounded
    <3>5. CASE split = {s, {}}
      <4>1. pruned[<<k, s>>]
        BY <3>3, <3>5
      <4> QED
        BY <4>1, DeeperSearchesDoNotLose
    <3>6. CASE split # {s, {}}
      <4>1. split \in Partitions(s)
        BY <3>6 DEF Partitions
      <4>2. SearchStep(pruned, k + 1, s)
        BY <2>1, <3>3, <3>4, <4>1 DEF SearchStep
      <4> QED
        BY <2>3, <4>2
    <3> QED
      BY <3>5, <3>6
  <2> QED
    BY <2>4, <2>5, <2>6
<1> HIDE DEF S
<1>3. d \in S
  BY <1>1, <1>2, EveryNatural
<1> QED
  BY <1>3 DEF S

\* The depth the search starts from is the first that has room for n rules.
LEMMA BitLengthIsLeast ==
    ASSUME NEW n \in Nat
    PROVE  /\ BitLength(n) \in 0 .. n
           /\ \A d \in Nat : n <= 2 ^ d => BitLength(n) <= d
<1> DEFINE T == {k \in 0 .. n : 2 ^ k >= n}
<1>1. \A k \in Nat : 2 ^ k \in Nat
  BY PowersOfTwo
<1>2. n \in T
  BY <1>1, PowersGrow
<1>3. PICK k \in T : \A j \in T : k <= j
  <2>1. T \in SUBSET Nat /\ T # {}
    BY <1>2
  <2> HIDE DEF T
  <2> QED
    BY <2>1, LeastNatural
<1>4. k \in 0 .. n /\ 2 ^ k >= n /\ \A j \in 0 .. n : 2 ^ j >= n => k <= j
  BY <1>3
<1>5. /\ BitLength(n) \in 0 .. n
      /\ \A j \in 0 .. n : 2 ^ j >= n => BitLength(n) <= j
  BY <1>4, Zenon DEF BitLength
<1>6. ASSUME NEW d \in Nat, n <= 2 ^ d
      PROVE  BitLength(n) <= d
  <2>1. CASE d <= n
    <3>1. d \in 0 .. n /\ 2 ^ d >= n
      BY <1>1, <1>6, <2>1
    <3> QED
      BY <1>5, <3>1
  <2>2. CASE d > n
    BY <1>5, <2>2
  <2> QED
    BY <2>1, <2>2
<1> QED
  BY <1>5, <1>6

\* exact_minimax_identification_depth accepts the depths at which some tree of
\* questions identifies every rule, and no other.
THEOREM SearchIsExact ==
    ASSUME NEW max \in Nat, NEW space \in SUBSET Catalog
    PROVE  FeasibleDepths(space, max) = IdentifiableDepths(space, max)
<1> DEFINE n == Cardinality(space)
<1>1. n \in Nat
  BY SpacesAreFinite, FS_CardinalityType
<1>2. BitLength(n) \in 0 .. n
  BY <1>1, BitLengthIsLeast
<1>3. ASSUME NEW d \in 0 .. max, Identifiable(max)[<<d, space>>]
      PROVE  d \in BitLength(n) .. max
  <2>1. n <= 2 ^ d
    BY <1>3, TreesAreBounded DEF Fits
  <2> QED
    BY <1>1, <1>2, <2>1, BitLengthIsLeast
<1>4. BitLength(n) .. max \subseteq 0 .. max
  BY <1>2
<1> QED
  BY <1>3, <1>4, SearchesAgree DEF FeasibleDepths, IdentifiableDepths

===============================================================================

----------------------------- MODULE MCZendoGame -----------------------------
(* Instances of ZendoGame: a miniature of the grammar over 32 scenes, which   *)
(* are the values of five binary features.  Rules are literals of a, b, c and *)
(* of the placard, and their conjunctions, disjunctions and exclusive ors;    *)
(* no rule looks at the fifth feature, so every scene has a twin.             *)
EXTENDS ZendoGame

Universe == 0 .. 31
Feature(k) == {s \in Universe : (s \div 2 ^ k) % 2 = 1}
Placard == Feature(0)
Literals(features) == features \cup {Universe \ f : f \in features}
Pairs(features) == {p \in Literals(features) \X Literals(features) :
                      p[1] # p[2] /\ p[1] \cap p[2] # {}}
Binary(features) ==
    {p[1] \cap p[2] : p \in Pairs(features)}
    \cup {p[1] \cup p[2] : p \in Pairs(features)}
    \cup {(p[1] \cup p[2]) \ (p[1] \cap p[2]) : p \in Pairs(features)}

PieceFeatures == {Feature(4), Feature(3), Feature(2)}
AllFeatures == PieceFeatures \cup {Placard}
PieceRules == [one |-> Literals(PieceFeatures), two |-> Binary(PieceFeatures)]
SmallCatalog == Literals(AllFeatures) \cup Binary(AllFeatures)

NotA == Universe \ Feature(4)
SameAB == (Feature(4) \cap Feature(3)) \cup (Universe \ (Feature(4) \cup Feature(3)))
NeitherBC == Universe \ (Feature(3) \cup Feature(2))

Game(target, shadow, opening, terminal, regime, kind) ==
    [target |-> target, shadow |-> shadow, opening |-> opening, terminal |-> terminal,
     regime |-> regime, kind |-> kind]

ThreeGames ==
    {Game(SameAB, NotA, {1, 5, 16, 20}, {3, 7, 18, 22}, "perfect_ambiguity", "train_like"),
     Game(SameAB, NotA, {1, 5, 18, 20}, {0, 7, 14, 15, 21, 22, 26, 27}, "perfect_ambiguity", "factorial"),
     Game(NeitherBC, NotA, {0, 14, 19, 28}, {1, 2, 4, 13, 17, 18, 25, 26}, "noisy_shortcuts", "factorial")}

TwoScenesShown ==
    {Game(NotA \cap (Universe \ Feature(3)), Universe \ Feature(2), {3, 22}, {1, 12},
          "perfect_ambiguity", "train_like")}

SomeAnswers == {SameAB, NotA}

\* The doubles of TerminalScore.reward and of (120 - q) / 120 for a perfect
\* answer after q tests differ in their last bit for one and for five tests.
OfSix == [q \in 0 .. 6 |-> IF q \in {1, 5} THEN 1 ELSE 0]

\* With a budget of three, 1 - q/3 is the double 1 - 2q/6.
OfThree == [q \in 0 .. 3 |-> OfSix[2 * q]]

===============================================================================

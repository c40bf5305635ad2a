SPECIFICATION Spec
CONSTANTS
  Scenes <- Universe
  Catalog <- SmallCatalog
  Sun <- Placard
  Pieces <- PieceRules
  Episodes <- ThreeGames
  OpeningSize = 4
  TrainLikeSize = 4
  CellSize = 1
  MinCell = 4
  MinSpace = 6
  MaxSpace = 64
  MaxDepth = 4
  MaxTests = 3
  Rounding <- OfThree
  Koans = {1, 3, 8, 24}
  Answers <- SomeAnswers
  Controllers = {"policy", "reference"}
INVARIANTS
  TypeOK
  VersionSpaceIsExact
  NeverRaises
  LoopNeverRunsOut
  ReferenceWastesNoTest
  MinimaxIsExact
PROPERTIES
  TerminalKoansComeLast

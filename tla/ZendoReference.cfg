SPECIFICATION Spec
CONSTANTS
  Scenes <- Universe
  Catalog <- SmallCatalog
  Sun <- Placard
  Pieces <- PieceRules
  Episodes <- TwoScenesShown
  OpeningSize = 2
  TrainLikeSize = 2
  CellSize = 1
  MinCell = 4
  MinSpace = 8
  MaxSpace = 64
  MaxDepth = 5
  MaxTests = 6
  Rounding <- OfSix
  Koans = {1, 3, 8, 24}
  Answers <- SomeAnswers
  Controllers = {"reference"}
INVARIANT
  ReferenceIsRecorded

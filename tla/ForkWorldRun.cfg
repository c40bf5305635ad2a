SPECIFICATION FairSpec
CONSTANTS
  Workers = {w1}
  Forces = {FALSE, TRUE}
  Checkpoints <- TwoCheckpoints
  Levels <- ForkLevel
  SavePredictions = TRUE
  BatchRows = 2
  MaxAttempts = 3
  None = None
INVARIANTS
  TypeOK
  CompleteIsWholeOrEmptied
PROPERTIES
  CompletedRunIsKept
  RunCompletes

SPECIFICATION Spec
CONSTANTS
  Workers = {w1}
  Forces = {FALSE, TRUE}
  Checkpoints <- OneCheckpoint
  Levels <- ForkLevel
  SavePredictions = TRUE
  BatchRows = 2
  MaxAttempts = 2
  None = None
INVARIANTS
  CompleteIsWhole

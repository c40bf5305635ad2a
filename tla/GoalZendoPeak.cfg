SPECIFICATION FairSpec
CONSTANTS
  Steps = 2
  EvalSteps = {0, 1, 2}
  CheckpointSteps = {1, 2}
  SnapshotSteps = {}
  EvalRows = 2
  Machines <- CudaMachine
  MaxInterruptions = 1
  None = None
PROPERTIES RunIsSealed

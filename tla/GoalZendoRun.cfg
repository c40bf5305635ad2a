SPECIFICATION FairSpec
CONSTANTS
  Steps = 4
  EvalSteps = {0, 1, 3, 4}
  CheckpointSteps = {1, 4}
  SnapshotSteps = {1, 3, 4}
  EvalRows = 2
  Machines <- BothMachines
  MaxInterruptions = 3
  None = None
INVARIANTS TypeOK CheckpointIsGood SnapshotsAreOneModel EvaluationsAreComplete
PROPERTIES CommittedTrajectory RunIsSealedOffCuda

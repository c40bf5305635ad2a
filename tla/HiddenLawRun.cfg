SPECIFICATION FairSpec
CONSTANTS
  Steps = 4
  EvaluationSteps = {0, 1, 2, 4}
  CheckpointSteps = {2, 4}
  TrajectoryRows = 1
  EvaluationRows = 2
  MaxInterruptions = 3
  None = None
INVARIANTS
  TypeOK
  SealedTrajectory
  SealedSummaryIsDurable
  SealVerifies
  CheckpointCoversEvidence
PROPERTIES
  CommittedTrajectory
  InitialisedRunIsSealed

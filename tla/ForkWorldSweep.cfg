SPECIFICATION FairSpec
CONSTANTS
  s1 = s1
  s2 = s2
  r1 = r1
  r2 = r2
  Sweeps = {s1, s2}
  Plans <- TwoShards
  Pairs = 3
  Request <- SameRequest
  Old = Old
  Jobs = 2
  FailFast = TRUE
  MayFail = {1}
  MaxDeaths = 1
  None = None
INVARIANTS
  TypeOK
  RunHasOneOwner
  ShardsCoverThePlan
  ResultsAreTrue
  EvaluatedAsRequested
PROPERTIES
  SweepEnds

SPECIFICATION Spec
CONSTANTS
  s1 = s1
  s2 = s2
  r1 = r1
  r2 = r2
  Sweeps = {s1, s2}
  Plans <- OneRunEach
  Pairs = 2
  Request <- OwnRequests
  Old = Old
  Jobs = 1
  FailFast = FALSE
  MayFail = {}
  MaxDeaths = 0
  None = None
INVARIANTS
  EvaluatedAsRequested

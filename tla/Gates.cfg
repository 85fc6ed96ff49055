CONSTANTS
  Branches <- MCBranches
  Rules <- MCRules
  RunIds = {"r1", "r2"}
  Measurements <- MCMeasurements
  Posts <- MCPosts
  Clients = {k1, k2}
  Compare <- MCCompare
  None = None
  MaxAge = 2
  PRs = {p1}
  Contents = {c1, c2}
  MaxCommits = 3
SPECIFICATION GatesSpec
INVARIANTS
  ApiTypeOK
  BaselineIsOneMeasurement
  EventRunsEscalate
PROPERTIES
  GateAnswersForItsRequest
  OnlyItsOwnRunMovesABaseline
  ImplementsMemoryStore
  CleanPrGoesGreen

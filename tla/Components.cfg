CONSTANTS
  Cases <- MCCases
  Categories = {"answer", "refuse"}
  CategoryOf <- MCCategoryOf
  Full = 1
  Unit = 4
  Origins = {"cpu", "metal"}
  Suites <- MCSuites
  SuiteCases <- MCSuiteCases
  ScorersOf <- MCScorersOf
  Outputs = {x, y}
  MaxRetries = 2
  MaxVersion = 2
  MaxAnswers = 2
  Order <- MCOrder
  Handlers = {t1, t2}
  MaxRecords = 3
  Kinds = {"text", "blank", "backticks3", "backticks4", "tildes3", "h1", "untitled2", "h3"}
  MaxLines = 5
  MaxTokens = 2
  MinProse = 2
  Repos = {{1, 2}, {3}}
  Contents = {"old", "new"}
  Window = 2
  UsdCeiling = 3
  TokenCeiling = 4
  MaxUsage = 4
  MaxLost = 1
  Repositories = {1, 2, 3, 4}
  Weights = {1, 2, 3, 6, 40}
  Totals = {3, 20, 120}
  MinShare = 15
  MaxShare = 35
  Generated <- MCGenerated
  Target <- MCTarget
  PerCall = 2
  Overshoot <- MCOvershoot
  Rounds = {0, 1}
  AdCount = 3
  AttemptDelay = 180
  CycleDelay = 900
  ThrottleDelayBase = 1800
  MaxDelay = 7200
  MaxThrottles = 4
SPECIFICATION ComponentsSpec
SYMMETRY Symmetry
CHECK_DEADLOCK FALSE
INVARIANTS
  TypesOK
  AcceptedLimitsTolerateACase
  BaselinePassesItself
  CompletedCasesAreOnDisk
  VerdictIsOfThisJudge
  RerunCostsNothing
  MapIsTheLog
  SummaryMeansAllJudged
  SummaryIsOfTheLog
  ChunksFollowTheOutline
  EmbeddingIsOfTheContent
  OverspendIsBounded
  SharesAreFair
  RowsAreInTheLedger
  CycleSkipsNoDomain
PROPERTIES
  CrashNeverHelps
  RefusalsRatchet
  AnswersAreGivenUpForAReason

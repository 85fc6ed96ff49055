CONSTANTS
  Branches <- MCBranches
  Rules <- MCRules
  RunIds = {"r1", "r2"}
  Measurements <- MCMeasurements
  Posts <- MCPosts
  Clients = {c1}
  Compare <- MCCompare
  None = None
SPECIFICATION ApiSpec
PROPERTIES
  BaselineMovesByPromotion

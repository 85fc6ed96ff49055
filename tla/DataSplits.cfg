CONSTANTS
  Ids <- MCIds
  Category <- MCCategory
  Repo <- MCRepo
  GoldenKey <- MCGoldenKey
  SplitKey <- MCSplitKey
  MixKey <- MCMixKey
  Unsettled <- MCUnsettled
  PerCell = 1
  AdversarialKeep = 1
  Texts = {a, b}
  MaxChanges = 2
  MaxKills = 1
  None = None
  Torn = Torn
SPECIFICATION Spec
INVARIANTS
  TypeOK
  LaunchIsHeldOut
  LaunchIsSubsetOfItsV1
PROPERTIES
  GoldenNeverExported
SYMMETRY Symmetry

CONSTANTS
  Questions <- MCQuestions
  MaxAttempts = 2
  ShardSize = 2
  DryRunSize = 1
  DryReserve = 1
  Ceilings = {8}
  Dearest <- MCDearest
  MaxFaults = 2
  MaxDryRuns = 1
  MaxChanges = 1
  None = None
SPECIFICATION Spec
PROPERTIES
  DropsAfterFailedAttempts
CHECK_DEADLOCK FALSE

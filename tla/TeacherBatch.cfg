CONSTANTS
  Questions <- MCQuestions
  MaxAttempts = 2
  ShardSize = 1
  DryRunSize = 1
  DryReserve = 1
  Ceilings = {3, 11}
  Dearest <- MCDearest
  MaxFaults = 1
  MaxDryRuns = 2
  MaxChanges = 1
  None = None
SPECIFICATION Spec
INVARIANTS
  TypeOK
  BudgetHolds
  RetriesAreCapped
PROPERTIES
  LoopConverges
CHECK_DEADLOCK FALSE

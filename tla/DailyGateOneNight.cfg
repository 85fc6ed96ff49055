CONSTANTS
  Interval = 4
  Midnight = 3
  Deadline = 1
  MaxAge = 6
SPECIFICATION Spec
INVARIANTS
  OneMissedNightTolerated

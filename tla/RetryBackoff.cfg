CONSTANTS
  AdCount = 3
  AttemptDelay = 180
  CycleDelay = 900
  ThrottleDelayBase = 1800
  MaxDelay = 7200
  MaxThrottles = 63
SPECIFICATION RetrySpec
CHECK_DEADLOCK FALSE
INVARIANT ThrottleIsFollowedByASleep

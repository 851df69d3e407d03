SPECIFICATION LimiterSpec
CONSTANTS
  Caller = {c1, c2, c3, c4, c5}
  Concurrency = 2
  QueueMax = 2
INVARIANT TurnsAreWork
PROPERTY WaitEnds
CHECK_DEADLOCK FALSE

SPECIFICATION Spec
CONSTANTS
  n1 = n1
  n2 = n2
  i1 = i1
  i2 = i2
  Phone = {p1, p2}
  Node = {n1, n2}
  Issuer = {i1, i2}
  Verifier = {v1, v2}
  NodeOf <- MCNodeOf
  Ttl = 2
  Cooldown = 1
  HourWindow = 3
  DayWindow = 5
  HourlyLimit = 2
  DailyLimit = 3
  GlobalLimit = 3
  MaxAttempts = 2
  MaxTime = 5
  MaxOtp = 5
SYMMETRY MCSymmetry
CONSTRAINT MCScope
INVARIANT OneLiveCode
INVARIANT DeliveredWithinCaps
INVARIANT RetrySuffices
INVARIANT CodeIsSpent
CHECK_DEADLOCK FALSE

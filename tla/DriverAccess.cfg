SPECIFICATION MCSpec
CONSTANTS
  Pin = {p1, p2}
  MaxAttempts = 2
  Block = 1
  TempTtl = 2
  RetryWindow = 1
  Handler = {h1, h2}
  MaxTime = 2
  MaxFailed = 3
  MaxToken = 3
  DocType = {d1}
  Identity <- MCIdentity
  u1 = u1
  u2 = u2
  Upload = {u1, u2}
  MaxFleet = 1
  None = None
SYMMETRY MCSymmetry
VIEW MCView
CONSTRAINT MCScope
INVARIANT FailuresCount
INVARIANT DeliveredIsCurrent
INVARIANT TokensEnd
INVARIANT FilesMatchDrivers
PROPERTY QuotaKept
CHECK_DEADLOCK FALSE

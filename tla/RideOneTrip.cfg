SPECIFICATION Spec
CONSTANTS
  Code = {k1, k2}
  MaxFailed = 2
  Window = 1
  Grace = 1
  Handler = {h1, h2, h3}
  MaxTime = 3
  MaxTakes = 2
  None = None
SYMMETRY MCSymmetry
INVARIANT CodeIsAccounted
INVARIANT EndIsEarned
PROPERTY NeverReopensAttempted
CHECK_DEADLOCK FALSE

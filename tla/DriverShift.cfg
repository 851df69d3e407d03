SPECIFICATION Spec
CONSTANTS
  c1 = c1
  d1 = d1
  d2 = d2
  v1 = v1
  v2 = v2
  Driver = {d1, d2}
  Company = {c1}
  Version = {v1, v2}
  Current = v2
  Sharing = {v2}
  Trip = {t1}
  Request = {r1, r2}
  HideAfter = 1
  PurgeHours = 1
  MaxTime = 3
  MaxMisses = 1
  MaxCalls = 2
  None = None
  CompanyOf <- MCCompanyOf
SYMMETRY MCSymmetry
CONSTRAINT MCScope
INVARIANT RevokedIsOut
INVARIANT KeptAtMost
PROPERTY StoredUnderConsent
PROPERTY ShownToHisPassenger
CHECK_DEADLOCK FALSE

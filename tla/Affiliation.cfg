SPECIFICATION NoticesSpec
CONSTANTS
  c1 = c1
  c2 = c2
  c3 = c3
  town = town
  Company = {c1, c2, c3}
  Town = {town}
  Service = {1, 2}
  Txn = {x1, x2}
  Contact = {p1, p2}
  DocType = {d1}
  Upload = {f1, f2, f3}
  Handler = {h1, h2}
  MaxTime = 1
  MaxVersions = 2
  MaxReviews = 3
  Clerk = {k1}
  MaxPasswords = 3
  None = None
  TownOf <- MCTownOf
  Declared <- MCDeclared
SYMMETRY MCSymmetry
CONSTRAINT MCScope
INVARIANT UnbrokenHistory
INVARIANT NoCircularWait
INVARIANT ActiveIsProvisioned
INVARIANT ActiveIsVerified
INVARIANT RowHasFile
INVARIANT PasswordReaches
INVARIANT ViewIsConsistent
PROPERTY SetBackOnlyByStale
CHECK_DEADLOCK FALSE

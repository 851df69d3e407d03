SPECIFICATION Spec
CONSTANTS
  t1 = t1
  t2 = t2
  t3 = t3
  Trip <- MCTrip
  Commission <- MCCommission
  Call = {c1, c2}
  MaxEntries = 4
  None = None
SYMMETRY MCSymmetry
INVARIANT PaidOnce
PROPERTY AnswersAreTrue
PROPERTY ImplementsAccount

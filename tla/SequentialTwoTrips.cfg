SPECIFICATION SpecSequential
CONSTANTS
  d1 = d1
  d2 = d2
  d3 = d3
  c1 = c1
  c2 = c2
  t1 = t1
  t2 = t2
  h1 = h1
  h2 = h2
  h3 = h3
  h4 = h4
  Trip = {t1, t2}
  Driver = {d1, d2}
  Company = {c1, c2}
  Assignment = {a1, a2}
  Handler = {h1, h2, h4}
  Passenger = Passenger
  None = None
  CompanyOf <- MCCompanyOf
  RequestedCompany <- MCRequestedCompany
  ClientOf <- MCClientOf
SYMMETRY MCAssignmentSymmetry
INVARIANT BusyIffAccepted
PROPERTY ImplementsHolding
PROPERTY OnlyHolderMoves

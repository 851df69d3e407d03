SPECIFICATION PromptSafety
CONSTANTS
  d1 = d1
  d2 = d2
  d3 = d3
  h1 = h1
  h2 = h2
  h3 = h3
  h4 = h4
  t1 = t1
  t2 = t2
  Trip = {t1}
  Driver = {d1, d2, d3}
  Company = {"c1"}
  Assignment = {a1, a2, a3}
  Handler = {h1, h2, h3, h4}
  Search = {s1, s2}
  Worker = {w1, w2}
  MaxAutoRetries = 2
  MaxFailures = 0
  Passenger = Passenger
  None = None
  CompanyOf <- MCCompanyOf
  RequestedCompany <- MCRequestedCompany
  ClientOf <- MCClientOf
SYMMETRY MCSymmetry
CHECK_DEADLOCK FALSE
INVARIANT BusyHasTrip

SPECIFICATION MCSpec
CONSTANTS
  c1 = c1
  c2 = c2
  c3 = c3
  d1 = d1
  d2 = d2
  d3 = d3
  pl1 = pl1
  pl2 = pl2
  t1 = t1
  t2 = t2
  p1 = p1
  p2 = p2
  tok1 = tok1
  h1 = h1
  h2 = h2
  tok2 = tok2
  Token = {tok1, tok2}
  MaxPerTrip = 3
  MaxEntries = 1
  MaxTokens = 1
  HourLength = 1
  Sunday = 1
  Festivos = {}
  Passenger = {p1, p2}
  Trip = {t1, t2}
  Driver = {d1, d2, d3}
  Company = {c1, c2, c3}
  Place = {pl1, pl2}
  Handler = {h1, h2}
  Offered = {pl1, pl2}
  CompanyOf <- MCCompanyOf
  PlaceOf <- MCPlaceOf
  FareTable <- MCFareTable
  CommissionPct = {10, 15}
  Ttl = 1
  Latency = 1
  Moment <- MCMoment
  MaxQuotes = 2
  None = None
CONSTRAINT MCScope
VIEW View
SYMMETRY Symmetry
INVARIANT OneActiveTrip
INVARIANT MoneyIsAgreed
INVARIANT ShownDriverHeld
INVARIANT NoticesAreDue
CHECK_DEADLOCK FALSE

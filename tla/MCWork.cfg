SPECIFICATION Spec
CONSTANTS
  w1 = w1
  w2 = w2
  a1 = a1
  h1 = h1
  h2 = h2
  p1 = p1
  p2 = p2
  Workers = {w1}
  Handlers = {h1, h2}
  Persists = {p1, p2}
  Payouts = {2}
  DayBudget = 3
  Revokes = {TRUE, FALSE}
  IgnorePayout = {TRUE, FALSE}
  Midnight = FALSE
  MaxRanges = 2
  MaxClaims = 2
  MaxDays = 2
  MaxEvents = 1
  MaxCrashes = 1
  Addresses = {a1}
INVARIANTS TypeOK RangePaidOnce  BannedStaysRevoked
 
SYMMETRY Symmetry
CHECK_DEADLOCK FALSE

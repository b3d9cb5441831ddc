SPECIFICATION Spec
CONSTANTS
  w1 = w1
  w2 = w2
  a1 = a1
  h1 = h1
  h2 = h2
  p1 = p1
  p2 = p2
  Workers = {w1}
  Handlers = {h1, h2}
  Persists = {p1}
  Payouts = {1}
  DayBudget = 3
  Revokes = {TRUE, FALSE}
  IgnorePayout = {FALSE}
  Midnight = FALSE
  MaxRanges = 1
  MaxClaims = 2
  MaxDays = 2
  MaxEvents = 1
  MaxCrashes = 0
  Addresses = {a1}
INVARIANT NoLockCycle
SYMMETRY Symmetry
CHECK_DEADLOCK FALSE

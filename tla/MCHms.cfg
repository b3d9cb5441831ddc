SPECIFICATION Spec
CONSTANTS
  w1 = w1
  w2 = w2
  w3 = w3
  r1 = r1
  r2 = r2
  k1 = k1
  c1 = c1
  Workers = {w1, w2}
  Quota <- EqualRoom
  Replicas = 2
  Contents = {c1}
  Keys = {k1}
  Storage = 3
  Fee = 1
  Burn = 1
  Balance = 8
  Requests = {r1, r2}
  MaxOrders = 2
  Scenarios <- Safety
INVARIANTS  AckedIsReadable 
SYMMETRY Symmetry

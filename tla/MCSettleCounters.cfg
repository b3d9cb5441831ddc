SPECIFICATION Spec
CONSTANTS
  w1 = w1
  w2 = w2
  a1 = a1
  a2 = a2
  Lanes = {"hmc", "sup"}
  Workers = {w1}
  Addresses = {a1, a2}
  PayoutAddress <- OwnAddress
  OtherAddress = OtherAddress
  FirstNonce = 1
  MinSettle = 2
  ForceMin = 1
  MaxChunk = 0
  Headrooms = {1, 4}
  NonceRetries = 2
  ForceModes = {TRUE}
  StrandedMaxScan = 8
  ClearPending = FALSE
  ClearPendingForce = FALSE
  ClearPendingSUP = TRUE
  BlocksBetweenReads = FALSE
  Increments = {2, 4}
  MaxEarned = 6
  MaxOthers = 1
  MaxFaults = 1
  MaxResets = 2
  MaxRejects = 1
  MaxTransfers = 12
INVARIANTS TypeOK   
 

SPECIFICATION FairSpec
CONSTANTS
  w1 = w1
  w2 = w2
  a1 = a1
  a2 = a2
  Lanes = {"hmc"}
  Workers = {w1, w2}
  Addresses = {a1, a2}
  PayoutAddress <- OwnAddress
  OtherAddress = OtherAddress
  FirstNonce = 1
  MinSettle = 1
  ForceMin = 1
  MaxChunk = 1
  Headrooms = {1}
  NonceRetries = 2
  ForceModes = {FALSE}
  StrandedMaxScan = 8
  ClearPending = TRUE
  ClearPendingForce = FALSE
  ClearPendingSUP = FALSE
  BlocksBetweenReads = TRUE
  Increments = {1}
  MaxEarned = 2
  MaxOthers = 1
  MaxFaults = 1
  MaxResets = 0
  MaxRejects = 0
  MaxTransfers = 12
PROPERTY EventuallySettled

SPECIFICATION FairSpec
CONSTANTS
  w1 = w1
  w2 = w2
  v1 = v1
  v2 = v2
  NItems = 2
  DoneBefore = 1
  Workers = {w1}
  Handlers = {w1}
  WorkerOf <- OneEach
  Verifiers = {v1}
  MaxAttempts = 1
  MaxRetries = 1
  NearDone = 2
  Sweeps = TRUE
  Scenarios <- Liveness
INVARIANT TypeOK
 

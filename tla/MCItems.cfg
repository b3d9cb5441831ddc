SPECIFICATION Spec
CONSTANTS
  w1 = w1
  w2 = w2
  v1 = v1
  v2 = v2
  NItems = 2
  DoneBefore = 1
  Workers = {w1, w2}
  Handlers = {w1, w2}
  WorkerOf <- OneEach
  Verifiers = {v1, v2}
  MaxAttempts = 1
  MaxRetries = 1
  NearDone = 2
  Sweeps = TRUE
  Scenarios <- Safety
INVARIANTS EvidenceIsPaid VanishedProofCounts ReplayHasJob
PROPERTY DoneIsFinal
SYMMETRY Symmetry

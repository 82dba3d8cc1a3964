SPECIFICATION MCSpec
CONSTANTS
  wa = wa
  wb = wb
  Workers <- TwoWorkers
  MaxSeq = 2
  Window = 1
  Kinds = {}
  PoisonAfter = 2
  TransientAfter = 2
  MaxAttempts = 1
  Faults <- RaceFaults
  MaxFaults = 2
  MaxFails = 0
INVARIANTS CapturedOnce DisclosureFenced ErasedStaysErased
 
CHECK_DEADLOCK FALSE

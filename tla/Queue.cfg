SPECIFICATION MCSpec
CONSTANTS
  w1 = w1
  w2 = w2
  NoOwner = NoOwner
  Owners <- MCOwners
  PoolLanes <- AllPools
  Lanes = {"chat", "scheduled"}
  ScheduledMaxAttempts = 1
  ScheduledRetries = 1
  GeneralMaxAttempts = 1
  MaxJobs = 2
  MaxInput = 0
  MaxRetries = 1
  MaxGen = 2
INVARIANTS AtMostOneExecuting SingleFlight SingleWriter AttemptsBounded FailureIsVisible CrashCountedOnce
PROPERTIES ReapedExecutionEnds
CHECK_DEADLOCK FALSE

SPECIFICATION Spec
CONSTANTS
  Reconcilers = {r1}
  MaxMsgs = 1
  MaxJobs = 1
  MaxGen = 2
  MaxCrashes = 0
INVARIANT ClearIsFinal

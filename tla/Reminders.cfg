SPECIFICATION MCSpec
CONSTANTS
  sa = sa  sb = sb
  Schedulers = {sa, sb}
  MaxTimers = 1
  MaxJobs = 2
  MaxNow = 1
  PendingCap = 2
  MaxRounds = 1
  MaxTries = 1
  MaxSends = 0
  Dues = {0}
  Repeats = {FALSE}
  Faults = {"lapse", "fail", "cancel", "expire", "crash"}
  MaxFaults = 2
INVARIANTS  SeriesNeverForks
PROPERTIES CanceledStaysUntold DueTimersSettle
CHECK_DEADLOCK FALSE

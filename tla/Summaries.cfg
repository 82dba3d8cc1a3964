CONSTANTS
  Turns <- ChatTurn
  MaxSeq = 3
  LegacyRows = 0
  TailKeep = 0
  TailLimit = 1
  Batch = 1
  Fanout = 2
  MaxSegments = 2
  MaxPasses = 3
  MaxRetries = 1
  BacklogMin = 2
  Oversized = FALSE
  Faults <- NoFaults
  MaxFaults = 2
SPECIFICATION MCSpec
 
PROPERTIES  SummarySettles
CHECK_DEADLOCK FALSE

SPECIFICATION MCSpec
CONSTANTS
  a = a  b = b  NoJob = NoJob
  f1 = f1  f2 = f2  h1 = h1
  foreground = foreground  heavy = heavy
  Jobs = {b}
  Requeues = {b}
  MaxGens = 2
  MaxMsgs = 4
  MaxFaults = 2
  Watched = TRUE
INVARIANTS OneChild PermitsAreExact
PROPERTIES RecoversOnlyTheDead SlotRecovers AcquiresAnswered
CHECK_DEADLOCK FALSE

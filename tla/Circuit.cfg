SPECIFICATION MCSpec
CONSTANTS
  sa = sa  sb = sb
  Schedulers = {sa}
  Threshold = 3
  MaxResets = 1
  MaxPubs = 2
  Outcomes = {"reply", "silent", "targeted"}
  Faults = {}
  MaxFaults = 0
INVARIANTS NoticeSettles OneBeatPerSlot
PROPERTIES HeartbeatsKeepComing
CHECK_DEADLOCK FALSE

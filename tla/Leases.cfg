SPECIFICATION SafeSpec
CONSTANTS
  s1 = s1  s2 = s2  u1 = u1  u2 = u2  None = None
  Sups = {s1, s2}
  Users = {u1}
  MaxChildren = 0
  MaxSpawns = 0
  Faults = {"lapse", "stuck"}
  MaxFaults = 2
  Edits = {"setting", "persona"}
  MaxEdits = 1
INVARIANTS NoStrayConsumer OneConsumerPerUser
PROPERTIES ReleasedAfterStop

SPECIFICATION Spec
CONSTANTS
  Sups = {s1, s2}
  Users = {u1}
  None = None
  MaxChildren = 0
  MaxSpawns = 0
  Faults = {}
  MaxFaults = 0
  Edits = {"setting", "persona"}
  MaxEdits = 1
INVARIANT OneConsumer

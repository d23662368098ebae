SPECIFICATION Spec
CONSTANTS
  Ids = {c1, c2}
  Existing = {c1, c2}
  Absent = Absent
  None = None
  Kept = Kept
  MaxSaves = 0
  MaxRemovals = 0
  MaxSettings = 1
  MaxTasks = 1
  MaxFaults = 0
  MaxRestarts = 1
  Unreadable = TRUE
INVARIANTS ConnectionsKept
CHECK_DEADLOCK FALSE

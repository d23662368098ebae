SPECIFICATION Spec
CONSTANTS
  Ids = {c1, c2, c3}
  Existing = {c1, c2, c3}
  Absent = Absent
  None = None
  Kept = Kept
  MaxSaves = 0
  MaxRemovals = 2
  MaxSettings = 1
  MaxTasks = 2
  MaxFaults = 0
  MaxRestarts = 0
  Unreadable = FALSE
INVARIANTS RemovedStaysRemoved
CHECK_DEADLOCK FALSE

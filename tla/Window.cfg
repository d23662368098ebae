SPECIFICATION AllSpec
CONSTANTS
  s1 = s1
  s2 = s2
  s3 = s3
  Ids = {s1, s2, s3}
  Existing = {s1, s2}
  Absent = Absent
  None = None
  Kept = Kept
  MaxSaves = 2
  MaxRemovals = 1
  MaxSettings = 1
  MaxTasks = 2
  MaxFaults = 2
  MaxRestarts = 1
  Unreadable = FALSE
  c1 = c1
  c2 = c2
  Nil = Nil
  m1 = m1
  m2 = m2
  k1 = k1
  k2 = k2
SYMMETRY OldOnesAlike
INVARIANTS AllTypeOK SecretKept SavedOrRemoved GuiCurrentAndLocked FailedChangeUndone OnePlace
PROPERTIES KeysConfirmed DraftsReviewed ListKept SettingsKept FilesWritten
CHECK_DEADLOCK FALSE

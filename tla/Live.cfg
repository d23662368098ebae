SPECIFICATION LiveSpec
CONSTANTS
  u1 = u1
  Profiles = {u1}
  Versions = {1, 2}
  Versioned = FALSE
  Faults = TRUE
  MaxPlans = 3
  MaxReinstalls = 1
  p1 = p1
  p2 = p2
  Free = Free
  NoState = NoState
INVARIANTS AllTypeOK InstallationKept
PROPERTIES CommandsEnd UpdateDecided UpdateEnds
CHECK_DEADLOCK FALSE

SPECIFICATION SharedSpec
CONSTANTS
  Profiles = {u1, u2}
  Versions = {1, 2}
  Versioned = TRUE
  Faults = TRUE
  MaxPlans = 2
  MaxReinstalls = 0
SYMMETRY Interchangeable
INVARIANTS OneInstalled
CHECK_DEADLOCK FALSE

SPECIFICATION Spec
CONSTANTS
  Mounts = {m1}
  AutoShow = TRUE
  MaxWrites = 2
  MaxFaults = 2
  MaxChanges = 3
  MaxClosings = 1
PROPERTY DismissedSurvives
CHECK_DEADLOCK FALSE

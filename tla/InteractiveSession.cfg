SPECIFICATION Spec
CONSTANTS
  c1 = c1
  t1 = t1
  t2 = t2
  Connections = {c1}
  Targets = {t1, t2}
  Owner <- Shared
  Nobody = Nobody
  Another = Another
  MaxLogins = 2
  MaxSaves = 1
  MaxErrors = 1
INVARIANTS TypeOK ReadyIsCurrent
PROPERTIES ResumesOnce SessionKept
SYMMETRY Directories
CHECK_DEADLOCK FALSE

SPECIFICATION AllSpec
CONSTANTS
  t1 = t1
  Targets = {t1}
  Owner <- Separate
  Odd = {"error"}
  MaxReads = 2
  MaxDialogs = 1
  MaxUser = 4
  c1 = c1
  c2 = c2
  Missing = Missing
  Damaged = Damaged
  f1 = f1
  f2 = f2
  Nil = Nil
  m1 = m1
  m2 = m2
  k1 = k1
  k2 = k2
  k3 = k3
  Servers = {c1, c2}
  Interactive = {c2}
  VaultRefs = TRUE
  Order <- SettingsFirst
  Procs = {c1, c2}
  Digests = {"d1", "d2"}
  Embedded = Nil
  Elsewhere = "path"
  Ids = {c1, c2}
  MaxFaults = 2
  MaxStops = 1
  MaxChanges = 1
INVARIANT UnmountGuarded
CHECK_DEADLOCK FALSE

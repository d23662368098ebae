SPECIFICATION Spec
CONSTANTS
  Actors = {a1, a2}
  Servers = {s1, s2}
  Mps = {m1}
  Pids = {p1, p2}
  Foreign = Foreign
  Free = Free
  NoRecord = NoRecord
  NoProcess = NoProcess
  NoStart = NoStart
  MaxClock = 1
  MaxInst = 2
INVARIANTS
  TypeOK
  ExclusiveMountpoint
  NoUnrecordedProcess
  AuthMatchesRecord
  SingleInstance
  SignalsVerified
SYMMETRY Symmetry
CHECK_DEADLOCK FALSE

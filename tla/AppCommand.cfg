SPECIFICATION Spec
CONSTANTS
  p1 = p1
  p2 = p2
  p3 = p3
  Procs = {p1, p2, p3}
  Free = Free
  NoState = NoState
  QueueCapacity = 1
  Workers = 2
SYMMETRY ProcSymmetry
INVARIANT ServerKnown
PROPERTY ImplementsDelivery
CHECK_DEADLOCK FALSE

SPECIFICATION Spec
CONSTANTS
  Manual <- MCManual
  Hosts <- MCHosts
  Exported <- MCExported
  MaxSaves = 3
INVARIANT OnlyMarkedReplaced
CHECK_DEADLOCK FALSE

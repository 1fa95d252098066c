SPECIFICATION Spec
CONSTANTS
  a = a
  b = b
  c = c
  d = d
  Host = {a, b, c, d}
  HostLists <- MCHostLists
  APPLY_LANES = 2
  MaxOps = 2
INVARIANTS
  AskedOnce
PROPERTIES
  PanelEnds
CHECK_DEADLOCK FALSE

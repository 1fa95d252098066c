SPECIFICATION Spec
CONSTANTS
  a = a
  b = b
  c = c
  d = d
  Host = {a, b, c, d}
  HostLists <- MCFewLists
  APPLY_LANES = 2
  MaxOps = 2
INVARIANT
  PreviewStaysPreview
CHECK_DEADLOCK FALSE

SPECIFICATION Spec
CONSTANTS
  MaxTries = 2
  MaxJobs = 2
  MaxOutages = 2
  MaxChecks = 1
  None = None
INVARIANT
  PageSettles
PROPERTY
  WatchEnds
CHECK_DEADLOCK FALSE

SPECIFICATION Spec
CONSTANTS
  Host = {h1}
  Path = {f1}
  Sha = {s1, s2}
  NoSha = NoSha
  Absent = Absent
  NoImage = NoImage
  Gone = Gone
  Idle = Idle
  KEEP = 3
  MaxClock = 1
  MaxCaptures = 4
  MaxPoints = 0
  MaxJobs = 0
  MaxRestores = 0
INVARIANTS
  NeighboursDiffer

SPECIFICATION AuditSpec
CONSTANTS
  Host = {h1}
  Path = {f1, f2}
  Sha = {s1, s2}
  NoSha = NoSha
  Absent = Absent
  KEEP = 2
  MaxClock = 2
  MaxCaptures = 4
  MaxPoints = 1
  MaxJobs = 1
  MaxRestores = 1
CONSTRAINT InParts
SYMMETRY Symmetry
INVARIANTS
  HistoryBounded
  ChangeOnly
  TrailIsTrue
  NothingUntold
PROPERTIES
  CaptureIsNewest

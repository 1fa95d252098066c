SPECIFICATION AuditSpec
CONSTANTS
  Host = {h1}
  Path = {f1}
  Sha = {s1}
  NoSha = NoSha
  Absent = Absent
  KEEP = 1
  MaxClock = 0
  MaxCaptures = 1
  MaxPoints = 1
  MaxJobs = 1
  MaxRestores = 2
INVARIANTS
  DeletionsAreTold

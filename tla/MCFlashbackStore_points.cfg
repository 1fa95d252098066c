SPECIFICATION Spec
CONSTANTS
  Host = {h1, h2}
  Path = {f1}
  Sha = {s1, s2}
  NoSha = NoSha
  Absent = Absent
  NoImage = NoImage
  Gone = Gone
  Idle = Idle
  KEEP = 1
  MaxClock = 1
  MaxCaptures = 2
  MaxPoints = 2
  MaxJobs = 2
  MaxRestores = 1
CONSTRAINT TimesForHistory
SYMMETRY Symmetry
INVARIANTS
  TypeOK
  SealedComplete
  VersionsHaveContent
  OpenPinned
  ActiveJobRestorable
  OneRestorePerHost
PROPERTIES
  SealedImmutable
  OutcomesStand
  ForgottenIsCollected
  KeepsPromise

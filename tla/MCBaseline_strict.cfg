SPECIFICATION Spec
CONSTANTS
  h1 = h1
  h2 = h2
  prod = prod
  web = web
  db = db
  t1 = t1
  t2 = t2
  None = None
  Name = {web}
  NameOrder <- MCOneName
  Text = {t1, t2}
  Host = {h1}
  EnvOf <- MCEnvOf
  Handler = {q1, q2}
  Rule <- MCRules
  Return <- MCReturns
  KEEP_VERSIONS = 1
  MaxVersion = 2
  MaxRuns = 2
  MaxPolls = 1
  RunsLoaded = 2
  AttentionShown = 1
  ClockStep = {0, 1}
SYMMETRY Symmetry
INVARIANT
  LastRunIsSaid
\* In its place, each of these fails as well:
\*   AllClearIsTrue

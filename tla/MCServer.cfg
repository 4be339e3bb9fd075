SPECIFICATION FairSpec
CONSTANTS
  Conns = {c1, c2}
  Jobs = {j1, j2}
  Packages = 2
INVARIANTS
  GuardsCounted
  OneJob
  CleanExit
  StatusIsCurrent
PROPERTIES
  DrainEnds
  JobsRelease

SPECIFICATION Spec
CONSTANTS
  m1 = m1
  m2 = m2
  m3 = m3
  b1 = b1
  r1 = r1
  r2 = r2
  Paths = {1, 2}
  Manifests = {m1, m2, m3}
  Broken = {b1}
  Releases = {r1, r2}
  ReleaseOf <- MCReleaseOf
  Objects = {"intact", "missing"}
  Scanners = {s1}
  VerifyJobs = TRUE
  LiveEdits = FALSE
  Overlap = FALSE
  Unreadable = Unreadable
  None = None
INVARIANTS
  OwnerServes
PROPERTIES
  OwnersHold
  ScanReflects
  SweepSparesSeen
SYMMETRY MCSymmetry

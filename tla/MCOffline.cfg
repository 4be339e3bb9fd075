CONSTANTS
  t1 = t1
  t2 = t2
  lyric = lyric
  Plan <- Tracks
  Critical = {t1, t2}
  Versions = {1}
  Offers = {2}
  SizeOf <- EqualSizes
  MaxRuns = 2
  Overlap = FALSE
  OtherPage = FALSE
  Empty = Empty
  Lost = Lost
  None = None
SPECIFICATION FairSpec
INVARIANTS
  CriticalComplete
  OffersVerified
  InstalledIsOffered
PROPERTIES
  InstallsEnd

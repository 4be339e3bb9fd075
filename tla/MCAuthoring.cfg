CONSTANTS
  Sources = {lossless}
  Packages = {package}
  Allowed <- Handled
  SlowValidation = FALSE
  MaxVersions = 1
  MaxStagings = 1
  MaxAlbums = 1
  None = None
SPECIFICATION FairSpec
INVARIANTS
  StagingHeld
  SavedOpens
  SaveFollows
PROPERTIES
  Settles
CHECK_DEADLOCK FALSE

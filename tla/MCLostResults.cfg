CONSTANTS
  Sources = {lossless}
  Packages = {package}
  Allowed <- Overlapping
  SlowValidation = FALSE
  MaxVersions = 1
  MaxStagings = 1
  MaxAlbums = 1
  None = None
SPECIFICATION Spec
PROPERTY
  ResultsKeepWork
CHECK_DEADLOCK FALSE

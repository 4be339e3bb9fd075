SPECIFICATION FairSpec
CONSTANTS
  a = a
  b = b
  c = c
  d = d
  Entries = {a, b}
  HistoryCap = 1
  TrackLen <- Mixed
  Hint <- Mixed
  Broken = {}
  Truncated = {}
  RingCapacity = 4
  HighWater = 3
  CallbackMargin = 0
  PreloadNext = TRUE
  RestartThreshold = 1
  EndTolerance = 0
  Playlists <- Pairs
  Quanta = {1, 2}
  SeekTargets = {0, 3}
  Fades = {0, 1}
  Modes = {"off"}
  Commands = {"midfade"}
  MaxClock = 12
  MaxItems = 2
PROPERTY
  FadesComplete

SPECIFICATION Spec
CONSTANTS
  a = a
  b = b
  c = c
  d = d
  Entries = {a, b}
  HistoryCap = 1
  TrackLen <- Mixed
  Hint <- Mixed
  Broken = {}
  Truncated = {b}
  RingCapacity = 4
  HighWater = 3
  CallbackMargin = 0
  PreloadNext = TRUE
  RestartThreshold = 1
  EndTolerance = 0
  Playlists <- Pairs
  Quanta = {1}
  SeekTargets = {0, 3}
  Fades = {0}
  Modes = {"off", "all"}
  Commands = {"pause", "skip", "seek", "item", "reload", "repeat", "shuffle", "edit"}
  MaxClock = 12
  MaxItems = 2
INVARIANTS
  EngineAgrees
  PauseHolds
PROPERTY
  NoTailLost

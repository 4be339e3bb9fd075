SPECIFICATION Spec
CONSTANTS
  a = a
  b = b
  c = c
  d = d
  Entries = {a, b, c, d}
  HistoryCap = 1
  TrackLen <- Mixed
  Hint <- Partial
  Broken = {d}
  Truncated = {c}
  RingCapacity = 4
  HighWater = 3
  CallbackMargin = 0
  PreloadNext = TRUE
  RestartThreshold = 1
  EndTolerance = 0
  Playlists <- Triples
  Quanta = {1, 2}
  SeekTargets = {1, 3, 5}
  Fades = {0}
  Modes = {"off", "one"}
  Commands = {"pause", "skip", "seek", "stop", "jump", "starve", "repeat"}
  MaxClock = 12
  MaxItems = 3
INVARIANTS
  CursorIsAudible
  ClockNeverAhead

SPECIFICATION FairSpec
CONSTANTS
  a = a
  b = b
  c = c
  d = d
  Entries = {a, b}
  HistoryCap = 1
  TrackLen <- Longer
  Hint <- Longer
  Broken = {}
  Truncated = {}
  RingCapacity = 4
  HighWater = 3
  CallbackMargin = 0
  PreloadNext = TRUE
  RestartThreshold = 1
  EndTolerance = 0
  Playlists <- EitherPair
  Quanta = {1, 2}
  SeekTargets = {0, 3}
  Fades = {0, 2, 5}
  Modes = {"off","all"}
  Commands = {"pause", "skip", "seek", "stop", "jump", "starve"}
  MaxClock = 12
  MaxItems = 2
INVARIANTS
  FadeHandshake
  LanesPrimeFully
PROPERTIES
  PlaybackEnds
  FadesComplete

CONSTANTS
  Tracks <- Few
  Targets = {0, 1, 3, 9}
  Deltas = {2}
  Capacity = 3
  Chunk = 2
  Scratch = 2
  MaxSeeks = 2
SPECIFICATION FairSpec
PROPERTIES
  IsStream
  TrackEnds

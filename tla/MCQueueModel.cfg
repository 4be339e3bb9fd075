SPECIFICATION Spec
CONSTANTS
  Entries = {a, b, c}
  HistoryCap = 2
  MaxItems = 3
  Modes = {"off", "all"}
SYMMETRY Symmetry
INVARIANTS
  CursorInRange
  OrderCoversQueue
  UndriftedHistoryNamesTrail
  ShuffledPassIsComplete
  PreloadPredictsNextInPass
PROPERTY
  EditsKeepCurrent

CONSTANTS
  Tracks = 2
  Blocks = 2
  Cap = 2
  Broken = {1, 2}
  Targets = {1, 3}
  Allowed <- WhereHandled
  MaxCommands = 2
  MaxMail = 1
  Grace = 1
  Null = Null
SPECIFICATION FairSpec
INVARIANTS
  LoadsHold
  PauseHolds
  
PROPERTIES
  Settles
CHECK_DEADLOCK FALSE

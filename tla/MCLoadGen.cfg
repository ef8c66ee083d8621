SPECIFICATION FairSpec
CONSTANTS
  Pipeline = 5
  Ids = 11
  SndBuf = 2
  ServerRoom = 1
  MaxFailures = 2
INVARIANTS OwnResponse InFlight
PROPERTY LoopRuns
CHECK_DEADLOCK FALSE

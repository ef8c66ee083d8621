SPECIFICATION FairSpec
CONSTANTS
  N = 3
  Signals = {"SIGINT", "SIGTERM"}
  Faults = {"create", "thread", "pipe"}
INVARIANTS ListComplete OrderlyExit NotKilled
PROPERTY SignalEnds
CHECK_DEADLOCK FALSE

SPECIFICATION Spec
CONSTANTS
  Scripts <- FileScript
  MaxRequests = 1
  MaxIn = 3
  ReadSize = 2
  RcvBuf = 2
  SndBuf = 3
  LowWat = 2
  HighWater = 2
  LowWater = 2
  SendfileMax = 2
  Faults = {"truncate"}
INVARIANT ParkedMeansBlocked
CHECK_DEADLOCK FALSE

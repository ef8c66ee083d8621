SPECIFICATION Spec
CONSTANTS
  Scripts <- GetScript
  MaxRequests = 2
  MaxIn = 3
  ReadSize = 2
  RcvBuf = 2
  SndBuf = 3
  LowWat = 2
  HighWater = 2
  LowWater = 2
  SendfileMax = 2
  Faults = {"drain"}
INVARIANT ResponseSurvives
CHECK_DEADLOCK FALSE

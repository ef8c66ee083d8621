SPECIFICATION Spec
CONSTANTS
  Scripts <- SafetyScripts
  MaxRequests = 2
  MaxIn = 3
  ReadSize = 2
  RcvBuf = 2
  SndBuf = 3
  LowWat = 2
  HighWater = 2
  LowWater = 2
  SendfileMax = 2
  Faults = {"reset", "fin", "drain", "timeout", "truncate", "abort", "short"}
INVARIANTS Framed NoLostWakeup BuffersBounded OrderlyClose LingerSurvives
CHECK_DEADLOCK FALSE

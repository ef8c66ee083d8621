SPECIFICATION Spec
CONSTANTS
  Clients = {"c1", "c2"}
  Fds <- MCFds
  MaxEvents = 2
  AcceptBatch = 2
  IdleTimeout = 8
  HeaderTimeout = 8
  Grace = 1
  MinTick = 1
  MaxTick = 100
  Milli = 1
  Faults = {}
INVARIANT QuarterOvershoot
CHECK_DEADLOCK FALSE

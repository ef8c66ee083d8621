SPECIFICATION FairSpec
CONSTANTS
  Clients = {"c1", "c2"}
  Fds <- MCFds
  MaxEvents = 2
  AcceptBatch = 1
  IdleTimeout = 1
  HeaderTimeout = 1
  Grace = 1
  MinTick = 2
  MaxTick = 2
  Milli = 2
  Faults = {"abort", "emfile", "epoll_ctl"}
INVARIANTS TypeOK Accounted EventsMatch DeadlinesKept DrainBounded
CHECK_DEADLOCK FALSE
PROPERTIES StopEnds Admitted LifeKept

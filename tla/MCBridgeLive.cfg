\* Stop returns in any case, Start as long as there is traffic.
CONSTANTS
  Links = 1
  MaxSessions = 2
  Backlog = 1
SPECIFICATION FairSpec
PROPERTIES
  StopReturns
  StartReturns
CHECK_DEADLOCK FALSE

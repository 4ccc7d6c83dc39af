\* Both directions over two sessions.
CONSTANTS
  Links = 2
  MaxSessions = 2
  Backlog = 1
SPECIFICATION Spec
INVARIANTS
  TypeOK
  NoStalePacket
  StopIsComplete
  WritersServe
CHECK_DEADLOCK FALSE

\* The comment of buffer.cpp:30 against the code.
CONSTANTS
  p1 = p1
  p2 = p2
  Packet = {p1}
  SizeOf <- MCSizeOf
  Backlog = 3
SPECIFICATION Spec
INVARIANT ZeroOnlyAfterReset
CHECK_DEADLOCK FALSE

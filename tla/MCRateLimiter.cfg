\* One limit and none, packets smaller and larger than the limit.
CONSTANTS
  Limits = {0, 2}
  PacketBits = {1, 3}
  Second = 2
  IntMax = 5
  MaxClock = 11
SPECIFICATION Spec
INVARIANTS
  TypeOK
  AnySecond
  ZeroTrickles
  Renewed
  OverflowStalls
CHECK_DEADLOCK FALSE

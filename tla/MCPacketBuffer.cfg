\* The buffer under every interleaving of reader, writer and reset.
CONSTANTS
  p1 = p1
  p2 = p2
  Packet = {p1, p2}
  SizeOf <- MCSizeOf
  Backlog = 3
SPECIFICATION FairSpec
INVARIANTS
  TypeOK
  Parallel
  SentWithOwnSize
  EmptyDequeueNeedsReset
PROPERTIES
  ImplementsChannel
  QueueMoves
CHECK_DEADLOCK FALSE

--------------------------- MODULE MCPacketBuffer ---------------------------
(* PacketBuffer with two packets of different lengths, for TLC.            *)
EXTENDS PacketBuffer

CONSTANTS p1, p2

MCSizeOf == [p \in Packet |-> IF p = p1 THEN 60 ELSE 1500]
=============================================================================

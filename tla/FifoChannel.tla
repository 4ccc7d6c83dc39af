---------------------------- MODULE FifoChannel ----------------------------
(***************************************************************************)
(* What one direction of the emulator promises once a packet has passed    *)
(* the loss test: packets leave on the other adapter in the order they     *)
(* were accepted, each once and with its own length, and nothing but Stop  *)
(* takes a packet out of the channel without sending it.                   *)
(***************************************************************************)
EXTENDS Naturals, Sequences

CONSTANTS
  Packet,   (* the packets that can be captured                            *)
  SizeOf    (* the captured length of each packet                          *)

VARIABLES
  queue,    (* the packets accepted and neither sent nor flushed           *)
  wire      (* the last frame sent; the bit tells a frame from the next    *)

channelVars == <<queue, wire>>

Frame(p) == [packet |-> p, size |-> SizeOf[p]]

ChannelInit ==
  /\ queue = << >>
  /\ wire = [frame |-> << >>, bit |-> 0]

Accept(p) ==
  /\ queue' = Append(queue, p)
  /\ UNCHANGED wire

Transmit ==
  /\ queue # << >>
  /\ wire' = [frame |-> Frame(Head(queue)), bit |-> 1 - wire.bit]
  /\ queue' = Tail(queue)

(* Stop empties the channel; a packet the writer already took out of the   *)
(* buffer escapes it and is still sent.                                    *)
Flush ==
  /\ \/ queue' = << >>
     \/ queue # << >> /\ queue' = <<Head(queue)>>
  /\ UNCHANGED wire

ChannelNext ==
  \/ \E p \in Packet : Accept(p)
  \/ Transmit
  \/ Flush

ChannelSpec == ChannelInit /\ [][ChannelNext]_channelVars
=============================================================================

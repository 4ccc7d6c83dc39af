---------------------------- MODULE PacketBuffer ----------------------------
(***************************************************************************)
(* One direction of the network emulator: the Buffer object shared by the  *)
(* ReaderThread that fills it, the WriterThread that drains it and the GUI *)
(* thread that resets it (QT_NetEmu4/buffer.cpp and the loops that call    *)
(* it).  Every step is one access to shared state, so the unlocked reads   *)
(* of sizeFIFO.size() interleave with the locked sections as in the code.  *)
(***************************************************************************)
EXTENDS Naturals, Sequences

CONSTANTS
  Packet,   (* the packets a reader may capture                            *)
  SizeOf,   (* their captured lengths (header->caplen)                     *)
  Backlog   (* bound: packets queued while the writer is not asleep        *)

ASSUME SizeOfAssumption == SizeOf \in [Packet -> Nat \ {0}]
ASSUME BacklogAssumption == Backlog \in Nat \ {0}

VARIABLES
  FIFO, sizeFIFO,   (* the two parallel queues of the Buffer               *)
  mutexFIFO,        (* who holds mutexFIFO: a thread or "none"             *)
  rpc, rpkt,        (* reader: position in addPacket, the packet it adds   *)
  wpc, wpkt, wsize, (* writer: position in run and removePacket, its locals*)
  gpc,              (* GUI thread: position in Buffer::reset               *)
  wire,             (* history: the last frame given to pcap_sendpacket    *)
  resetSince        (* history: the writer event the last reset came after:*)
                    (* its last emptiness test, its start, or neither      *)

readerVars == <<rpc, rpkt>>
writerVars == <<wpc, wpkt, wsize, wire>>
vars == <<FIFO, sizeFIFO, mutexFIFO, readerVars, writerVars, gpc, resetSince>>

Thread == {"reader", "writer", "gui"}
Size == {SizeOf[p] : p \in Packet}
NoFrame == << >>
Frame == [packet : Packet, size : Size]

-----------------------------------------------------------------------------
Init ==
  /\ FIFO = << >>
  /\ sizeFIFO = << >>
  /\ mutexFIFO = "none"
  /\ rpc = "capture"
  /\ rpkt \in Packet
  /\ wpc = "off"
  /\ wpkt \in Packet
  /\ wsize \in Size
  /\ gpc = "idle"
  /\ wire = [frame |-> NoFrame, bit |-> 0]
  /\ resetSince = "neither"

(* bufferEmpty.wakeOne(): only the writer ever waits on the condition; a   *)
(* call that finds it not waiting has no effect.                           *)
WakeOne == wpc' = IF wpc = "asleep" THEN "awake" ELSE wpc

-----------------------------------------------------------------------------
(* Reader thread: a captured packet that passed the loss test.             *)

(* Bound only: the sleeping writer always leaves room for the packet whose *)
(* wakeOne ends its wait.                                                  *)
HasRoom == Len(FIFO) < Backlog \/ (wpc = "asleep" /\ Len(FIFO) <= Backlog)

(* Mutant: the new packet goes to the front of the queue.                  *)
AddPacketInFront(p) ==
  /\ rpc = "capture" /\ gpc = "idle" /\ mutexFIFO = "none" /\ HasRoom
  /\ rpkt' = p
  /\ FIFO' = <<p>> \o FIFO
  /\ mutexFIFO' = "reader"
  /\ rpc' = "addSize"
  /\ UNCHANGED <<sizeFIFO, writerVars, gpc, resetSince>>

(* Stop() joins the reader before it resets the buffer, so the two never   *)
(* overlap.                                                                *)
AddPacket(p) ==
  /\ rpc = "capture"
  /\ gpc = "idle"
  /\ mutexFIFO = "none"
  /\ HasRoom
  /\ rpkt' = p
  /\ FIFO' = Append(FIFO, p)
  /\ mutexFIFO' = "reader"
  /\ rpc' = "addSize"
  /\ UNCHANGED <<sizeFIFO, writerVars, gpc, resetSince>>

(* Mutant: a length that was not filled in yet is queued.                  *)
AddSizeUnset ==
  /\ rpc = "addSize"
  /\ sizeFIFO' = Append(sizeFIFO, 0)
  /\ mutexFIFO' = "none"
  /\ rpc' = "notify"
  /\ UNCHANGED <<FIFO, rpkt, writerVars, gpc, resetSince>>

AddSize ==
  /\ rpc = "addSize"
  /\ sizeFIFO' = Append(sizeFIFO, SizeOf[rpkt])
  /\ mutexFIFO' = "none"
  /\ rpc' = "notify"
  /\ UNCHANGED <<FIFO, rpkt, writerVars, gpc, resetSince>>

(* Mutant: addPacket forgets its wakeOne.                                  *)
AddNotifyNobody ==
  /\ rpc = "notify"
  /\ rpc' = "capture"
  /\ UNCHANGED <<FIFO, sizeFIFO, mutexFIFO, rpkt, writerVars, gpc, resetSince>>

AddNotify ==
  /\ rpc = "notify"
  /\ WakeOne
  /\ rpc' = "capture"
  /\ UNCHANGED <<FIFO, sizeFIFO, mutexFIFO, rpkt, wpkt, wsize, wire, gpc, resetSince>>

-----------------------------------------------------------------------------
(* Writer thread: WriterThread::run around Buffer::removePacket.           *)

(* The GUI thread starts the writer, so it is not inside reset.            *)
WriterStart ==
  /\ wpc = "off"
  /\ gpc = "idle"
  /\ wpc' = "loop"
  /\ resetSince' = "neither"
  /\ UNCHANGED <<FIFO, sizeFIFO, mutexFIFO, readerVars, wpkt, wsize, wire, gpc>>

(* The loop condition found quit set.                                      *)
WriterQuit ==
  /\ wpc = "loop"
  /\ wpc' = "off"
  /\ UNCHANGED <<FIFO, sizeFIFO, mutexFIFO, readerVars, wpkt, wsize, wire, gpc, resetSince>>

(* It did not, and the loop comes to its window and its limit.             *)
LoopTop ==
  /\ wpc = "loop"
  /\ wpc' = "window"
  /\ UNCHANGED <<FIFO, sizeFIFO, mutexFIFO, readerVars, wpkt, wsize, wire, gpc, resetSince>>

(* The window is open and the limit not used up.  When that is so is       *)
(* RateLimiter's subject (CheckWindow); here it may be so or not.          *)
CallRemove ==
  /\ wpc = "window"
  /\ wpc' = "test"
  /\ UNCHANGED <<FIFO, sizeFIFO, mutexFIFO, readerVars, wpkt, wsize, wire, gpc, resetSince>>

(* The limit is used up, or it is 0, or the window is over and restarts.   *)
GoRound ==
  /\ wpc = "window"
  /\ wpc' = "loop"
  /\ UNCHANGED <<FIFO, sizeFIFO, mutexFIFO, readerVars, wpkt, wsize, wire, gpc, resetSince>>

(* The loop head reads sizeFIFO.size() without holding any mutex.          *)
TestEmpty ==
  /\ wpc = "test"
  /\ wpc' = IF Len(sizeFIFO) = 0 THEN "wait" ELSE "take"
  /\ resetSince' = IF resetSince = "test" THEN "start" ELSE resetSince
  /\ UNCHANGED <<FIFO, sizeFIFO, mutexFIFO, readerVars, wpkt, wsize, wire, gpc>>

(* Locking wMutex and releasing it in wait() are one step for the others:  *)
(* wakeOne is called with wMutex held, so it comes before or after both.   *)
Wait ==
  /\ wpc = "wait"
  /\ wpc' = "asleep"
  /\ UNCHANGED <<FIFO, sizeFIFO, mutexFIFO, readerVars, wpkt, wsize, wire, gpc, resetSince>>

(* Mutant: a woken writer trusts the wake-up and dequeues.                 *)
AwakeTrusting ==
  /\ wpc = "awake"
  /\ wpc' = "take"
  /\ UNCHANGED <<FIFO, sizeFIFO, mutexFIFO, readerVars, wpkt, wsize, wire, gpc, resetSince>>

(* Woken, removePacket looks at the size again and gives up on zero.       *)
Awake ==
  /\ wpc = "awake"
  /\ wpc' = IF Len(sizeFIFO) = 0 THEN "gotZero" ELSE "test"
  /\ UNCHANGED <<FIFO, sizeFIFO, mutexFIFO, readerVars, wpkt, wsize, wire, gpc, resetSince>>

(* Mutant: removePacket dequeues without waiting for mutexFIFO.            *)
TakeUnlocked ==
  /\ wpc = "take"
  /\ FIFO # << >>
  /\ wpkt' = Head(FIFO)
  /\ FIFO' = Tail(FIFO)
  /\ mutexFIFO' = "writer"
  /\ wpc' = "takeSize"
  /\ UNCHANGED <<sizeFIFO, readerVars, wsize, wire, gpc, resetSince>>

(* dequeue() on an empty QQueue is undefined: the model stops there.       *)
Take ==
  /\ wpc = "take"
  /\ mutexFIFO = "none"
  /\ \/ /\ FIFO # << >>
        /\ wpkt' = Head(FIFO)
        /\ FIFO' = Tail(FIFO)
        /\ mutexFIFO' = "writer"
        /\ wpc' = "takeSize"
     \/ /\ FIFO = << >>
        /\ wpc' = "undefined"
        /\ UNCHANGED <<wpkt, FIFO, mutexFIFO>>
  /\ UNCHANGED <<sizeFIFO, readerVars, wsize, wire, gpc, resetSince>>

TakeSize ==
  /\ wpc = "takeSize"
  /\ \/ /\ sizeFIFO # << >>
        /\ wsize' = Head(sizeFIFO)
        /\ sizeFIFO' = Tail(sizeFIFO)
        /\ mutexFIFO' = "none"
        /\ wpc' = "send"
     \/ /\ sizeFIFO = << >>
        /\ wpc' = "undefined"
        /\ UNCHANGED <<wsize, sizeFIFO, mutexFIFO>>
  /\ UNCHANGED <<FIFO, readerVars, wpkt, wire, gpc, resetSince>>

Send ==
  /\ wpc = "send"
  /\ wire' = [frame |-> [packet |-> wpkt, size |-> wsize], bit |-> 1 - wire.bit]
  /\ wpc' = "loop"
  /\ UNCHANGED <<FIFO, sizeFIFO, mutexFIFO, readerVars, wpkt, wsize, gpc, resetSince>>

(* A size of zero ends the thread.                                         *)
ExitOnZero ==
  /\ wpc = "gotZero"
  /\ wpc' = "off"
  /\ UNCHANGED <<FIFO, sizeFIFO, mutexFIFO, readerVars, wpkt, wsize, wire, gpc, resetSince>>

WriterStep ==
  \/ LoopTop \/ WriterQuit \/ CallRemove \/ GoRound \/ TestEmpty \/ Wait \/ Awake
  \/ Take \/ TakeSize \/ Send \/ ExitOnZero

-----------------------------------------------------------------------------
(* GUI thread: Buffer::reset, called by NetworkEmulator::Stop once the     *)
(* reader thread is finished.                                              *)

ResetClear ==
  /\ gpc = "idle"
  /\ rpc = "capture"
  /\ mutexFIFO = "none"
  /\ FIFO' = << >>
  /\ mutexFIFO' = "gui"
  /\ gpc' = "clearSize"
  /\ resetSince' = "test"
  /\ UNCHANGED <<sizeFIFO, readerVars, writerVars>>

(* Mutant: reset forgets to clear the lengths.                             *)
ResetClearSizeForgotten ==
  /\ gpc = "clearSize"
  /\ mutexFIFO' = "none"
  /\ gpc' = "notify"
  /\ resetSince' = "test"
  /\ UNCHANGED <<FIFO, sizeFIFO, readerVars, writerVars>>

ResetClearSize ==
  /\ gpc = "clearSize"
  /\ sizeFIFO' = << >>
  /\ mutexFIFO' = "none"
  /\ gpc' = "notify"
  /\ resetSince' = "test"
  /\ UNCHANGED <<FIFO, readerVars, writerVars>>

ResetNotify ==
  /\ gpc = "notify"
  /\ WakeOne
  /\ gpc' = "idle"
  /\ UNCHANGED <<FIFO, sizeFIFO, mutexFIFO, readerVars, wpkt, wsize, wire, resetSince>>

-----------------------------------------------------------------------------
ReaderStep == (\E p \in Packet : AddPacket(p)) \/ AddSize \/ AddNotify
GuiStep == ResetClear \/ ResetClearSize \/ ResetNotify

Next ==
  /\ wpc # "undefined"
  /\ ReaderStep \/ WriterStart \/ WriterStep \/ GuiStep

Spec == Init /\ [][Next]_vars

(* The operating system keeps running the threads that can run, and        *)
(* traffic goes on; nobody has to start the writer or to press Stop, and   *)
(* the writer may go round its loop for ever without calling removePacket. *)
FairSpec ==
  /\ Spec
  /\ WF_vars(ReaderStep)
  /\ WF_vars(WriterStep)
  /\ WF_vars(ResetClearSize)
  /\ WF_vars(ResetNotify)
  /\ SF_vars(Take)
  /\ SF_vars(\E p \in Packet : AddPacket(p))

-----------------------------------------------------------------------------
(* Every variable keeps to its type.                                       *)
TypeOK ==
  /\ FIFO \in Seq(Packet)
  /\ sizeFIFO \in Seq(Size)
  /\ mutexFIFO \in Thread \cup {"none"}
  /\ rpc \in {"capture", "addSize", "notify"}
  /\ rpkt \in Packet
  /\ wpc \in {"off", "loop", "window", "test", "wait", "asleep", "awake",
              "gotZero", "take", "takeSize", "send", "undefined"}
  /\ wpkt \in Packet
  /\ wsize \in Size
  /\ gpc \in {"idle", "clearSize", "notify"}
  /\ wire \in [frame : Frame \cup {NoFrame}, bit : {0, 1}]
  /\ resetSince \in {"neither", "start", "test"}

Sizes(packets) == [i \in 1 .. Len(packets) |-> SizeOf[packets[i]]]

(* The two queues of the Buffer stay parallel: whoever finds mutexFIFO     *)
(* free finds the length of every queued packet at the packet's position   *)
(* (addPacket, removePacket and reset, from three threads).                *)
Parallel == mutexFIFO = "none" => sizeFIFO = Sizes(FIFO)

(* A packet is handed to pcap_sendpacket with its own captured length,     *)
(* although packet and length are taken from two queues.                   *)
SentWithOwnSize == wpc = "send" => wsize = SizeOf[wpkt]

(* removePacket tests for an empty buffer without the lock it dequeues     *)
(* under; still the buffer it dequeues from is empty only if a reset came  *)
(* between that test and the dequeue.                                      *)
EmptyDequeueNeedsReset == wpc = "undefined" => resetSince = "test"

(* buffer.cpp: "only occures if reset is called" of the zero size that     *)
(* removePacket returns after a wake-up, which ends the writer thread.     *)
ZeroOnlyAfterReset == wpc = "gotZero" => resetSince # "neither"

(* The limiter admits a packet again and again: it does while the timer's  *)
(* int lasts and some limit other than 0 was set (RateLimiter.Renewed).    *)
Admits == SF_vars(CallRemove)

(* With traffic going on and a limiter that admits packets, queued packets *)
(* do not stay queued for ever while there is a writer: it sends one, or   *)
(* Stop flushes them.  A wake-up lost between the test and the wait is     *)
(* made up for by the next captured packet.  That no writer ends by itself *)
(* with packets queued is not said here, but by ZeroOnlyAfterReset.        *)
QueueMoves ==
  Admits => (FIFO # << >> ~> (FIFO = << >> \/ wpc \in {"send", "off", "undefined"}))

(* The packet in the writer's hands is still in the channel.               *)
Hand == IF wpc \in {"takeSize", "send"} THEN <<wpkt>> ELSE << >>

Channel == INSTANCE FifoChannel WITH queue <- Hand \o FIFO

(* The buffer and its threads implement the FIFO channel: order, no loss   *)
(* but by Stop, no duplicate, each packet with its length.                 *)
ImplementsChannel == Channel!ChannelSpec
=============================================================================

------------------------- MODULE PacketBufferProofs -------------------------
(***************************************************************************)
(* Proofs about PacketBuffer for every set of packets, every assignment of *)
(* lengths and every bound on the backlog: type correctness, the safety    *)
(* invariants, and that the buffer implements the FIFO channel.            *)
(***************************************************************************)
EXTENDS PacketBuffer, SequenceTheorems, TLAPS

(* mutexFIFO is held exactly by the thread that is inside its locked       *)
(* section.                                                                *)
LockHolders ==
  /\ rpc = "addSize" <=> mutexFIFO = "reader"
  /\ wpc = "takeSize" <=> mutexFIFO = "writer"
  /\ gpc = "clearSize" <=> mutexFIFO = "gui"
  /\ gpc # "idle" => rpc = "capture"

(* How the two queues relate while one thread is half way through updating *)
(* them: the reader owes a length, the writer took a packet and not yet    *)
(* its length, reset has cleared the packets and not yet the lengths.      *)
Queues ==
  /\ Parallel
  /\ mutexFIFO = "reader" => Append(sizeFIFO, SizeOf[rpkt]) = Sizes(FIFO)
  /\ mutexFIFO = "writer" => /\ sizeFIFO # << >>
                             /\ Head(sizeFIFO) = SizeOf[wpkt]
                             /\ Tail(sizeFIFO) = Sizes(FIFO)
  /\ mutexFIFO = "gui" => FIFO = << >>

(* A writer that is about to dequeue finds a packet unless a reset came in *)
(* between; the reset it lost to may still be going on.                    *)
Promise ==
  wpc = "take" /\ FIFO = << >> => resetSince = "test" \/ gpc = "clearSize"

IInv ==
  /\ TypeOK
  /\ LockHolders
  /\ Queues
  /\ SentWithOwnSize
  /\ Promise
  /\ EmptyDequeueNeedsReset

-----------------------------------------------------------------------------
(* The lengths of a packet sequence: as many, and extended alike.          *)
LEMMA SizesAppend ==
  ASSUME NEW s \in Seq(Packet), NEW p \in Packet
  PROVE  /\ Sizes(s) \in Seq(Size)
         /\ Len(Sizes(s)) = Len(s)
         /\ Sizes(Append(s, p)) = Append(Sizes(s), SizeOf[p])
<1>1. \A t \in Seq(Packet) : Sizes(t) \in Seq(Size) /\ Len(Sizes(t)) = Len(t)
  BY DEF Sizes, Size
<1>2. Append(s, p) \in Seq(Packet) /\ SizeOf[p] \in Size
  BY DEF Size
<1> DEFINE lhs == Sizes(Append(s, p))
           rhs == Append(Sizes(s), SizeOf[p])
<1>3. lhs \in Seq(Size) /\ rhs \in Seq(Size) /\ Len(lhs) = Len(rhs)
  <2>1. Len(Append(s, p)) = Len(s) + 1
    BY AppendProperties
  <2>2. rhs \in Seq(Size) /\ Len(rhs) = Len(Sizes(s)) + 1
    BY <1>1, <1>2, AppendProperties
  <2>3. lhs \in Seq(Size) /\ Len(lhs) = Len(Append(s, p))
    BY <1>1, <1>2
  <2>4. QED BY <1>1, <2>1, <2>2, <2>3
<1>4. \A i \in 1 .. Len(lhs) : lhs[i] = rhs[i]
  BY <1>1, <1>2 DEF Sizes
<1>5. lhs = rhs
  BY <1>3, <1>4, SeqEqual
<1>6. QED BY <1>1, <1>5

(* The lengths of a nonempty sequence: head and tail go through.           *)
LEMMA SizesTail ==
  ASSUME NEW s \in Seq(Packet), s # << >>
  PROVE  /\ Sizes(s) # << >>
         /\ Head(Sizes(s)) = SizeOf[Head(s)]
         /\ Tail(Sizes(s)) = Sizes(Tail(s))
<1>1. \A t \in Seq(Packet) : Sizes(t) \in Seq(Size) /\ Len(Sizes(t)) = Len(t)
  BY DEF Sizes, Size
<1>2. Len(s) \in Nat \ {0} /\ Tail(s) \in Seq(Packet) /\ Len(Tail(s)) = Len(s) - 1
  BY EmptySeq, HeadTailProperties
<1>3. Sizes(s) # << >> /\ Head(Sizes(s)) = SizeOf[Head(s)]
  BY <1>1, <1>2 DEF Sizes
<1>4. /\ Tail(Sizes(s)) \in Seq(Size) /\ Sizes(Tail(s)) \in Seq(Size)
      /\ Len(Tail(Sizes(s))) = Len(Sizes(Tail(s)))
  BY <1>1, <1>2, <1>3, HeadTailProperties
<1>5. \A i \in 1 .. Len(Tail(Sizes(s))) : Tail(Sizes(s))[i] = Sizes(Tail(s))[i]
  <2> SUFFICES ASSUME NEW i \in 1 .. Len(Tail(Sizes(s)))
               PROVE  Tail(Sizes(s))[i] = Sizes(Tail(s))[i]
    OBVIOUS
  <2>1. Tail(Sizes(s))[i] = Sizes(s)[i + 1]
    BY <1>1, <1>3, HeadTailProperties
  <2>2. i \in 1 .. Len(Tail(s)) /\ i + 1 \in 1 .. Len(s)
    BY <1>1, <1>2, <1>4
  <2>3. Sizes(s)[i + 1] = SizeOf[s[i + 1]] /\ Sizes(Tail(s))[i] = SizeOf[Tail(s)[i]]
    BY <2>2 DEF Sizes
  <2>4. Tail(s)[i] = s[i + 1]
    BY <2>2, HeadTailProperties
  <2>5. QED BY <2>1, <2>3, <2>4
<1>6. QED BY <1>3, <1>4, <1>5, SeqEqual

(* No packets have no lengths.                                             *)
LEMMA SizesEmpty == Sizes(<< >>) = << >>
BY DEF Sizes

-----------------------------------------------------------------------------
USE SizeOfAssumption

(* A packet's length is one of the lengths.                                *)
LEMMA SizeFacts == \A p \in Packet : SizeOf[p] \in Size
BY DEF Size

(* The initial state satisfies the inductive invariant.                    *)
LEMMA InitEstablishes == Init => IInv
<1> SUFFICES ASSUME Init PROVE IInv
  OBVIOUS
<1>1. TypeOK
  BY DEF Init, TypeOK, Thread, NoFrame
<1>2. LockHolders /\ SentWithOwnSize /\ Promise /\ EmptyDequeueNeedsReset
  BY DEF Init, LockHolders, SentWithOwnSize, Promise, EmptyDequeueNeedsReset
<1>3. Queues
  BY SizesEmpty DEF Init, Queues, Parallel
<1>4. QED BY <1>1, <1>2, <1>3 DEF IInv

(* Every step preserves the types.                                         *)
LEMMA StepKeepsTypes == IInv /\ [Next]_vars => TypeOK'
<1> SUFFICES ASSUME IInv, [Next]_vars PROVE TypeOK'
  OBVIOUS
<1> USE DEF IInv, TypeOK, Thread
<1>1. ASSUME NEW p \in Packet, AddPacket(p) PROVE TypeOK'
  BY <1>1, AppendProperties DEF AddPacket, writerVars
<1>2. CASE AddSize
  BY <1>2, SizeFacts, AppendProperties DEF AddSize, writerVars
<1>3. CASE AddNotify
  BY <1>3 DEF AddNotify, WakeOne
<1>4. CASE WriterStart \/ WriterQuit \/ LoopTop \/ CallRemove \/ GoRound
  BY <1>4 DEF WriterStart, WriterQuit, LoopTop, CallRemove, GoRound, readerVars
<1>5. CASE TestEmpty \/ Wait \/ Awake
  BY <1>5 DEF TestEmpty, Wait, Awake, readerVars
<1>6. CASE Take
  <2>1. FIFO # << >> => Head(FIFO) \in Packet /\ Tail(FIFO) \in Seq(Packet)
    BY HeadTailProperties
  <2>2. QED BY <1>6, <2>1 DEF Take, readerVars
<1>7. CASE TakeSize
  <2>1. sizeFIFO # << >> => Head(sizeFIFO) \in Size /\ Tail(sizeFIFO) \in Seq(Size)
    BY HeadTailProperties
  <2>2. QED BY <1>7, <2>1 DEF TakeSize, readerVars
<1>8. CASE Send
  BY <1>8 DEF Send, readerVars, Frame
<1>9. CASE ExitOnZero
  BY <1>9 DEF ExitOnZero, readerVars
<1>10. CASE ResetClear
  BY <1>10 DEF ResetClear, readerVars, writerVars
<1>11. CASE ResetClearSize
  BY <1>11 DEF ResetClearSize, readerVars, writerVars
<1>12. CASE ResetNotify
  BY <1>12 DEF ResetNotify, WakeOne, readerVars
<1>13. CASE UNCHANGED vars
  BY <1>13 DEF vars, readerVars, writerVars
<1>14. QED
  BY <1>1, <1>2, <1>3, <1>4, <1>5, <1>6, <1>7, <1>8, <1>9, <1>10, <1>11,
     <1>12, <1>13 DEF Next, ReaderStep, WriterStep, GuiStep

(* Every step preserves the relation between the queues, the lock and the  *)
(* writer's promise.                                                       *)
LEMMA StepKeepsQueues ==
  IInv /\ [Next]_vars
    => LockHolders' /\ Queues' /\ SentWithOwnSize' /\ Promise' /\ EmptyDequeueNeedsReset'
<1> DEFINE Rest == /\ LockHolders /\ Queues /\ SentWithOwnSize
                   /\ Promise /\ EmptyDequeueNeedsReset
<1> SUFFICES ASSUME IInv, [Next]_vars PROVE Rest'
  OBVIOUS
<1> USE DEF IInv, TypeOK, LockHolders, Queues, Parallel, SentWithOwnSize, Promise,
            EmptyDequeueNeedsReset
<1>1. ASSUME NEW p \in Packet, AddPacket(p) PROVE Rest'
  BY <1>1, SizesAppend, AppendProperties DEF AddPacket, writerVars
<1>2. CASE AddSize
  BY <1>2 DEF AddSize, writerVars
<1>3. CASE AddNotify
  BY <1>3 DEF AddNotify, WakeOne
<1>4. CASE WriterStart \/ WriterQuit \/ LoopTop \/ CallRemove \/ GoRound
  BY <1>4 DEF WriterStart, WriterQuit, LoopTop, CallRemove, GoRound, readerVars
<1>5. CASE TestEmpty
  <2>1. Len(sizeFIFO) # 0 /\ FIFO = << >> => gpc = "clearSize"
    <3>1. Append(sizeFIFO, SizeOf[rpkt]) # << >>
      BY SizeFacts, AppendProperties
    <3>2. wpc # "takeSize"
      BY <1>5 DEF TestEmpty
    <3>3. Len(<< >>) = 0
      OBVIOUS
    <3>4. Len(sizeFIFO) # 0 => sizeFIFO # << >>
      BY <3>3
    <3>5. FIFO = << >> => Sizes(FIFO) = << >>
      BY SizesEmpty
    <3>6. QED BY <3>1, <3>2, <3>4, <3>5 DEF Thread
  <2>2. LockHolders' /\ Queues'
    BY <1>5 DEF TestEmpty, readerVars, Sizes
  <2>3. SentWithOwnSize' /\ EmptyDequeueNeedsReset' /\ Promise'
    BY <1>5, <2>1 DEF TestEmpty, readerVars
  <2>4. QED BY <2>2, <2>3
<1>6. CASE Wait \/ Awake
  BY <1>6 DEF Wait, Awake, readerVars
<1>7. CASE Take
  BY <1>7, SizesTail, SizesEmpty DEF Take, readerVars
<1>8. CASE TakeSize
  BY <1>8 DEF TakeSize, readerVars
<1>9. CASE Send \/ ExitOnZero
  BY <1>9 DEF Send, ExitOnZero, readerVars
<1>10. CASE ResetClear
  BY <1>10 DEF ResetClear, readerVars, writerVars
<1>11. CASE ResetClearSize
  BY <1>11, SizesEmpty DEF ResetClearSize, readerVars, writerVars
<1>12. CASE ResetNotify
  BY <1>12 DEF ResetNotify, WakeOne, readerVars
<1>13. CASE UNCHANGED vars
  BY <1>13 DEF vars, readerVars, writerVars, Sizes
<1>14. QED
  BY <1>1, <1>2, <1>3, <1>4, <1>5, <1>6, <1>7, <1>8, <1>9, <1>10, <1>11,
     <1>12, <1>13 DEF Next, ReaderStep, WriterStep, GuiStep

(* The inductive invariant holds in every reachable state.                 *)
THEOREM Inductive == Spec => []IInv
<1>1. IInv /\ [Next]_vars => IInv'
  BY StepKeepsTypes, StepKeepsQueues DEF IInv
<1>2. QED BY InitEstablishes, <1>1, PTL DEF Spec

(* Every variable keeps to its type, whatever the packets and the backlog. *)
THEOREM TypeCorrect == Spec => []TypeOK
<1>1. IInv => TypeOK
  BY DEF IInv
<1>2. QED BY Inductive, <1>1, PTL

(* The two queues of a Buffer are parallel whenever its mutex is free.     *)
THEOREM QueuesParallel == Spec => []Parallel
<1>1. IInv => Parallel
  BY DEF IInv, Queues
<1>2. QED BY Inductive, <1>1, PTL

(* Every packet goes out with its own captured length.                     *)
THEOREM OwnSize == Spec => []SentWithOwnSize
<1>1. IInv => SentWithOwnSize
  BY DEF IInv
<1>2. QED BY Inductive, <1>1, PTL

(* Without a reset between its test and its dequeue, the writer never      *)
(* dequeues from an empty buffer.                                          *)
THEOREM EmptyDequeue == Spec => []EmptyDequeueNeedsReset
<1>1. IInv => EmptyDequeueNeedsReset
  BY DEF IInv
<1>2. QED BY Inductive, <1>1, PTL

-----------------------------------------------------------------------------
(* The initial buffer is the empty channel.                                *)
LEMMA ChannelStart == Init => Channel!ChannelInit
BY ConcatEmptySeq DEF Init, Hand, Channel!ChannelInit, NoFrame

(* A packet at the end of the buffer is one at the end of the channel.     *)
LEMMA AppendToConcat ==
  ASSUME NEW S, NEW s \in Seq(S), NEW t \in Seq(S), NEW x \in S
  PROVE  s \o Append(t, x) = Append(s \o t, x)
OBVIOUS

(* Every step of the threads is a step of the channel or invisible there.  *)
LEMMA ChannelStep ==
  IInv /\ [Next]_vars => [Channel!ChannelNext]_(Channel!channelVars)
<1> DEFINE Queue == Hand \o FIFO
           Goal == [Channel!ChannelNext]_(Channel!channelVars)
<1> SUFFICES ASSUME IInv, [Next]_vars PROVE Goal
  OBVIOUS
<1> USE DEF IInv, TypeOK
<1>0. Hand \in Seq(Packet)
  BY DEF Hand
<1>1. ASSUME NEW p \in Packet, AddPacket(p) PROVE Goal
  <2>1. FIFO' = Append(FIFO, p) /\ Hand' = Hand /\ wire' = wire
    BY <1>1 DEF AddPacket, Hand, writerVars
  <2>2. Hand \o Append(FIFO, p) = Append(Queue, p)
    BY <1>0, AppendToConcat
  <2>3. Channel!Accept(p)
    BY <2>1, <2>2 DEF Channel!Accept
  <2>4. QED BY <2>3 DEF Channel!ChannelNext
<1>2. CASE AddSize \/ AddNotify \/ ResetClearSize \/ ResetNotify
  <2>1. Hand' = Hand /\ FIFO' = FIFO /\ wire' = wire
    BY <1>2 DEF AddSize, AddNotify, ResetClearSize, ResetNotify, WakeOne, Hand, writerVars
  <2>2. QED BY <2>1 DEF Channel!channelVars
<1>3. CASE \/ WriterStart \/ WriterQuit \/ LoopTop \/ CallRemove \/ GoRound
           \/ TestEmpty \/ Wait \/ Awake \/ ExitOnZero
  <2>1. Hand' = Hand /\ FIFO' = FIFO /\ wire' = wire
    BY <1>3 DEF WriterStart, WriterQuit, LoopTop, CallRemove, GoRound, TestEmpty, Wait, Awake,
                ExitOnZero, Hand
  <2>2. QED BY <2>1 DEF Channel!channelVars
<1>4. CASE Take
  <2>1. Hand = << >> /\ wire' = wire
    BY <1>4 DEF Take, Hand
  <2>2. CASE FIFO # << >>
    <3>1. Hand' = <<Head(FIFO)>> /\ FIFO' = Tail(FIFO)
      BY <1>4, <2>2 DEF Take, Hand
    <3>2. <<Head(FIFO)>> \o Tail(FIFO) = FIFO /\ << >> \o FIFO = FIFO
      BY <2>2, ConcatEmptySeq, HeadTailProperties
    <3>3. QED BY <2>1, <3>1, <3>2 DEF Channel!channelVars
  <2>3. CASE FIFO = << >>
    <3>1. Hand' = Hand /\ FIFO' = FIFO
      BY <1>4, <2>3 DEF Take, Hand
    <3>2. QED BY <2>1, <3>1 DEF Channel!channelVars
  <2>4. QED BY <2>2, <2>3
<1>5. CASE TakeSize
  <2>1. Hand' = Hand /\ FIFO' = FIFO /\ wire' = wire
    BY <1>5 DEF TakeSize, Hand, LockHolders, Queues
  <2>2. QED BY <2>1 DEF Channel!channelVars
<1>6. CASE Send
  <2>1. Hand = <<wpkt>> /\ Hand' = << >> /\ FIFO' = FIFO /\ wsize = SizeOf[wpkt]
    BY <1>6 DEF Send, Hand, SentWithOwnSize
  <2>2. Queue # << >> /\ Head(Queue) = wpkt /\ Tail(Queue) = FIFO
    BY <2>1
  <2>3. Queue' = Tail(Queue)
    BY <2>1, <2>2, ConcatEmptySeq
  <2>4. wire' = [frame |-> Channel!Frame(Head(Queue)), bit |-> 1 - wire.bit]
    BY <1>6, <2>1, <2>2 DEF Send, Channel!Frame
  <2>5. Channel!Transmit
    BY <2>2, <2>3, <2>4 DEF Channel!Transmit
  <2>6. QED BY <2>5 DEF Channel!ChannelNext
<1>7. CASE ResetClear
  <2>1. Hand' = Hand /\ FIFO' = << >> /\ wire' = wire
    BY <1>7 DEF ResetClear, writerVars, Hand
  <2>2. Queue' = Hand
    BY <1>0, <2>1, ConcatEmptySeq
  <2>3. Hand # << >> => Queue # << >> /\ Hand = <<Head(Queue)>>
    BY DEF Hand
  <2>4. Channel!Flush
    BY <2>1, <2>2, <2>3 DEF Channel!Flush
  <2>5. QED BY <2>4 DEF Channel!ChannelNext
<1>8. CASE UNCHANGED vars
  BY <1>8 DEF vars, writerVars, Hand, Channel!channelVars
<1>9. QED
  BY <1>1, <1>2, <1>3, <1>4, <1>5, <1>6, <1>7, <1>8
     DEF Next, ReaderStep, WriterStep, GuiStep

(* The buffer and its three threads implement the FIFO channel: packets    *)
(* leave in order, once, with their lengths, and only a reset drops any.   *)
THEOREM Implements == Spec => ImplementsChannel
<1>1. QED BY ChannelStart, ChannelStep, Inductive, PTL
             DEF Spec, ImplementsChannel, Channel!ChannelSpec
=============================================================================

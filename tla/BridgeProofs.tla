---------------------------- MODULE BridgeProofs ----------------------------
(***************************************************************************)
(* The safety of Start and Stop for every number of links, of sessions and *)
(* of queued packets: what is left of a session when Stop is through, and  *)
(* of the last one when Start is, and who serves the new one.              *)
(***************************************************************************)
EXTENDS Bridge, TLAPS

(* The GUI thread's positions in Start up to the last writer, and the      *)
(* links whose threads it has still to come to.  A link comes back to a    *)
(* position only for its two joins.                                        *)
StartingThreads == gui \in {"startReader", "stopWriter", "joinWriter"}
Ahead(l) == StartingThreads /\ l >= at

(* Nothing runs before the first click on Start.                           *)
SessionRuns ==
  session = 0 => gui = "idle" /\ ~started /\ \A l \in Link : reader[l] = "off"

(* Start is under way only after a click on it.                            *)
StartClicked ==
  StartingThreads \/ gui \in {"startMonitor", "enableMonitor", "setFrequency"} => started

(* Stop is under way only after a click on it.                             *)
StopClicked ==
  gui \in {"joinMonitor", "stopReader", "joinReader", "resetClear", "resetNotify"} => ~started

(* The monitor is off from its join to its next start.                     *)
MonitorEnds ==
  \/ gui \in {"stopReader", "joinReader", "resetClear", "resetNotify", "startMonitor"}
  \/ StartingThreads
  \/ Stopped
  => monitor = "off"

(* So is a reader, and Stop joins them link by link.                       *)
ReaderEnds(l) ==
  /\ gui \in {"stopReader", "joinReader"} /\ l < at => reader[l] = "off"
  /\ gui \in {"resetClear", "resetNotify"} \/ Stopped => reader[l] = "off"
  /\ gui = "startReader" /\ l >= at => reader[l] = "off"
  /\ gui \in {"stopWriter", "joinWriter"} /\ l > at => reader[l] = "off"

(* The buffers are emptied link by link, when no reader fills them.        *)
QueueEmptied(l) ==
  /\ gui = "resetClear" /\ l < at => queue[l] = << >>
  /\ gui = "resetNotify" /\ l <= at => queue[l] = << >>
  /\ Stopped => queue[l] = << >>
  /\ gui = "startReader" /\ l >= at => queue[l] = << >>
  /\ gui \in {"stopWriter", "joinWriter"} /\ l > at => queue[l] = << >>

(* What is queued is of this session, and so is what a writer holds, up to *)
(* the join of the writer in the next Start.                               *)
QueueFresh(l) == \A i \in 1 .. Len(queue[l]) : queue[l][i] = session
HandFresh(l) == writer[l] = "send" => hand[l] = session \/ Ahead(l)

(* A reader about to notify has queued a packet, which the writer may have *)
(* taken already.                                                          *)
Fed(l) == queue[l] # << >> \/ hand[l] = session
NotifyFed(l) == reader[l] = "notify" => Fed(l)

(* The writer that this session has started on a link: only a notification *)
(* of this session wakes it, and nobody tells it to quit.                  *)
Serving(l) ==
  started /\ ~Ahead(l) =>
    /\ IF gaveUp[l] THEN writer[l] = "off" /\ hand[l] = session
                    ELSE writer[l] # "off" /\ ~writerQuit[l]
    /\ writer[l] = "awake" => Fed(l)
    /\ writer[l] = "gotZero" => hand[l] = session

LinkInv(l) ==
  /\ ReaderEnds(l) /\ QueueEmptied(l) /\ QueueFresh(l) /\ HandFresh(l)
  /\ NotifyFed(l) /\ Serving(l)

IInv ==
  /\ TypeOK /\ SessionRuns /\ StartClicked /\ StopClicked /\ MonitorEnds
  /\ \A l \in Link : LinkInv(l)

-----------------------------------------------------------------------------
(* The invariant is what the runs check.                                   *)
LEMMA IInvImplies ==
  IInv => NoStalePacket /\ StopIsComplete /\ WritersServe
<1> SUFFICES ASSUME IInv PROVE NoStalePacket /\ StopIsComplete /\ WritersServe
  OBVIOUS
<1>1. NoStalePacket
  BY DEF IInv, LinkInv, QueueFresh, HandFresh, Ahead, StartingThreads, NoStalePacket, Bridging
<1>2. StopIsComplete
  BY DEF IInv, LinkInv, MonitorEnds, ReaderEnds, QueueEmptied, StopIsComplete, Stopped
<1>3. WritersServe
  BY DEF IInv, LinkInv, Serving, Ahead, StartingThreads, WritersServe, Bridging
<1> QED BY <1>1, <1>2, <1>3

(* Nothing runs and nothing is queued at the start.                        *)
LEMMA BridgeInit ==
  Init => IInv
<1> SUFFICES ASSUME Init PROVE IInv
  OBVIOUS
<1>1. TypeOK
  <2>1. at \in Link /\ session \in 0 .. MaxSessions /\ 0 \in 0 .. MaxSessions
    BY LinksAssumption, BoundsAssumption DEF Init, Link
  <2>2. queue \in [Link -> Seq(1 .. MaxSessions)]
    BY DEF Init
  <2> QED BY <2>1, <2>2 DEF Init, TypeOK
<1>2. SessionRuns /\ StartClicked /\ StopClicked /\ MonitorEnds
  BY DEF Init, SessionRuns, StartClicked, StartingThreads, Stopped, StopClicked, MonitorEnds
<1>3. ASSUME NEW l \in Link PROVE LinkInv(l)
  BY <1>3 DEF Init, LinkInv, ReaderEnds, QueueEmptied, QueueFresh, HandFresh,
              StartingThreads, NotifyFed, Serving
<1> QED BY <1>1, <1>2, <1>3 DEF IInv

-----------------------------------------------------------------------------
(* The threads of a link.  They move the reader and the writer, and only   *)
(* an active reader adds to a queue.                                       *)
USE DEF guiVars, readerVars, writerVars, monitorVars, Wake

(* A reader queues nothing but its session's number.                       *)
LEMMA ReaderTypes ==
  ASSUME TypeOK, SessionRuns, NEW l \in Link, ReaderStep(l) \/ CaptureFails(l)
  PROVE  TypeOK'
<1>1. CASE ReaderTest(l)
  BY <1>1 DEF ReaderTest, TypeOK
<1>2. CASE CaptureNothing(l)
  BY <1>2 DEF CaptureNothing, TypeOK
<1>3. CASE CaptureFails(l)
  BY <1>3 DEF CaptureFails, TypeOK
<1>4. CASE Capture(l)
  <2>1. session \in 1 .. MaxSessions
    BY <1>4, BoundsAssumption DEF Capture, SessionRuns, TypeOK
  <2>2. queue' \in [Link -> Seq(1 .. MaxSessions)]
    BY <1>4, <2>1 DEF Capture, TypeOK
  <2> QED BY <1>4, <2>2 DEF Capture, TypeOK
<1>5. CASE Notify(l)
  BY <1>5 DEF Notify, TypeOK
<1> QED BY <1>1, <1>2, <1>3, <1>4, <1>5 DEF ReaderStep

(* A writer takes what was queued.                                         *)
LEMMA WriterTypes ==
  ASSUME TypeOK, NEW l \in Link, WriterStep(l)
  PROVE  TypeOK'
<1>1. CASE WriterLoop(l) \/ TestEmpty(l) \/ Wait(l) \/ Awake(l) \/ TakeEmpty(l) \/ Send(l)
  <2>1. ASSUME NEW from, NEW to \in {"off", "loop", "test", "wait", "asleep", "gotZero",
                                     "take", "undefined"}, Move(l, from, to)
        PROVE  TypeOK'
    BY <2>1 DEF Move, TypeOK
  <2> QED BY <1>1, <2>1 DEF WriterLoop, TestEmpty, Wait, Awake, TakeEmpty, Send
<1>2. CASE Take(l)
  <2>1. Head(queue[l]) \in 0 .. MaxSessions /\ Tail(queue[l]) \in Seq(1 .. MaxSessions)
    BY <1>2, BoundsAssumption DEF Take, TypeOK
  <2> QED BY <1>2, <2>1 DEF Take, TypeOK
<1>3. CASE ExitOnZero(l)
  BY <1>3 DEF ExitOnZero, TypeOK
<1> QED BY <1>1, <1>2, <1>3 DEF WriterStep

(* The monitor changes its own state only.                                 *)
LEMMA MonitorTypes ==
  ASSUME TypeOK, MonitorStep
  PROVE  TypeOK'
BY DEF MonitorStep, MonitorTest, MonitorPoll, MonitorWakes, TypeOK

(* Stop moves within the links there are.                                  *)
LEMMA StopTypes ==
  ASSUME TypeOK, StopStep \/ ClickStop
  PROVE  TypeOK'
<1>1. 1 \in Link /\ (at < Links => at + 1 \in Link)
  BY LinksAssumption DEF TypeOK, Link
<1> USE DEF Go, NextLink
<1>2. CASE ClickStop
  BY <1>1, <1>2 DEF ClickStop, TypeOK
<1>3. CASE JoinMonitor
  BY <1>1, <1>3 DEF JoinMonitor, TypeOK
<1>4. CASE StopReader
  BY <1>4 DEF StopReader, TypeOK
<1>5. CASE JoinReader
  BY <1>1, <1>5 DEF JoinReader, TypeOK
<1>6. CASE ResetClear
  BY <1>6 DEF ResetClear, TypeOK
<1>7. CASE ResetNotify
  BY <1>1, <1>7 DEF ResetNotify, TypeOK
<1> QED BY <1>2, <1>3, <1>4, <1>5, <1>6, <1>7 DEF StopStep

(* Start moves within the links there are.                                 *)
LEMMA StartTypes ==
  ASSUME TypeOK, StartStep \/ ClickStart
  PROVE  TypeOK'
<1>1. 1 \in Link /\ (at < Links => at + 1 \in Link)
  BY LinksAssumption DEF TypeOK, Link
<1> USE DEF Go, NextLink
<1>2. CASE ClickStart
  <2>1. session' \in 0 .. MaxSessions
    BY <1>2, BoundsAssumption DEF ClickStart, TypeOK
  <2> QED BY <1>1, <1>2, <2>1 DEF ClickStart, TypeOK
<1>3. CASE StartReader
  BY <1>3 DEF StartReader, TypeOK
<1>4. CASE StopWriter
  BY <1>4 DEF StopWriter, TypeOK
<1>5. CASE StartWriter
  BY <1>1, <1>5 DEF StartWriter, TypeOK
<1>6. CASE StartMonitor
  BY <1>1, <1>6 DEF StartMonitor, TypeOK
<1>7. CASE EnableMonitor \/ SetFrequency
  BY <1>1, <1>7 DEF EnableMonitor, SetFrequency, TypeOK
<1> QED BY <1>2, <1>3, <1>4, <1>5, <1>6, <1>7 DEF StartStep

-----------------------------------------------------------------------------
(* What a step of a link's threads, and of the monitor, leaves true.       *)

(* An active reader only adds packets of this session, and wakes.          *)
LEMMA ReaderKeeps ==
  ASSUME IInv, NEW l \in Link, ReaderStep(l) \/ CaptureFails(l)
  PROVE  IInv'
<1>1. TypeOK'
  BY ReaderTypes DEF IInv
<1>2. /\ reader[l] # "off"
      /\ \A k \in Link \ {l} : reader'[k] = reader[k]
      /\ UNCHANGED <<guiVars, monitorVars, writerQuit, hand, gaveUp>>
      /\ \A k \in Link : writer'[k] = writer[k] \/ (writer[k] = "asleep" /\ writer'[k] = "awake")
  BY DEF ReaderStep, ReaderTest, CaptureNothing, CaptureFails, Capture, Notify, IInv, TypeOK
<1>3. /\ \A k \in Link \ {l} : queue'[k] = queue[k]
      /\ queue'[l] = queue[l] \/ queue'[l] = Append(queue[l], session)
  BY DEF ReaderStep, ReaderTest, CaptureNothing, CaptureFails, Capture, Notify, IInv, TypeOK
<1>4. /\ reader'[l] = "notify" => queue'[l] # << >>
      /\ \A k \in Link : writer'[k] # writer[k] => reader[k] = "notify"
  <2>1. CASE Capture(l)
    <3>1. queue[l] \in Seq(1 .. MaxSessions) /\ session \in 1 .. MaxSessions
      BY <1>2, BoundsAssumption DEF IInv, SessionRuns, TypeOK
    <3> QED BY <2>1, <3>1 DEF Capture, IInv, TypeOK
  <2>2. CASE ReaderTest(l) \/ CaptureNothing(l) \/ CaptureFails(l) \/ Notify(l)
    BY <2>2 DEF ReaderTest, CaptureNothing, CaptureFails, Notify, IInv, TypeOK
  <2> QED BY <2>1, <2>2 DEF ReaderStep
<1>5. SessionRuns' /\ StartClicked' /\ StopClicked' /\ MonitorEnds'
  BY <1>2 DEF IInv, SessionRuns, StartClicked, StopClicked, MonitorEnds, StartingThreads, Stopped
<1>6. ASSUME NEW k \in Link PROVE LinkInv(k)'
  <2>1. LinkInv(k)
    BY DEF IInv
  <2>2. ReaderEnds(k)' /\ QueueEmptied(k)'
    BY <1>2, <1>3, <2>1 DEF LinkInv, ReaderEnds, QueueEmptied, Stopped
  <2>3. QueueFresh(k)'
    <3>1. queue[k] \in Seq(1 .. MaxSessions) /\ session' = session
      BY <1>2 DEF IInv, TypeOK
    <3> QED BY <1>3, <2>1, <3>1 DEF LinkInv, QueueFresh
  <2>4. HandFresh(k)'
    BY <1>2, <2>1 DEF LinkInv, HandFresh, Ahead, StartingThreads
  <2>5. Fed(k) => Fed(k)'
    <3>1. queue[k] \in Seq(1 .. MaxSessions) /\ session \in 1 .. MaxSessions
      BY <1>2, BoundsAssumption DEF IInv, SessionRuns, TypeOK
    <3> QED BY <1>2, <1>3, <3>1 DEF Fed
  <2>6. NotifyFed(k)'
    BY <1>2, <1>4, <2>1, <2>5 DEF LinkInv, NotifyFed, Fed
  <2>7. Serving(k)'
    BY <1>2, <1>4, <2>1, <2>5 DEF LinkInv, NotifyFed, Serving, Ahead, StartingThreads
  <2> QED BY <2>2, <2>3, <2>4, <2>6, <2>7 DEF LinkInv
<1> QED BY <1>1, <1>5, <1>6 DEF IInv

(* A running writer takes packets of this session, and ends if it quits.   *)
LEMMA WriterKeeps ==
  ASSUME IInv, NEW l \in Link, WriterStep(l)
  PROVE  IInv'
<1>1. TypeOK'
  BY WriterTypes DEF IInv
<1>2. /\ writer[l] # "off"
      /\ \A k \in Link \ {l} : /\ writer'[k] = writer[k] /\ hand'[k] = hand[k]
                               /\ writerQuit'[k] = writerQuit[k] /\ gaveUp'[k] = gaveUp[k]
      /\ UNCHANGED <<guiVars, monitorVars, readerVars>>
  BY DEF WriterStep, WriterLoop, TestEmpty, Wait, Awake, Take, TakeEmpty, Send, ExitOnZero,
         Move, IInv, TypeOK
<1>3. /\ \A k \in Link \ {l} : queue'[k] = queue[k]
      /\ \/ queue'[l] = queue[l] /\ writer'[l] # "send"
            /\ hand'[l] = hand[l]
         \/ /\ queue[l] # << >>
            /\ queue'[l] = Tail(queue[l]) /\ hand'[l] = Head(queue[l])
  BY DEF WriterStep, WriterLoop, TestEmpty, Wait, Awake, Take, TakeEmpty, Send, ExitOnZero,
         Move, IInv, TypeOK
<1>4. SessionRuns' /\ StartClicked' /\ StopClicked' /\ MonitorEnds'
  BY <1>2 DEF IInv, SessionRuns, StartClicked, StopClicked, MonitorEnds, StartingThreads, Stopped
<1>5. ASSUME NEW k \in Link PROVE LinkInv(k)'
  <2>1. LinkInv(k)
    BY DEF IInv
  <2>2. ReaderEnds(k)' /\ QueueEmptied(k)'
    BY <1>2, <1>3, <2>1 DEF LinkInv, ReaderEnds, QueueEmptied, Stopped
  <2>3. QueueFresh(k)' /\ HandFresh(k)'
    <3>1. queue[k] \in Seq(1 .. MaxSessions) /\ session' = session
      BY <1>2 DEF IInv, TypeOK
    <3>2. queue[k] # << >> => Head(queue[k]) = session
      BY <2>1, <3>1 DEF LinkInv, QueueFresh
    <3>3. QueueFresh(k)'
      <4>1. queue[k] # << >> =>
              \A i \in 1 .. Len(Tail(queue[k])) : Tail(queue[k])[i] = session
        BY <2>1, <3>1 DEF LinkInv, QueueFresh
      <4> QED BY <1>3, <2>1, <3>1, <4>1 DEF LinkInv, QueueFresh
    <3>4. HandFresh(k)'
      BY <1>2, <1>3, <2>1, <3>2 DEF LinkInv, HandFresh, Ahead, StartingThreads
    <3> QED BY <3>3, <3>4
  <2>4. Fed(k) => Fed(k)'
    <3>1. queue[k] \in Seq(1 .. MaxSessions) /\ session' = session
      BY <1>2 DEF IInv, TypeOK
    <3>2. queue[k] # << >> => Head(queue[k]) = session
      BY <2>1, <3>1 DEF LinkInv, QueueFresh
    <3> QED BY <1>2, <1>3, <3>1, <3>2 DEF Fed
  <2>5. NotifyFed(k)'
    BY <1>2, <2>1, <2>4 DEF LinkInv, NotifyFed
  <2>6. Serving(k)'
    <3>1. CASE k # l
      BY <1>2, <1>3, <2>1, <3>1 DEF LinkInv, Serving, Fed, Ahead, StartingThreads
    <3>2. CASE k = l /\ started /\ ~Ahead(l)
      <4>1. ~gaveUp[l] /\ ~writerQuit[l] /\ (Ahead(l)' <=> Ahead(l))
        BY <1>2, <2>1, <3>2 DEF LinkInv, Serving, Ahead, StartingThreads
      <4>2. CASE WriterLoop(l) \/ TestEmpty(l) \/ Wait(l) \/ TakeEmpty(l) \/ Send(l)
        BY <4>1, <4>2, <3>2 DEF WriterLoop, TestEmpty, Wait, TakeEmpty, Send, Move, Serving,
                                IInv, TypeOK
      <4>3. CASE Awake(l)
        BY <2>1, <4>1, <4>3, <3>2 DEF Awake, Move, LinkInv, Serving, Fed, IInv, TypeOK
      <4>4. CASE Take(l)
        BY <4>1, <4>4, <3>2 DEF Take, Serving, IInv, TypeOK
      <4>5. CASE ExitOnZero(l)
        BY <2>1, <4>1, <4>5, <3>2 DEF ExitOnZero, LinkInv, Serving, IInv, TypeOK
      <4> QED BY <4>2, <4>3, <4>4, <4>5 DEF WriterStep
    <3>3. CASE ~(started /\ ~Ahead(k))
      BY <1>2, <3>3 DEF Serving, Ahead, StartingThreads
    <3> QED BY <3>1, <3>2, <3>3
  <2> QED BY <2>2, <2>3, <2>5, <2>6 DEF LinkInv
<1> QED BY <1>1, <1>4, <1>5 DEF IInv

(* The monitor never starts itself.                                        *)
LEMMA MonitorKeeps ==
  ASSUME IInv, MonitorStep
  PROVE  IInv'
<1>1. /\ monitor # "off"
      /\ UNCHANGED <<guiVars, readerVars, writerVars, queue>>
  BY DEF MonitorStep, MonitorTest, MonitorPoll, MonitorWakes
<1>2. TypeOK'
  BY MonitorTypes DEF IInv
<1>3. SessionRuns' /\ StartClicked' /\ StopClicked' /\ MonitorEnds'
  BY <1>1 DEF IInv, SessionRuns, StartClicked, StopClicked, MonitorEnds, StartingThreads, Stopped
<1>4. ASSUME NEW k \in Link PROVE LinkInv(k)'
  BY <1>1 DEF IInv, LinkInv, ReaderEnds, QueueEmptied, QueueFresh, HandFresh, Ahead,
              StartingThreads, Stopped, NotifyFed, Serving, Fed
<1> QED BY <1>2, <1>3, <1>4 DEF IInv

-----------------------------------------------------------------------------
(* The GUI thread.  Each of its steps moves it on, and does one thing to   *)
(* the link it is at.                                                      *)
LEMMA StopKeeps ==
  ASSUME IInv, StopStep \/ ClickStop
  PROVE  IInv'
<1>1. TypeOK'
  BY StopTypes DEF IInv
<1>2. /\ at \in 1 .. Links /\ Links \in Nat
      /\ \A l \in Link : l \in 1 .. Links /\ l # at => l < at \/ l > at
  BY LinksAssumption DEF IInv, TypeOK, Link
<1> USE DEF Go, NextLink, StartingThreads
<1>3. SessionRuns' /\ StartClicked'
  BY DEF StopStep, ClickStop, JoinMonitor, StopReader, JoinReader, ResetClear, ResetNotify,
         IInv, SessionRuns, StartClicked
<1>4. StopClicked' /\ ~started'
  BY DEF StopStep, ClickStop, JoinMonitor, StopReader, JoinReader, ResetClear, ResetNotify,
         IInv, StopClicked
<1>5. MonitorEnds'
  BY DEF StopStep, ClickStop, JoinMonitor, StopReader, JoinReader, ResetClear, ResetNotify,
         IInv, MonitorEnds, Stopped
<1>6. ASSUME NEW l \in Link PROVE LinkInv(l)'
  <2>1. LinkInv(l) /\ l \in 1 .. Links
    BY DEF IInv, Link
  <2>2. ReaderEnds(l)'
    <3>1. CASE ClickStop \/ JoinMonitor
      BY <1>2, <2>1, <3>1 DEF ClickStop, JoinMonitor, LinkInv, ReaderEnds, Stopped
    <3>2. CASE StopReader
      BY <1>2, <2>1, <3>2 DEF StopReader, LinkInv, ReaderEnds, Stopped
    <3>3. CASE JoinReader
      BY <1>2, <2>1, <3>3 DEF JoinReader, LinkInv, ReaderEnds, Stopped
    <3>4. CASE ResetClear \/ ResetNotify
      BY <1>2, <2>1, <3>4 DEF ResetClear, ResetNotify, LinkInv, ReaderEnds, Stopped
    <3> QED BY <3>1, <3>2, <3>3, <3>4 DEF StopStep
  <2>3. QueueEmptied(l)'
    <3>1. CASE ClickStop \/ JoinMonitor \/ StopReader \/ JoinReader
      BY <1>2, <2>1, <3>1 DEF ClickStop, JoinMonitor, StopReader, JoinReader, LinkInv,
                              QueueEmptied, Stopped
    <3>2. CASE ResetClear
      BY <1>2, <2>1, <3>2 DEF ResetClear, LinkInv, QueueEmptied, Stopped, IInv, TypeOK
    <3>3. CASE ResetNotify
      BY <1>2, <2>1, <3>3 DEF ResetNotify, LinkInv, QueueEmptied, Stopped
    <3> QED BY <3>1, <3>2, <3>3 DEF StopStep
  <2>4. QueueFresh(l)'
    BY <2>1 DEF StopStep, ClickStop, JoinMonitor, StopReader, JoinReader, ResetClear,
                ResetNotify, LinkInv, QueueFresh, IInv, TypeOK
  <2>5. HandFresh(l)'
    BY <2>1 DEF StopStep, ClickStop, JoinMonitor, StopReader, JoinReader, ResetClear,
                ResetNotify, LinkInv, HandFresh, Ahead, IInv, TypeOK
  <2>6. NotifyFed(l)'
    <3>1. CASE ClickStop \/ JoinMonitor \/ StopReader \/ JoinReader \/ ResetNotify
      BY <2>1, <3>1 DEF ClickStop, JoinMonitor, StopReader, JoinReader, ResetNotify, LinkInv,
                        NotifyFed, Fed
    <3>2. CASE ResetClear
      BY <2>1, <3>2 DEF ResetClear, LinkInv, ReaderEnds, NotifyFed
    <3> QED BY <3>1, <3>2 DEF StopStep
  <2>7. Serving(l)'
    BY <1>4 DEF Serving
  <2> QED BY <2>2, <2>3, <2>4, <2>5, <2>6, <2>7 DEF LinkInv
<1> QED BY <1>1, <1>3, <1>4, <1>5, <1>6 DEF IInv

(* What Start has not come to is as Stop left it.                          *)
LEMMA StartKeeps ==
  ASSUME IInv, StartStep \/ ClickStart
  PROVE  IInv'
<1>1. TypeOK'
  BY StartTypes DEF IInv
<1>2. at \in 1 .. Links /\ Links \in Nat
  BY LinksAssumption DEF IInv, TypeOK, Link
<1> USE DEF Go, NextLink, StartingThreads
<1>3. SessionRuns' /\ StartClicked'
  <2>1. session \in Nat
    BY BoundsAssumption DEF IInv, TypeOK
  <2> QED BY <2>1 DEF StartStep, ClickStart, StartReader, StopWriter, StartWriter, StartMonitor,
                      EnableMonitor, SetFrequency, IInv, SessionRuns,
                      StartClicked
<1>4. StopClicked'
  BY DEF StartStep, ClickStart, StartReader, StopWriter, StartWriter, StartMonitor,
         EnableMonitor, SetFrequency, IInv, StopClicked
<1>5. MonitorEnds'
  BY DEF StartStep, ClickStart, StartReader, StopWriter, StartWriter, StartMonitor,
         EnableMonitor, SetFrequency, IInv, MonitorEnds, Stopped, StartClicked
<1>6. ASSUME NEW l \in Link PROVE LinkInv(l)'
  <2>1. LinkInv(l) /\ l \in 1 .. Links
    BY DEF IInv, Link
  <2>2. ReaderEnds(l)' /\ QueueEmptied(l)'
    <3>1. CASE ClickStart
      BY <1>2, <2>1, <3>1 DEF ClickStart, LinkInv, ReaderEnds, QueueEmptied, Stopped
    <3>2. CASE StartReader
      BY <1>2, <2>1, <3>2 DEF StartReader, LinkInv, ReaderEnds, QueueEmptied, Stopped, IInv, TypeOK
    <3>3. CASE StopWriter
      BY <1>2, <2>1, <3>3 DEF StopWriter, LinkInv, ReaderEnds, QueueEmptied, Stopped
    <3>4. CASE StartWriter
      BY <1>2, <2>1, <3>4 DEF StartWriter, LinkInv, ReaderEnds, QueueEmptied, Stopped
    <3>5. CASE StartMonitor \/ EnableMonitor \/ SetFrequency
      BY <1>2, <2>1, <3>5 DEF StartMonitor, EnableMonitor, SetFrequency, IInv, StartClicked,
                              LinkInv, ReaderEnds, QueueEmptied, Stopped
    <3> QED BY <3>1, <3>2, <3>3, <3>4, <3>5 DEF StartStep
  <2>3. QueueFresh(l)'
    BY <2>1 DEF StartStep, ClickStart, StartReader, StopWriter, StartWriter, StartMonitor,
                EnableMonitor, SetFrequency, LinkInv, QueueEmptied, QueueFresh, Stopped
  <2>4. HandFresh(l)'
    <3>1. CASE ClickStart \/ StartReader \/ StopWriter
      BY <1>2, <2>1, <3>1 DEF ClickStart, StartReader, StopWriter, LinkInv, HandFresh, Ahead
    <3>2. CASE StartWriter
      BY <1>2, <2>1, <3>2 DEF StartWriter, LinkInv, HandFresh, Ahead, IInv, TypeOK
    <3>3. CASE StartMonitor \/ EnableMonitor \/ SetFrequency
      BY <1>2, <2>1, <3>3 DEF StartMonitor, EnableMonitor, SetFrequency, LinkInv, HandFresh, Ahead
    <3> QED BY <3>1, <3>2, <3>3 DEF StartStep
  <2>5. NotifyFed(l)'
    <3>1. CASE ClickStart
      BY <2>1, <3>1 DEF ClickStart, LinkInv, ReaderEnds, Stopped, NotifyFed
    <3>2. CASE StartReader \/ StopWriter \/ StartWriter \/ StartMonitor \/ EnableMonitor
               \/ SetFrequency
      BY <2>1, <3>2 DEF StartReader, StopWriter, StartWriter, StartMonitor, EnableMonitor,
                        SetFrequency, LinkInv, NotifyFed, Fed, IInv, TypeOK
    <3> QED BY <3>1, <3>2 DEF StartStep
  <2>6. Serving(l)'
    <3>1. CASE ClickStart
      BY <1>2, <2>1, <3>1 DEF ClickStart, Serving, Ahead
    <3>2. CASE StartReader
      BY <1>2, <2>1, <3>2 DEF StartReader, LinkInv, Serving, Fed, Ahead
    <3>3. CASE StopWriter
      BY <1>2, <2>1, <3>3 DEF StopWriter, LinkInv, Serving, Fed, Ahead, IInv, TypeOK
    <3>4. CASE StartWriter
      <4>1. CASE l = at
        BY <1>2, <2>1, <3>4, <4>1 DEF StartWriter, Serving, Ahead, IInv, TypeOK
      <4>2. CASE l # at
        BY <1>2, <2>1, <3>4, <4>2 DEF StartWriter, LinkInv, Serving, Fed, Ahead, IInv, TypeOK
      <4> QED BY <4>1, <4>2
    <3>5. CASE StartMonitor \/ EnableMonitor \/ SetFrequency
      BY <2>1, <3>5 DEF StartMonitor, EnableMonitor, SetFrequency, LinkInv, Serving, Fed, Ahead
    <3> QED BY <3>1, <3>2, <3>3, <3>4, <3>5 DEF StartStep
  <2> QED BY <2>2, <2>3, <2>4, <2>5, <2>6 DEF LinkInv
<1> QED BY <1>1, <1>3, <1>4, <1>5, <1>6 DEF IInv

(* Every step keeps the invariant.                                         *)
LEMMA BridgeStep ==
  IInv /\ [Next]_vars => IInv'
<1> SUFFICES ASSUME IInv, [Next]_vars PROVE IInv'
  OBVIOUS
<1>1. CASE UNCHANGED vars
  BY <1>1 DEF vars, IInv, TypeOK, SessionRuns, StartClicked, StopClicked, MonitorEnds, LinkInv, ReaderEnds,
              QueueEmptied, QueueFresh, HandFresh, Ahead, StartingThreads, Stopped,
              NotifyFed, Serving, Fed
<1> QED BY <1>1, ReaderKeeps, WriterKeeps, MonitorKeeps, StopKeeps, StartKeeps DEF Next

(* The invariant holds of every behaviour.                                 *)
LEMMA BridgeAlways ==
  Spec => []IInv
BY BridgeInit, BridgeStep, PTL DEF Spec

-----------------------------------------------------------------------------
(* The variables keep to their types; the queues and hands hold nothing    *)
(* but numbers of sessions that were started.                              *)
THEOREM TypeCorrect ==
  Spec => []TypeOK
<1>1. IInv => TypeOK
  BY DEF IInv
<1> QED BY <1>1, BridgeAlways, PTL

(* Once Start is through no packet of an earlier session is forwarded,     *)
(* however long the writers of that session lived.                         *)
THEOREM NothingStale ==
  Spec => []NoStalePacket
BY IInvImplies, BridgeAlways, PTL

(* Once Stop is through the buffers are empty, and neither the monitor nor *)
(* a reader runs.                                                          *)
THEOREM StopComplete ==
  Spec => []StopIsComplete
BY IInvImplies, BridgeAlways, PTL

(* Once Start is through each link has a running writer that was not told  *)
(* to quit, or its writer gave up after a packet of this session.          *)
THEOREM WritersKeepServing ==
  Spec => []WritersServe
BY IInvImplies, BridgeAlways, PTL
=============================================================================

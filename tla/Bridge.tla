------------------------------- MODULE Bridge -------------------------------
(***************************************************************************)
(* Start and Stop of the emulator's bridge (NetworkEmulator, MainWindow):  *)
(* the GUI thread starts and joins two readers, two writers and a monitor, *)
(* and resets the buffers between them.  The locked sections of a Buffer   *)
(* are single steps here, which PacketBuffer justifies; what is left of    *)
(* its interleavings is the unlocked size test, the wait and the wake-up.  *)
(* A packet is represented by the session, that is the click on Start, in  *)
(* which it was captured.                                                  *)
(***************************************************************************)
EXTENDS Naturals, Sequences

CONSTANTS
  Links,        (* number of directions; the code has two                  *)
  MaxSessions,  (* bound: clicks on Start                                  *)
  Backlog       (* bound: packets queued while the writer is not asleep    *)

ASSUME LinksAssumption == Links \in Nat \ {0}
ASSUME BoundsAssumption == MaxSessions \in Nat /\ Backlog \in Nat \ {0}

VARIABLES
  gui, at,              (* GUI thread: what it is doing, and to which link *)
  started, session,     (* MainWindow::started; the number of the session  *)
  reader, readerQuit,   (* per link: position in ReaderThread::run, quit   *)
  writer, writerQuit,   (* per link: position in WriterThread::run, quit   *)
  hand,                 (* per link: the packet the writer dequeued        *)
  gaveUp,               (* history, per link: the writer started last has  *)
                        (* ended by itself                                 *)
  queue,                (* per link: the Buffer                            *)
  monitor,              (* position in MonitorThread::run                  *)
  enabled, frequency    (* its members, shared with the GUI thread         *)

guiVars == <<gui, at, started, session>>
readerVars == <<reader, readerQuit>>
writerVars == <<writer, writerQuit, hand, gaveUp>>
monitorVars == <<monitor, enabled, frequency>>
vars == <<guiVars, readerVars, writerVars, queue, monitorVars>>

Link == 1 .. Links

Init ==
  /\ gui = "idle"
  /\ at = 1
  /\ started = FALSE
  /\ session = 0
  /\ reader = [l \in Link |-> "off"]
  /\ readerQuit = [l \in Link |-> TRUE]
  /\ writer = [l \in Link |-> "off"]
  /\ writerQuit = [l \in Link |-> TRUE]
  /\ hand = [l \in Link |-> 0]
  /\ gaveUp = [l \in Link |-> FALSE]
  /\ queue = [l \in Link |-> << >>]
  /\ monitor = "off"
  /\ enabled = FALSE
  /\ frequency = "unset"

Wake(l) ==
  writer' = [writer EXCEPT ![l] = IF @ = "asleep" THEN "awake" ELSE @]

-----------------------------------------------------------------------------
(* The reader of a link: test quit, wait for a packet for at most the read *)
(* timeout, queue it if it is not dropped, notify the writer.              *)

ReaderTest(l) ==
  /\ reader[l] = "test"
  /\ reader' = [reader EXCEPT ![l] = IF readerQuit[l] THEN "off" ELSE "capture"]
  /\ UNCHANGED <<guiVars, readerQuit, writerVars, queue, monitorVars>>

(* Timeout, or a packet the loss test drops.                               *)
CaptureNothing(l) ==
  /\ reader[l] = "capture"
  /\ reader' = [reader EXCEPT ![l] = "test"]
  /\ UNCHANGED <<guiVars, readerQuit, writerVars, queue, monitorVars>>

(* pcap_next_ex reports an error and the loop ends.                        *)
CaptureFails(l) ==
  /\ reader[l] = "capture"
  /\ reader' = [reader EXCEPT ![l] = "off"]
  /\ UNCHANGED <<guiVars, readerQuit, writerVars, queue, monitorVars>>

Capture(l) ==
  /\ reader[l] = "capture"
  /\ Len(queue[l]) < Backlog \/ (writer[l] = "asleep" /\ Len(queue[l]) <= Backlog)
  /\ queue' = [queue EXCEPT ![l] = Append(@, session)]
  /\ reader' = [reader EXCEPT ![l] = "notify"]
  /\ UNCHANGED <<guiVars, readerQuit, writerVars, monitorVars>>

(* Mutant: the reader of a link notifies nobody.                           *)
NotifyNobody(l) ==
  /\ reader[l] = "notify"
  /\ reader' = [reader EXCEPT ![l] = "test"]
  /\ UNCHANGED <<guiVars, readerQuit, writerVars, queue, monitorVars>>

Notify(l) ==
  /\ reader[l] = "notify"
  /\ Wake(l)
  /\ reader' = [reader EXCEPT ![l] = "test"]
  /\ UNCHANGED <<guiVars, readerQuit, writerQuit, hand, gaveUp, queue, monitorVars>>

-----------------------------------------------------------------------------
(* The writer of a link.                                                   *)

Move(l, from, to) ==
  /\ writer[l] = from
  /\ writer' = [writer EXCEPT ![l] = to]
  /\ UNCHANGED <<guiVars, readerVars, writerQuit, hand, gaveUp, queue, monitorVars>>

(* A turn of the loop that the limiter keeps from removePacket comes back  *)
(* to reading quit, which is all that Start waits for.                     *)
WriterLoop(l) == Move(l, "loop", IF writerQuit[l] THEN "off" ELSE "test")

TestEmpty(l) == Move(l, "test", IF queue[l] = << >> THEN "wait" ELSE "take")

Wait(l) == Move(l, "wait", "asleep")

Awake(l) == Move(l, "awake", IF queue[l] = << >> THEN "gotZero" ELSE "test")

Take(l) ==
  /\ writer[l] = "take"
  /\ queue[l] # << >>
  /\ hand' = [hand EXCEPT ![l] = Head(queue[l])]
  /\ queue' = [queue EXCEPT ![l] = Tail(@)]
  /\ writer' = [writer EXCEPT ![l] = "send"]
  /\ UNCHANGED <<guiVars, readerVars, writerQuit, gaveUp, monitorVars>>

(* A reset came between the test and the dequeue: undefined from here on.  *)
TakeEmpty(l) == queue[l] = << >> /\ Move(l, "take", "undefined")

Send(l) == Move(l, "send", "loop")

ExitOnZero(l) ==
  /\ writer[l] = "gotZero"
  /\ writer' = [writer EXCEPT ![l] = "off"]
  /\ writerQuit' = [writerQuit EXCEPT ![l] = TRUE]
  /\ gaveUp' = [gaveUp EXCEPT ![l] = TRUE]
  /\ UNCHANGED <<guiVars, readerVars, hand, queue, monitorVars>>

-----------------------------------------------------------------------------
(* The monitor: while enabled, collect the statistics and sleep.           *)

MonitorTest ==
  /\ monitor = "test"
  /\ monitor' = IF enabled THEN "poll" ELSE "off"
  /\ UNCHANGED <<guiVars, readerVars, writerVars, queue, enabled, frequency>>

(* msleep(frequency): before its first assignment frequency may hold any   *)
(* number, so the first sleep may be longer than anyone waits.             *)
MonitorPoll ==
  /\ monitor = "poll"
  /\ \/ monitor' = "sleep"
     \/ frequency = "unset" /\ monitor' = "sleepForEver"
  /\ UNCHANGED <<guiVars, readerVars, writerVars, queue, enabled, frequency>>

MonitorWakes ==
  /\ monitor = "sleep"
  /\ monitor' = "test"
  /\ UNCHANGED <<guiVars, readerVars, writerVars, queue, enabled, frequency>>

-----------------------------------------------------------------------------
(* The GUI thread.  Go(to, l) is its next position.                        *)
Go(to, l) == gui' = to /\ at' = l

(* After one link the same for the next one, after the last one the rest.  *)
NextLink(again, rest) ==
  IF at < Links THEN Go(again, at + 1) ELSE Go(rest, 1)

(* Stop: the monitor is disabled and joined.                               *)
ClickStop ==
  /\ gui = "idle" /\ started
  /\ started' = FALSE
  /\ enabled' = FALSE
  /\ Go("joinMonitor", 1)
  /\ UNCHANGED <<session, readerVars, writerVars, queue, monitor, frequency>>

JoinMonitor ==
  /\ gui = "joinMonitor" /\ monitor = "off"
  /\ Go("stopReader", 1)
  /\ UNCHANGED <<started, session, readerVars, writerVars, queue, monitorVars>>

(* Mutant: Stop does not tell the readers to quit.                         *)
StopReaderSilent ==
  /\ gui = "stopReader"
  /\ Go("joinReader", at)
  /\ UNCHANGED <<started, session, readerVars, writerVars, queue, monitorVars>>

(* ReaderThread::stop: nothing for a reader that is not running.           *)
StopReader ==
  /\ gui = "stopReader"
  /\ readerQuit' = [readerQuit EXCEPT ![at] = @ \/ reader[at] # "off"]
  /\ Go("joinReader", at)
  /\ UNCHANGED <<started, session, reader, writerVars, queue, monitorVars>>

(* Mutant: Stop does not wait for the readers.                             *)
JoinReaderUnjoined ==
  /\ gui = "joinReader"
  /\ NextLink("stopReader", "resetClear")
  /\ UNCHANGED <<started, session, readerVars, writerVars, queue, monitorVars>>

JoinReader ==
  /\ gui = "joinReader" /\ reader[at] = "off"
  /\ NextLink("stopReader", "resetClear")
  /\ UNCHANGED <<started, session, readerVars, writerVars, queue, monitorVars>>

(* Mutant: reset only wakes the writer.                                    *)
ResetClearNothing ==
  /\ gui = "resetClear"
  /\ Go("resetNotify", at)
  /\ UNCHANGED <<started, session, readerVars, writerVars, queue, monitorVars>>

ResetClear ==
  /\ gui = "resetClear"
  /\ queue' = [queue EXCEPT ![at] = << >>]
  /\ Go("resetNotify", at)
  /\ UNCHANGED <<started, session, readerVars, writerVars, monitorVars>>

(* The writers are left to end by themselves: their stop() is commented    *)
(* out.                                                                    *)
ResetNotify ==
  /\ gui = "resetNotify"
  /\ Wake(at)
  /\ NextLink("resetClear", "idle")
  /\ UNCHANGED <<started, session, readerVars, writerQuit, hand, gaveUp, queue, monitorVars>>

ClickStart ==
  /\ gui = "idle" /\ ~started
  /\ session < MaxSessions
  /\ started' = TRUE
  /\ session' = session + 1
  /\ Go("startReader", 1)
  /\ UNCHANGED <<readerVars, writerVars, queue, monitorVars>>

(* Mutant: the reader starts at a point that is not in its loop.           *)
StartReaderAnew ==
  /\ gui = "startReader" /\ reader[at] = "off"
  /\ readerQuit' = [readerQuit EXCEPT ![at] = FALSE]
  /\ reader' = [reader EXCEPT ![at] = "loop"]
  /\ Go("stopWriter", at)
  /\ UNCHANGED <<started, session, writerVars, queue, monitorVars>>

(* readFromAdapter, which would first join a reader still running.         *)
StartReader ==
  /\ gui = "startReader" /\ reader[at] = "off"
  /\ readerQuit' = [readerQuit EXCEPT ![at] = FALSE]
  /\ reader' = [reader EXCEPT ![at] = "test"]
  /\ Go("stopWriter", at)
  /\ UNCHANGED <<started, session, writerVars, queue, monitorVars>>

(* writeToAdapter: a writer left over from the last session is told to     *)
(* quit, and the GUI thread waits until it does.                           *)
StopWriter ==
  /\ gui = "stopWriter"
  /\ writerQuit' = [writerQuit EXCEPT ![at] = @ \/ writer[at] # "off"]
  /\ Go("joinWriter", at)
  /\ UNCHANGED <<started, session, readerVars, writer, hand, gaveUp, queue, monitorVars>>

(* Mutant: the writer starts with the quit it was stopped with.            *)
StartWriterQuit ==
  /\ gui = "joinWriter" /\ writer[at] = "off"
  /\ writer' = [writer EXCEPT ![at] = "loop"]
  /\ gaveUp' = [gaveUp EXCEPT ![at] = FALSE]
  /\ NextLink("startReader", "startMonitor")
  /\ UNCHANGED <<started, session, readerVars, writerQuit, hand, queue, monitorVars>>

StartWriter ==
  /\ gui = "joinWriter" /\ writer[at] = "off"
  /\ writerQuit' = [writerQuit EXCEPT ![at] = FALSE]
  /\ writer' = [writer EXCEPT ![at] = "loop"]
  /\ gaveUp' = [gaveUp EXCEPT ![at] = FALSE]
  /\ NextLink("startReader", "startMonitor")
  /\ UNCHANGED <<started, session, readerVars, hand, queue, monitorVars>>

(* pollValues starts the monitor before it enables it and before it sets   *)
(* the frequency.                                                          *)
StartMonitor ==
  /\ gui = "startMonitor"
  /\ monitor' = IF monitor = "off" THEN "test" ELSE monitor
  /\ Go("enableMonitor", 1)
  /\ UNCHANGED <<started, session, readerVars, writerVars, queue, enabled, frequency>>

EnableMonitor ==
  /\ gui = "enableMonitor"
  /\ enabled' = TRUE
  /\ Go("setFrequency", 1)
  /\ UNCHANGED <<started, session, readerVars, writerVars, queue, monitor, frequency>>

SetFrequency ==
  /\ gui = "setFrequency"
  /\ frequency' = "set"
  /\ Go("idle", 1)
  /\ UNCHANGED <<started, session, readerVars, writerVars, queue, monitor, enabled>>

-----------------------------------------------------------------------------
ReaderStep(l) ==
  ReaderTest(l) \/ CaptureNothing(l) \/ Capture(l) \/ Notify(l)
WriterStep(l) ==
  \/ WriterLoop(l) \/ TestEmpty(l) \/ Wait(l) \/ Awake(l) \/ Take(l)
  \/ TakeEmpty(l) \/ Send(l) \/ ExitOnZero(l)
MonitorStep == MonitorTest \/ MonitorPoll \/ MonitorWakes
StopStep ==
  JoinMonitor \/ StopReader \/ JoinReader \/ ResetClear \/ ResetNotify
StartStep ==
  StartReader \/ StopWriter \/ StartWriter \/ StartMonitor \/ EnableMonitor \/ SetFrequency

Next ==
  /\ \A l \in Link : writer[l] # "undefined"
  /\ \/ ClickStart \/ ClickStop \/ StopStep \/ StartStep \/ MonitorStep
     \/ \E l \in Link : ReaderStep(l) \/ CaptureFails(l) \/ WriterStep(l)

Spec == Init /\ [][Next]_vars

(* The threads run when they can, and the read timeout of the adapters     *)
(* lets a reader see quit even without traffic.                            *)
ThreadsRun ==
  /\ WF_vars(StopStep) /\ WF_vars(StartStep) /\ WF_vars(MonitorStep)
  /\ \A l \in Link : WF_vars(ReaderStep(l)) /\ WF_vars(WriterStep(l))

FairSpec == Spec /\ ThreadsRun

(* Packets keep arriving at both adapters and pass the loss test.          *)
Traffic == \A l \in Link : SF_vars(Capture(l))

-----------------------------------------------------------------------------
(* Every variable keeps to its type.                                       *)
TypeOK ==
  /\ gui \in {"idle", "joinMonitor", "stopReader", "joinReader", "resetClear",
              "resetNotify", "startReader", "stopWriter", "joinWriter",
              "startMonitor", "enableMonitor", "setFrequency"}
  /\ at \in Link
  /\ started \in BOOLEAN
  /\ session \in 0 .. MaxSessions
  /\ reader \in [Link -> {"off", "test", "capture", "notify"}]
  /\ readerQuit \in [Link -> BOOLEAN]
  /\ writer \in [Link -> {"off", "loop", "test", "wait", "asleep", "awake",
                          "gotZero", "take", "send", "undefined"}]
  /\ writerQuit \in [Link -> BOOLEAN]
  /\ hand \in [Link -> 0 .. MaxSessions]
  /\ gaveUp \in [Link -> BOOLEAN]
  /\ queue \in [Link -> Seq(1 .. MaxSessions)]
  /\ monitor \in {"off", "test", "poll", "sleep", "sleepForEver"}
  /\ enabled \in BOOLEAN
  /\ frequency \in {"unset", "set"}

Bridging == started /\ gui = "idle"
Stopped == ~started /\ gui = "idle"

(* Once Start is through, no packet of an earlier session is forwarded any *)
(* more, although Stop joins no writer and a writer may keep a packet of   *)
(* that session in its hands until the next Start.                         *)
NoStalePacket ==
  Bridging =>
    \A l \in Link :
      /\ \A i \in 1 .. Len(queue[l]) : queue[l][i] = session
      /\ writer[l] = "send" => hand[l] = session

(* After Stop no packet is left in a buffer for the next session and no    *)
(* thread but a writer can still be running.                               *)
StopIsComplete ==
  Stopped =>
    /\ monitor = "off"
    /\ \A l \in Link : queue[l] = << >> /\ reader[l] = "off"

(* Once Start is through, a writer that was not told to quit is alive on   *)
(* each link.  It may have given up after a wake-up that found its buffer  *)
(* empty, and then it had taken a packet of this session: no wake-up of    *)
(* the last Stop or of an earlier session's packet ends a new writer.      *)
WritersServe ==
  Bridging =>
    \A l \in Link :
      IF gaveUp[l] THEN writer[l] = "off" /\ hand[l] = session
                   ELSE writer[l] # "off" /\ ~writerQuit[l]

(* Stop always returns, with or without traffic: unless the monitor sleeps *)
(* for an unset time, or a reset made a writer dequeue from nothing.       *)
Broken == monitor = "sleepForEver" \/ \E l \in Link : writer[l] = "undefined"
StopReturns == ~started ~> (Stopped \/ started \/ Broken)

(* Start returns as long as there is traffic on both adapters: the packets *)
(* of the new session wake the writers of the old one.                     *)
ReaderFailed == \E l \in Link : reader[l] = "off" /\ ~readerQuit[l]
StartReturns == Traffic => (started ~> (Bridging \/ Broken \/ ReaderFailed))
=============================================================================

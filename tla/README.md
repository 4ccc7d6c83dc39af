# ScalableVideo: models, model checks and proofs

ScalableVideo is three programs that are run together:

* **QT_NetEmu4**, a network emulator. It bridges two network adapters in both
  directions and, on the way, loses a given percentage of the packets, limits
  the bandwidth and shows statistics.
* **IntelligentCameraServer**, an Android application that encodes the camera's
  preview with a hardware encoder and streams it to a desktop client, with the
  picture size, frame rate and bit rate the client asks for.
* **IntelligentCameraSystem**, the desktop client. It opens a window per
  camera, asks the camera server for encoding parameters over TCP, plays the
  stream, and adapts the parameters to the bandwidth, by rules or with a
  trained classifier.

The emulator sits between the other two; the only data that passes through all
three are the datagrams of the video. The client and the server share one more
channel, the TCP connection of the requests. All paths below are relative to
`src/`; `Dustin/` holds server and client.

This directory holds TLA+ models of the parts of these programs that carry
state between threads, callbacks and processes, the TLC runs that check them,
and TLAPS proofs. `PROJECT.json` lists components, runs, theorems, the source
lines each definition stands for, the hazards of the code with the properties
aimed at them, and for every property a mutated definition that breaks it. The
mutated definitions stand in the modules right before the ones they replace,
under a comment that starts with "Mutant".

## 1. Inventory

### A. Network emulator (`QT_NetEmu4/`, C++ with Qt and WinPcap)

| Part | State | Operations | Interacts with | Hard behaviour |
|---|---|---|---|---|
| `Buffer` (buffer.cpp) | two parallel queues, packets and lengths; `mutexFIFO`; `wMutex` with the condition `bufferEmpty` | `addPacket`, `removePacket`, `reset`, `getSize` | filled by a reader thread, drained by a writer thread, reset by the GUI thread, measured by the monitor | the size is read outside the lock, the wait starts later than the test, a wake-up may come too early or too late |
| `ReaderThread` (reader_thread.cpp) | `quit`, `lossrate`, `packetCount`, statistics | capture loop, loss decision, `stop`, `setLossRate` | WinPcap, `Buffer`, GUI | a counter compared with a threshold in floating point, a rate that changes under it |
| `WriterThread` (writer_thread.cpp, PerformanceTimers.cpp) | `quit`, `bandWidthLimit`, the locals of its window | send loop, `setBandwidthLimit` | `Buffer`, WinPcap, GUI, a real-time clock | a limit read without its mutex, int microseconds, blocking calls in a timed loop |
| `NetworkEmulator`, `MonitorThread`, `MainWindow` (networkinterface.cpp, monitorthread.cpp, mainwindow.cpp) | `started`, two of each of the above, the monitor's `enabled` and `frequency`, the adapter list | `Start`, `Stop`, `pollValues`, adapter look-up | every thread | joins in the GUI thread, writers that Stop does not join, a monitor that starts before it is configured |
| legacy threads (networkinterfacethread.cpp ...) | - | - | not built by QT_NetEmu.pro | - |

What makes them correct: a link is a FIFO channel that sends each packet once
with its own length; losses stay near the rate; the bandwidth stays near the
limit; Stop returns, leaves nothing running that could capture and nothing
queued that could be forwarded later; a writer never gives up by accident.

### B. Camera server (`Dustin/IntelligentCameraServer/`, Java with native code)

| Part | State | Operations | Interacts with | Hard behaviour |
|---|---|---|---|---|
| `ServerDaemon`, `ServerThread`, `SocketReaderUtility` | a thread and a connection per client | accept, start the stream, serve requests, clean up | the activation interface, the client | several clients at a time over one encoder, a client that leaves in the middle |
| `EncoderActivationInterface` | parameters, `m_recordingStatus`, camera, the handler `hRefresh` | start, stop, `scaleVideo`, `updateRate`, restart the camera, the preview callback | server threads write it, the UI thread handles its messages and encodes the frames | no lock; sleeps in place of synchronisation; messages handled after the state they announce has changed |
| native glue (ndkOmxEncodeDecode.cpp) | `g_encoder`, `g_params`, `g_sockfd`, `g_address` | set the recipient, start, frame, rate, finish, close | the OMX encoder (external), the socket | globals that outlive what they point to |
| `StreamerMessageFactory`, `EncoderParams` | - | parse a request | `ServerThread` | what sets neither start nor stop is a stop |
| `CameraServer` (the activity) | buttons, menu | `onResume` and others | the activation interface | resets parameters under a running stream |
| test program, preferences, vendor's display sample | - | - | - | - |

What makes them correct: an encoder is used only while it exists and only for
frames of its own shape; the flag, the parameters, the encoder, the socket and
the camera agree when nothing is under way; nothing is left when the last
client is gone; every start ends in a stream or in a report.

### C. Desktop client (`Dustin/IntelligentCameraSystem/`, C++ with Qt)

| Part | State | Operations | Interacts with | Hard behaviour |
|---|---|---|---|---|
| `VideoWindow` (UI/videowindow.cpp) | pending and current parameters, the rate in use, the bandwidth, the connection, the request thread | `onBandwidth`, `resizeVideo`, `sendRequest`, `receivedMessage`, `takeSample`, `disconnect` | `NetworkToQtInterface` over queued signals; decision module, control center, player | a request while another one runs, answers that come late, a question whose event loop lets everything else go on |
| `NetworkToQtInterface`, `TickingTimer`, `TCPClient` | the buffer, the tick count, the socket | `procRequest`, `listenForResponse`, connect, send, receive | the server | a timeout that leaves the answer in the socket |
| decision module (DecisionModule/) | the resolutions, the tables | the choice of a bit rate, up and down conversion | `VideoWindow` | arithmetic over tables, with truncation |
| learning module (LearningModule/, Types/featureset.cpp), twice | training set, the one-class flag and label, the classifier | add, train, predict | control center; dlib | asked before it is trained; a training set normalised in place |
| control center (controlcenter.cpp) | the windows, the modes, both learning modules | open, close, add an example, train, predict | the windows | windows that close while they are used |
| video player (Video/, UI/vlcvideowidget.cpp) | the media handle, `m_isPlaying`, the frame rate | open, options, play, stop | libVLC | a handle used without a test whether there is one |
| configuration files, dialogs, the old main window with its packet threads, the ffmpeg player | - | - | - | - |

What makes them correct: the parameters the client believes in are the
server's; an answer is read as the answer to its own request; every exchange
ends; a decision keeps to the bandwidth and to the sizes there are; a window
whose bandwidth has settled ends up with a stream that fits, whatever got lost
on the way; a user with one preference is served by it.

### Third-party code

pugixml, dlib, the headers of libVLC, WinPcap and its examples are not
modelled. WinPcap, Qt, the OMX encoder and Android's looper appear as the
effect their callers rely on.

## 2. The modules

| Module | Extends or instances | Models |
|---|---|---|
| `FifoChannel` | | abstract: what one direction of the emulator promises |
| `PacketBuffer` | `FifoChannel` as `Channel` | `Buffer` with the loops that call it, one access to shared state per step |
| `PacketBufferProofs` | `PacketBuffer` | proofs |
| `LossShaper` | | `ReaderThread::isThisPacketToBeDropped` and `setLossRate` |
| `LossShaperProofs` | `LossShaper` | proofs |
| `RateLimiter` | | `WriterThread::run` against the clock |
| `RateLimiterProofs` | `RateLimiter` | proofs |
| `Bridge` | | `Start` and `Stop` with five threads, the buffers' locked sections as single steps |
| `BridgeProofs` | `Bridge` | proofs |
| `EncoderServer` | | the camera server: threads, UI thread, native globals |
| `EncoderServerProofs` | `EncoderServer` | proofs |
| `RequestSession` | | the client's requests, the request thread, the connection |
| `RequestSessionProofs` | `RequestSession` | proofs |
| `Decision` | | `DecisionInterface`, as operators |
| `DecisionProofs` | `Decision` | proofs |
| `Learning` | | the two learning modules in the control center |
| `Player` | | the media handle of a window's player |
| `VideoWindow` | `Decision`, `Learning`, `Player` | a window between reports of bandwidth, the user and the server |
| `VideoWindowProofs` | `VideoWindow`, `DecisionProofs` | proofs |
| `MC...` | the module they are named after | values for TLC |

### PacketBuffer

Three threads. The reader's position `rpc` walks through `addPacket` (enqueue
the packet, enqueue the length and unlock, `wakeOne`); the writer's `wpc`
through the loop of `WriterThread::run` (the test of window and limit, after
which it calls `removePacket` or goes round again) and `removePacket` (unlocked
test, wait, woken, dequeue the packet, dequeue the length and unlock, send); the
GUI thread's `gpc` through `reset`. Whether the limit admits a packet is
`RateLimiter`'s subject; here it may or may not each time. `mutexFIFO` is a variable; `wMutex` is not,
because whoever takes it only waits or wakes under it, so that a wake-up comes
before or after the whole of lock-and-wait. Dequeueing from an empty `QQueue`
is undefined: the model moves to the position `undefined` and stops.
`resetSince` remembers what the last reset came after. `wire` is the last frame
sent, with a bit that tells two equal frames apart.

`FifoChannel` knows a queue and a wire, and accepts, transmits and flushes. The
refinement mapping puts the packet in the writer's hands before the queued
ones. A flush may spare that packet: after Stop the writer still sends what it
has taken.

### LossShaper

`packetCount` and `lossrate`, and one action per captured packet. The threshold
`1/(100.0/rate - 1)` is a whole number for some rates, and the double computed
for it may lie just above that number, which `ceil` then turns into one more
drop: `RoundedUp` is the set of the rates this happens to, 75 and 95 with
IEEE doubles. The proofs hold for every such set. A quotient by zero is
infinite: rate 100 always stays below the threshold, and so does rate 0,
for which the code has a test without an `else`. `packetCount` is an int that
wraps. `excess` and `passes` are history: how far the losses exceed the rate in
the worst window that ends now, and how many packets passed in a row.

### RateLimiter

The loop, position by position, with a clock in ticks of which `Second` are a
second. The limit is read twice (`LoopTop`, `CopyLimit`), a limit of 0 makes the
loop sleep and keeps the old copy, the window test uses the timer's int, which
x86 turns into the smallest int once the double is out of range, and an int
subtraction that wraps. `recent`, `zeroFor`, `starved` and `late` are history;
`recent[k]` is what the last `k` ticks have sent.
`Tick` waits for the loop to look at the timer at least once per tick, except
while it sleeps or waits for a packet: an iteration takes microseconds, a tick
stands for a large fraction of a second.

### Bridge

`Start` and `Stop` at the grain of the GUI thread's accesses to the state of
the other threads, for each link in turn, with readers, writers and the monitor
running against them. `gaveUp` is history: the writers that `removePacket` has
ended with a size of 0 since they were started. A packet is the number of the session in which it was
captured. `frequency` is not initialised: until it is set the monitor's first
sleep may last for any time (`sleepForEver`).

### EncoderServer

Per client the position `pc` of its `ServerThread` and its `task` (the first
start, a reset, a stop, or leaving); the tasks share the positions of
`encoderStart`, `encoderFinish` and `closeSocket`, as the code shares the
functions. `params` are the fields `setEncoderParams` sets, abstracted to a
shape (size and frame rate) and a rate; `recording` is `m_recordingStatus`;
`encoder` is what `g_encoder` points to; `fds`, `sockfd` and `port` are the
process's descriptor table, `g_sockfd`, and which descriptor is bound to the
streaming port. New descriptors are the smallest free ones, as POSIX says, so
that closing a stale number can hit another connection. `messages` is the
handler's queue; its handling, the surface's callbacks, `onResume` and the
preview callback are the UI thread's actions. A frame is chosen in one step and
encoded in another, between which the server threads may run.

The test video is chosen by the width alone (`TestVideo`): 176 gets the one of
176x144, every other width that of 352x288. The encoder reads as much as its own
picture has (`g_params`).

The camera may fail to open (`StartCamera`), in which case the program goes on
without one, and any step of its setup may throw, which closes it (`Setup`).
`cameraLost` remembers this until the surface is created anew. `since` remembers
what has happened on the present connections that the properties make an
exception for: a stop, an `onResume`, a start that failed or was reported as
failed; and for good that two connections overlapped.

Using an encoder that is not alive, or letting it read past the end of a frame,
is undefined in the component behind it. The model records it in `misuse` and
stops; the properties say under which circumstances it can come to that. In
particular it stops where a client leaves after its start has failed: the finally
block finishes an encoder that does not exist. What such a leave would leave
behind is not claimed.

`PromptUI` says whether the UI thread keeps up: it then handles a message before
a server thread takes its next step, and it is through with a frame when a
server thread has slept, which is what the code's sleeps are there for. With
`PromptUI = FALSE` none of this holds.

### RequestSession

The GUI thread's `Request` (window, parameters, buffer and the start of the
thread), the request thread (`ProcRequest`, `Tick`, `ThreadEnds`), the events
queued between them, the connection in both directions, and the server reduced
to what `ServerThread.run` answers. Requests and answers carry the number of the
request, which the code does not have: it is history, to say whose answer an
answer is. `blur` is history too: whether a timeout or an overlapping request
has disturbed the exchange since the last undisturbed one.

### Decision, Learning, Player, VideoWindow

`Decision` has no state: `MakeDecisionUsingBeta`, `DefaultAdjustStandard` and
`GetOptimalBitrate` for the standard video experiment, which look the bit rate
up in the tables `m_betas`; `MakeDecision` (`UpConvert`, `DownConvert`) and
`DefaultAdjustBitrate` for the other method, which scales the bit rate in use.
Floats are exact fractions and a conversion to int rounds down. That the
program's floats have 24 bits can move a result by one bit/s or by a few in ten
million; no property is as tight as that. In `UpConvert`, `spare` is the code's
`(bitrate / in.bitrate) * ratio < 0.5 * ceiling` with the quotient the bit rate
was just scaled by put in.

`Learning` is the state of both `LearningInterface`s (they get their examples
together), with `ControlCenter`'s batches and its check box, which is checked
and disabled until the first batch is complete. Training is external: it may
return any of `Functions` from bandwidth to class. A function that was never
trained is asked all the same: as dlib's constructor leaves it, it answers 0.
`labels` is history.

`Player` has the media handle of `VLCWrapper`, which is not initialised
(`none`), is opened by `playUrl` and released by `stop`. Use of a handle that is
not held is undefined: the model records it in `misused` and stops.

`VideoWindow` puts these together with the pending, current and server's
parameters. One action per event of the GUI thread: a line of the bandwidth
file, the button SEND, the delayed connection, an accepting answer, the answer
to the question, the check box, the key Down. The file of examples is loaded
before anything else, one action per line. The request thread and the answers
are `RequestSession` without its ticks, its late answers and its queue: what is
left of them is that a request may be lost, refused, or accepted without the
client hearing of it (`NotAnswered`), that a decision taken while the thread
runs is not sent, and that `receivedMessage` makes current what is pending by
then. The question to the user runs an event loop, so `asking` blocks only what
the user does to the windows. `share` and `accepted` are history.

## 3. Runs

| Run | Module, specification | Question | Result |
|---|---|---|---|
| `buffer` | MCPacketBuffer, FairSpec | do the queues, the lengths, the order and the progress survive the unlocked test? | holds |
| `buffer_zero` | MCPacketBuffer, Spec | does `removePacket` return 0 only after a reset, as buffer.cpp:30 says? | violated |
| `loss` | MCLossShaper, FairSpec | how far are the losses from the rate, at all rates and across changes and overflow? | holds |
| `limiter` | RateLimiter, Spec | what can a link carry in any second? | holds |
| `bridge` | Bridge, Spec, both links | can a packet or a thread survive Stop? | holds |
| `bridge_live` | Bridge, FairSpec, one link | do Stop and Start return? | holds |
| `server` | MCEncoderServer, Spec, two clients | if the UI thread keeps up: is the encoder used only while it is alive and for frames of its own size, does the flag mean a stream, is everything reset at the end? | holds |
| `server_failures` | MCEncoderServer, FairSpec, one client | do encoder, parameters, camera and sockets agree, what is left, and does every start end, if anything may fail or be late? | holds |
| `server_reset` | MCEncoderServer, Spec | is the flag set only for a stream when a reset fails? | violated |
| `session` | MCRequestSession, FairSpec | does the client know the server's parameters, does every exchange end? | holds |
| `session_overlap` | MCRequestSession, Spec | are the current parameters ones the server accepted? | violated |
| `adaptation` | MCVideoWindow, FairSpec, both methods | does every decision fit the channel, and does the stream end up fitting it? | holds |

What the properties say is in the comment above each of them. What they are
for:

* `Parallel`, `SentWithOwnSize`: packet and length travel in two queues.
  `EmptyDequeueNeedsReset`: of all the ways to reach the dequeue of an empty
  queue through the unlocked test, only a reset in between remains.
  `ImplementsChannel`: nothing is lost, doubled or overtaken. `QueueMoves`: a
  lost wake-up is made up for by the next packet, while there is a writer and its
  limiter admits packets. That a writer can end by itself is the finding of
  `buffer_zero`, and what it means for the link the business of `WritersServe`.
* `NeverOverRate`, `LosesOften`: the rate is an upper bound up to one packet in
  *every* window and not only in the long run, and at least half of it is lost.
  `Extremes`: rates 0 and 100 are exact in spite of the quotients by zero.
  `TakesEffect`: even an overflow of the counter is overcome.
* `AnySecond`, `ZeroTrickles`, `Renewed`, `OverflowStalls`: what is really
  promised for the bandwidth. The last one describes what happens after about
  35 minutes, when the timer's int has run out: no window ends any more and
  the link carries what is left of one.
* `NoStalePacket`, `StopIsComplete`, `WritersServe`, `StopReturns`,
  `StartReturns`: Stop does not join the writers, and they may keep a packet of
  the old session; still it is not sent once Start is through. `WritersServe`:
  every link then has a writer that runs and was not told to quit, unless it gave
  up in this session, and then it has none.
* `EncoderAlive`, `FramesFit`, `RecordingMeansStreaming`: with a UI thread that
  keeps up, what the threads share without a lock stays in step. `Agreement`: so it
  does in the end with a late one, for a client alone whose starts succeeded.
  `LeavesNothing`: where clients come one by one, nothing is open but the port and
  the connection of the client that is there, also after a failed start; a stop
  and a leave close the rest. `AllGone`: the flag and the parameters, and only
  these, survive any overlap of two clients. `CameraServes`: no restart is lost.
  `Streams`: a start ends in frames for a live encoder or in a report; the flag
  alone does not count, and a reset whose encoder could not be made is named as
  the case in which neither happens. The exceptions are explained below.
* `Agreement`, `OwnAnswers`, `Ends` of the session: what the client believes,
  whose answer it reads, and that it can always ask again.

* `FitsChannel`: through tables, tests, truncations and a second request that
  overtakes the first, a decision for a bandwidth uses at most 85 percent of it,
  and a bit rate left to the program at most all of it. `Adapts`: there is no
  retry in the program, yet the next report of the bandwidth makes up for every
  lost, refused or overtaken request. `PredictsKnown`: what a module answers
  while it has one label, and that two labels and a whole batch are always
  followed by a training, whatever the order of labels, batches and modes.
  `MediaHeld`: the ways to a media handle that is not there.

### Bounds, and why they are enough

* `buffer`: two packets of different lengths, which is what it takes to see an
  order or a length go wrong, and three queued ones. The writer holds one packet
  and looks no further than the head; the bound always leaves room for the packet
  that wakes a sleeping writer. `buffer_zero` needs one packet only.
* `loss`: all 101 rates. `IntMax` is 127: every threshold but those of rate 0
  (which is infinite) and 100 is at most 100, so that each rate reaches its
  threshold before the counter overflows, and 0 and 100 overflow it. The
  theorems are about every `IntMax`.
* `limiter`: a limit of 2 with packets of 1 and 3 has packets below, across and
  above the limit; a second of two ticks lets windows and sleeps begin within a
  second; `IntMax` is 5 ticks, and the clock runs to 11: two and a half seconds
  with a sound timer and three with one that has run out.
* `bridge`: two links, because Stop handles all readers before the first reset;
  two sessions, because the hazards are about what one leaves to the next; one
  packet queued, and one in the writer's hands. `bridge_live` has one link: the
  links wait for nothing of each other but through the GUI thread, which handles
  them in turn.
* `server`: two clients and four sizes: those of the two test videos, 352x256,
  which the desktop client asks for and which is smaller than the frame it gets,
  and 640x480, which is larger. One rate: what the rates do is `Agreement`'s
  business, in the other run. Four descriptors (two connections, the socket, and
  one that is leaked or free), two messages. A server thread that finds the queue
  full waits, and a UI thread that keeps up leaves at most two messages. The
  clients are interchangeable, and the invariants do not tell them apart: the run
  uses that symmetry.
* `server_failures`: one client that may also send `update`, two rates and a late
  UI thread; socket, creation, initialisation and the end of the encoder and the
  camera may fail, and 640x480 is a size the camera refuses. Clients come one by
  one, so that what two of them do to each other cannot hide what a failure does.
  A late UI thread violates `EncoderAlive`, `FramesFit` and
  `RecordingMeansStreaming`, as TLC finds; with a prompt one the first two are
  proved for every failure, and the third for a failing camera.
* `session`: two different parameters, a bit rate of 0 that means one of them, a
  malformed request; four requests, enough for a timeout, its late answer, and
  an exchange after each; a limit of two ticks for the code's ten, as it only
  counts.

* `adaptation`: two bandwidths in kbit/s on both sides of the tables' entries for
  simple content: at 200 the choice depends on the class, at 900 everything
  fits. `DecisionFits` is proved for every bandwidth, class and complexity. A
  batch of two for the code's thirty, two examples in the file and one of the
  user's: enough for a module that is trained, one that knows a single label,
  and one whose second label comes too late. Functions that answer the same for
  both bandwidths are left out: they are what a single label gives. Three
  disturbances (two for the scaling method, whose bit rates depend on each
  other): changes of the bandwidth, SEND, failures, the key Down. One of them is
  the first report; the others can be a change and a failure, or SEND in between.

After two clients at a time only the flag and the parameters are checked
(`AllGone` in `server`): sockets and encoders do leak then. For clients one by one
`LeavesNothing`, checked in `server_failures`, says what is open.

`CHECK_DEADLOCK FALSE` is said where the programs may stop: traffic ends, nobody
clicks, a session bound is reached, or the behaviour is undefined from there on.

### Fairness

* PacketBuffer: weak fairness of the reader and the writer as a whole and of
  the two later steps of `reset`: the operating system runs threads that can
  run. The strong fairness of `Take` and of `AddPacket` stands for a mutex that
  is not withheld from one thread for ever, and for traffic. Nobody has to start
  or to stop the bridge. That the limiter admits a packet again and again is no
  fairness of the specification but a premise of `QueueMoves` (`Admits`): with a
  limit of 0 from the start, or once the timer's int has run out, it does not, and
  the writer goes round for ever (`OverflowStalls`).
* LossShaper: weak fairness of `Decide`, that is traffic.
* Bridge: weak fairness of each thread. `StopReturns` needs nothing else: the
  read timeout of the adapters lets a reader see `quit` without traffic, so it is
  no fairness on `Capture`. Traffic is a premise of `StartReturns`, and only of
  that.
* EncoderServer: weak fairness of the server threads, strong fairness of
  `HandleMessage`: the looper handles messages and frames in the order of their
  arrival, so that frames do not keep it from a message. No client has to do
  anything.
* RequestSession: weak fairness of the two threads of the client, and none of
  the server.

* VideoWindow: weak fairness of the request thread, of a server that answers
  unless it fails (failures are bounded), and of further reports of the bandwidth
  there is: the scripts that write the file do so at every tick. A user owes
  nothing.

### Where code and words disagree

Three runs end in a violation of what a comment says, and stay in the project as
documentation:

* `buffer_zero`: buffer.cpp:30, `only occures if reset is called`. A writer
  that dequeues a packet before its reader calls `wakeOne` goes back to wait, is
  woken by that late call with nothing queued, gets 0, and its thread ends. The
  link stays dead until the next Start.
* `server_reset`: EncoderActivationInterface.java:601 posts the result of
  `encoderFinish` where that of `encoderStart` is meant. The flag,
  `Whether we are streaming or not` (line 74), is set without an encoder.
* `session_overlap`: videowindow.cpp:255, `Check if the response is an
  acceptance of the parameters`. A request made while another is being answered
  is never sent, and the answer to the other one makes it current.

Properties that hold with an exception name the exception in their formula. What
the exceptions stand for:

* *overlap* (`EncoderAlive`, `FramesFit`, `RecordingMeansStreaming`,
  `Agreement`, `LeavesNothing`; `AllGone` needs no exception): two clients share
  one encoder, one socket number and one recipient. The second one takes the
  stream, finds the port taken, and leaves `g_sockfd` with the number of a
  descriptor that it closed. Whoever leaves first destroys the encoder and closes
  whatever that number stands for by then.
* *stop* (`EncoderAlive`, `Agreement`): after a stop `g_encoder` still points to
  the destroyed encoder. A second stop, a change of the rate, and even leaving
  use it again: a client that stops and then leaves destroys it twice. An
  `update` parses, sets neither start nor stop, and is taken for a stop.
* *failed* (`EncoderAlive`, `Agreement`): after a failed start there is no encoder,
  and whatever the client asks for next, or its leaving, uses it. A reset that
  fails is reported as started, and the frames go to the missing encoder; one
  whose `encoderFinish` failed is reported as failed and does not record.
* *no test video* (`FramesFit`): an encoder for a size that is neither 352x288 nor
  176x144 gets the frame its width selects. At 640x480 it reads past the end of
  it; at 352x256, which the client asks for, it takes a part of another picture.
* *resume* (`FramesFit`, `Agreement`): `onResume` resets the parameters of a
  stream that it does not restart.
* *framedIn* (`FramesFit`): parameters are set before the flag is cleared; a
  frame chosen in between has the new shape and meets the old encoder.
* *PromptUI*: with a late UI thread the message of a start may be handled after
  a stop or a reset has cleared the flag, and sets it again. `EncoderAlive`,
  `FramesFit` and `RecordingMeansStreaming` are therefore checked for a UI thread
  that keeps up; the others do not need it.
* *cameraLost* (`CameraServes`): a camera that does not open, or a preview size it
  refuses, leaves the program without one, and the restart that follows
  `Restoring Defaults` does nothing, because it wants a running camera. The
  surface has to be created anew.
* *blur* (`Agreement`, `OwnAnswers` of the session): an answer that comes after
  its timeout is read by the next exchange, and every answer from then on may
  belong to the request before; so may the answer to one of two requests that
  overlapped. A client that has asked for nothing believes in
  a default bit rate (352*288*3.5) that is not the server's (width*height*3).

What the models of the client's decisions show besides:

* decisioninterface.h says `Keep any optimum at 95% of the average bandwidth`
  over a macro of 0.85. Decisions keep 85 percent (`FitsChannel`). SEND with a
  bit rate of 0 divides by the frame rate's factor twice (videowindow.cpp:438-445)
  and gets to 97.9 percent at 15 frames: above both numbers, within the channel.
* The scaling method compares bit/s with kbit/s: its first decision starts from
  a made-up 400 and is exempt from `FitsChannel` (it may ask for 31 percent more
  than the channel has); after the first accepted one the rate in use is in
  bit/s (videowindow.cpp:261), and the bit rates fall to a few hundred bit/s.
* For class 0, `downConvert` works out a bit rate and sets another variable,
  which is 0 (decisioninterface.cpp:486-488); `resizeVideo` takes that for a
  request to choose one.
* Class 1 asks for 352x256, which is not among the sizes offered
  (decisioninterface.cpp:119-120); `TypeOK` lists it. A camera that refuses such
  a preview stays off (`CameraServes`).
* videowindow.cpp:495, `Wait until the pending parameters and current parameters
  are equal`: nothing waits; the decision starts from the pending ones.
* `m_media` is not initialised and `setMediaOptions` does not look: SEND with 15
  frames before the connection uses it, and so does the key Down followed by 15
  frames. `MediaHeld` names these two.
* A second label that comes after the last batch makes `predict` ask a function
  that was never trained, until the next batch: the bit is then 1, whatever the
  user's first label was. `PredictsKnown` leaves this out.
* `trainCurrent` normalises the training set in place, each time anew; the
  file's examples are in kbit/s and the user's in bit/s (videowindow.cpp:550);
  videowindow.cpp:29 uses a widget that `setupUi` creates in the next line. These
  are outside of what the models tell apart.

### Running them

A run is `tlc -config <cfg> <module>` with the names `PROJECT.json` gives (the
FairSpec runs check liveness on the whole graph; none takes more than a few minutes), a proof `tlapm <module>.tla`.

## 4. Proofs

TLAPS checks the following for all values of the constants that satisfy the
named assumptions in the modules, which TLC evaluates for the values of the
runs. They ask for counts and bounds that are numbers and for sets that fit
together. Those that say more: there are finitely many limits and packet sizes
(a limit is an int, a packet has 64 KB at most), 0 is one of the limits, and the
server's default parameters are ones it accepts.

**PacketBufferProofs**: `TypeCorrect`, `QueuesParallel`, `OwnSize`,
`EmptyDequeue` and `Implements`. `Parallel` alone is not inductive, as it is
silent while the mutex is held. The inductive invariant adds

* `LockHolders`: the mutex is held exactly by the thread that is inside its
  locked section, and the reader is out of the way while the GUI thread resets;
* `Queues`: what each holder owes the queues: the reader a length, the writer
  has taken a packet and its length is the head of the other queue, reset has
  cleared the packets and not yet the lengths;
* `Promise`: a writer that is about to dequeue finds a packet, unless a reset
  has come since its test.

The lemmas `SizesAppend` and `SizesTail` say how the lengths of a sequence of
packets follow its extension and its tail. `Implements` shows with the same
invariant that each step is a step of the channel or leaves it alone
(`ChannelStep`): the packet moves from the queue to the writer's hand without
a change of the channel, and from the hand to the wire with its own length.

**LossShaperProofs**: `TypeCorrect`, `LossBounded`, `LossesHappen` and
`ExtremesExact`. `NeverOverRate` is not inductive, because it
says nothing of the counter. `Paid` (rates up to 50: each passed packet pays
back what the last drop cost) and `Owed` (rates above: the excess is what the
present run of drops has cost) tie the two together. `DropRunBound` says that a
run of drops, however its threshold was rounded, costs no more than one packet
over the rate: this is where the arithmetic is.
`LosesOften` rests on a second invariant, `RowInv`: up to 50 percent the passed
packets are counted, and the last of them was below the threshold; above, a
packet that passes restarts the counter at 1, and 1 is below every threshold
there (`DropRunAtLeastTwo`). Of the rates whose threshold is rounded up the
arguments use only that the exact threshold is a whole number.

**RateLimiterProofs**: `TypeCorrect`, `TwoWindows`, `ZeroIsOnePacket`,
`LimitRenewed` and `OverflowStops`. `AnySecond` is about a second of real time,
while the code counts in windows that begin when the loop gets there. The
inductive invariant has

* `Window`: the window began at a time that the timer showed, or after its
  overflow, and it restarts only once a second is over;
* `Rate`: whatever was sent since the window began is counted in
  `bandConsumed`, and the ticks before it carried one window at most. Both
  together are the two windows of `AnySecond`;
* `Trickle`: under a limit of 0 the thread sleeps a second after each packet, and
  nothing was sent since it fell asleep; on its way to a packet it has sent none
  since the limit was set, or for a second;
* `Renewal`: how the time for which the link has been starved compares with the age
  of the window, at each position of the loop, and what the timer will show at its
  next look;
* `Overflow`: what was sent since the overflow belongs to the window that was
  open, or to the one window after it.

`Wrap` and `WindowTest` are the int arithmetic: the difference of two int
readings, and when the code takes it for a second.

**BridgeProofs**: `TypeCorrect`, `NothingStale`, `StopComplete` and
`WritersKeepServing`, for any number of links. What has to be said is where the
GUI thread has got to: per link `ReaderEnds` and `QueueEmptied` say for each of
its positions which readers are joined and which queues are emptied,
`QueueFresh` that what is queued is of this session, and `HandFresh` that a
writer holds an older packet only while Start has still to join it (`Ahead`).
For `WritersKeepServing`, `StopClicked` says that the bridge counts as stopped
while Stop is under way, `NotifyFed` that a reader about to notify has queued a
packet of this session, which the writer may have taken already, and `Serving`
that a writer this session has started is woken only by such a packet, is not
told to quit, and gets a zero only after it has taken a packet of this session.

**RequestSessionProofs**: `TypeCorrect`, `AnswersOwn` and `ClientAgrees`. The
inductive invariant adds

* `EventsEnd`: "quit" is the last event of an exchange and there only once,
  so that the next one starts with nothing queued;
* `Line`: nothing is asked without a connection; who still takes a lost
  connection for open will hear of it;
* `OneAnswer`: in an undisturbed exchange one message at most is in the
  connection, either way, and it carries the number of the request sent last;
* `Consent`: from a request to the consent to it `pending` is what the server was
  asked for, and then what the server has.

`ServerDefault \in Requests \ Refused` is needed for a server that forgets a
client and starts again with values that it accepts.

**EncoderServerProofs**: in three layers. For every failure and every schedule
of the UI thread, `TypeCorrect`, `NothingRecorded`, `NothingLeft` and
`CameraFollowsParams`, from

* `Tasks`: what a thread does fits its position;
* `ParamsRestored`: the last client to leave sets the parameters back;
* `StreamOver`: once every client is done or gone, each "started" among the
  messages has a "stopped" after it, and so has the flag. `AllGone` speaks of
  an empty queue only and says nothing of how it became empty;
* `CameraFollows`: unless it was lost, the camera has the size of the parameters,
  or a "restart" is queued, or a thread is on its way to post one;
* `Sockets`, as long as no two clients have met: the descriptors in use are the
  connection's and the socket's, `g_sockfd` names the socket where it is used,
  and a live encoder belongs to a client that has the socket.

`ClientServed` is about the same behaviours: `Served` says what a client alone has
at each position, as long as no start of its own failed, and `WillRecord` that its
"started" is the last message about recording, so that it holds for a UI thread
that is late.

With a UI thread that keeps up (`PromptUI`), and still for every failure,
`NoDeadEncoder` and `FramesOfItsShape`: `Prompt` says that one message at most is
queued, that the flag, a queued "started" and a chosen frame all mean a live
encoder unless a start has failed, that nothing of this is left when a thread
comes to `encoderFinish`, nor while no client is being served. A frame is then
chosen for the parameters of the encoder (`FrameChosen`), and `TestVideo` finds
the right one wherever there is one; nothing is assumed of the sizes.
`RecordsLive` allows for no failure but the camera's: then no start fails
(`NeverFailed`). The conditions are not for convenience: `server_reset` violates
`RecordingMeansStreaming` with a failure, and TLC finds `EncoderAlive` violated
with a late UI thread.

**DecisionProofs**: `DecisionFits` and `LearningDecisionFits`, the arithmetic
behind `FitsChannel`, for every bandwidth. `UnscaledWithin` goes through the
tables for each class: a frame rate of 15 or 30 and no more than the channel
allows. `EncodedFits` says that dividing by the frame rate's factor and rounding
down keeps the data rate below the rate divided.

**VideoWindowProofs**: `StandardFits`, `PredictionsKnown`, `MediaSafe`,
`TypeCorrect` and `ChoicesFit`, for every set of requests, bandwidths and
functions and every size of a batch. The inductive invariant `WindowInv` has

* `Knowledge`: a module knows one label as long as it has seen
  no other; with both seen by the last whole batch it is trained. `PredictsKnown`
  alone does not say what `oneClass` and `single` have to do with the labels
  seen. `WholeBatches` is the arithmetic: one more example leaves the last
  training where it is unless it completes a batch;
* `Handle`: what plays has a handle, there is one from the connection on, and
  only the key Down releases it for good;
* `UnderWay`: a request is under way only over a connection. Without it a
  connection could be lost that was never made, and the excuse of `MediaHeld`
  with it;
* `Paced`: whatever is pending or current has a frame rate of 15 or 30, the two
  `SetFps` knows. A decision takes what it leaves alone from these parameters.

`StandardFits` adds `ChoiceInv` and rests on `DecisionFits`. What it takes
beyond that is that no decision is rounded down to a bit rate of 0
(`DecisionPositive`), which `resizeVideo` would take for the server's default,
and that the second division by the frame rate's factor uses up no more than the
margin of 85 percent (`FilledFits`). It is about the standard video experiment
and assumes nothing of the bandwidths.

`TypeCorrect` and `ChoicesFit` are about both methods: every bit rate and the
data rate in use stay positive, and whatever the window decides fits. The scaling
method goes round in a circle, as each decision divides by a data rate that the
one before it left behind, rounded down to an int. `RateInv` closes it:

* `Rated`: no parameters anywhere have a bit rate of 0, nor 15 frames at 1
  bit/s. What is not rated has a data rate that is rounded down to 0;
* `InUse`: the data rate in use is below that of the current parameters, by less
  than 1 once a request was accepted;
* `ScalesWithin`: what a decision asks for after that is at most four times the
  bandwidth. This says in a number what `FitsChannel` leaves open: the method
  takes bit/s for kbit/s and uses a few bit/s of every kbit/s it has.

`FitBounds` brackets the long division of `Fit` from both sides, for every
fraction; `ScaledBounds` turns that into `Within`, for every change of the frame
rate that the conversions know; `ScaledChosen` and `FilledRated` go through the
decisions and through `resizeVideo`. They assume `UserAsksRated`, that SEND does
not ask for 15 frames at 1 bit/s, and `ChannelCarries`, that a bandwidth in the
file is 0 or at least 5 kbit/s. Both are needed: with 3 and 4 kbit/s TLC finds
`TypeOK` violated, with 1 or 2 `FitsChannel`. For such a window the code has two
ways on (`onBandwidth` takes the player's statistics for the rate,
videowindow.cpp:499, SEND divides by 0, :418-428), which are not modelled; the
theorem says when they are not reached.

Only model-checked, and why: liveness (`QueueMoves`, `TakesEffect`,
`StopReturns`, `StartReturns`, `Streams`, `Ends`, `Adapts`), which the prover
does not handle.

## 5. Not modelled, and why

* The displayed statistics of the emulator, the server's frame counter, the
  printing of statistics, dialogs, layout: no other state depends on them.
* The emulator's adapter list and its filters: every look-up appends to a list
  whose indices are taken from combo boxes that show the last look-up only. It
  is one thread's sequential code, and goes wrong exactly when the adapters
  change between two look-ups; what WinPcap does with a wrong or unopened handle
  is not in the repository.
* The server's buttons, menu and preferences: the buttons are for tests without
  a client.
* The syntax of requests: what matters of it is whether a request is refused,
  and what a parsed one sets.
* The closing of a window while its request thread runs: `terminate` and the
  deletion of a running thread are Qt's, and nothing of the session is left.
* Of the control center its lists of cameras and windows, of the player its
  statistics, and training itself (dlib). The two conversions of the decision
  module without a class, which nothing calls.
* Configuration files: sequential readers. Legacy threads, ffmpeg player: not
  built. The client's packet threads and old main window: built, never created.
* Third-party code.

## 6. Plan

Done: PacketBuffer with FifoChannel, LossShaper, RateLimiter, Bridge,
EncoderServer, RequestSession, Decision, Learning, Player and VideoWindow, all
with proofs.

Next: the control center's lists of windows and cameras.

---------------------------- MODULE EncoderServer ----------------------------
(***************************************************************************)
(* The camera server: one ServerThread per connected client, all of them   *)
(* and the UI thread sharing one EncoderActivationInterface and the        *)
(* globals of its native code (g_encoder, g_sockfd, g_address, g_params),  *)
(* none of it behind a lock.  Server threads change the encoder and post   *)
(* messages; the UI thread handles them in order, owns the camera and      *)
(* encodes the preview frames while m_recordingStatus is set.              *)
(* The OMX encoder is external: using one that is not alive, or letting it *)
(* read past the end of a frame, is undefined and the model stops there.   *)
(***************************************************************************)
EXTENDS Naturals, Sequences, FiniteSetsExt

CONSTANTS
  Clients,      (* the clients that may connect                            *)
  Shapes,       (* picture sizes and frame rates a client may ask for      *)
  Unsupported,  (* those the camera refuses                                *)
  Rates,        (* bit rates and their variable flag                       *)
  DefaultRate,  (* the one setEncoderParams(width, height, fps) sets       *)
  Operations,   (* the operations clients ask for: start, stop, update     *)
  Failures,     (* what may fail: socket, create, init, deinit, camera     *)
  PromptUI,     (* whether the UI thread handles a message before the next *)
                (* step of any server thread, and a frame within a sleep   *)
  MaxFds,       (* bound: descriptors in use                               *)
  MaxMessages   (* bound: messages the UI thread has not handled           *)

(* The size the parameters start with and go back to.                      *)
DefaultShape == [width |-> 352, height |-> 288, fps |-> 30]

ASSUME ShapesAssumption ==
  /\ Shapes \subseteq [width : Nat, height : Nat, fps : Nat]
  /\ DefaultShape \in Shapes \ Unsupported
ASSUME RatesAssumption == DefaultRate \in Rates
ASSUME OperationsAssumption == Operations \subseteq {"start", "stop", "update"}
ASSUME BoundsAssumption == MaxFds \in Nat /\ MaxMessages \in Nat

VARIABLES
  pc, task,           (* per client: its ServerThread's position, and what *)
                      (* it is doing                                       *)
  finished,           (* per client: its local result of encoderFinish     *)
  tcp,                (* per client: descriptor of its connection          *)
  params,             (* m_previewWidth .. m_variableRate                  *)
  recording,          (* m_recordingStatus                                 *)
  encoder,            (* *g_encoder with g_params                          *)
  fds, sockfd, port,  (* the descriptor table; g_sockfd; what is bound to  *)
                      (* the streaming port                                *)
  address,            (* g_address                                         *)
  messages,           (* posted to hRefresh                                *)
  surface,            (* the preview surface: none, created, shown         *)
  camera, cameraShape,(* m_camera with m_isCameraRunning; its preview size *)
  cameraLost,         (* history: since the surface was created the camera *)
                      (* could not be opened or set up                     *)
  frame, framedIn,    (* UI thread: the frame in onPreviewFrame; history:  *)
                      (* whether it was chosen while parameters changed    *)
  misuse,             (* history: the undefined use of the encoder         *)
  since               (* history: stop, resume, a start that failed or was *)
                      (* reported so, on the present connections; overlap  *)
                      (* of two connections ever                           *)

threadVars == <<pc, task, finished, tcp>>
nativeVars == <<encoder, fds, sockfd, port, address>>
cameraVars == <<surface, camera, cameraShape, cameraLost>>
frameVars == <<frame, framedIn>>
vars == <<threadVars, params, recording, nativeVars, messages, cameraVars,
          frameVars, misuse, since>>

Fd == 1 .. MaxFds
None == 0
Params == [shape : Shapes, rate : Rates]
Default == [shape |-> DefaultShape, rate |-> DefaultRate]
Messages == {"started", "startFailed", "stopped", "restart"}

(* The pictures of the two test videos, and of the encoder.                *)
CIF == [width |-> 352, height |-> 288]
QCIF == [width |-> 176, height |-> 144]
NoFrame == [width |-> 0, height |-> 0]
Picture(shape) == [width |-> shape.width, height |-> shape.height]
Area(picture) == picture.width * picture.height

-----------------------------------------------------------------------------
Init ==
  /\ pc = [c \in Clients |-> "away"]
  /\ task = [c \in Clients |-> "leave"]
  /\ finished = [c \in Clients |-> TRUE]
  /\ tcp = [c \in Clients |-> None]
  /\ params = Default
  /\ recording = FALSE
  /\ encoder = [state |-> "null", params |-> Default]
  /\ fds = [f \in Fd |-> "free"]
  /\ sockfd = None
  /\ port = None
  /\ address \in Clients
  /\ messages = << >>
  /\ surface = "none"
  /\ camera = "none"
  /\ cameraShape = DefaultShape
  /\ cameraLost = FALSE
  /\ frame = NoFrame
  /\ framedIn = FALSE
  /\ misuse = "none"
  /\ since = {}

Room == Len(messages) < MaxMessages
Post(message) == Room /\ messages' = Append(messages, message)
Goto(c, where) == pc' = [pc EXCEPT ![c] = where]
Free == {f \in Fd : fds[f] = "free"}

(* A server thread takes a step.                                           *)
At(c, where) == pc[c] = where /\ (PromptUI => messages = << >>)
(* A server thread has slept.                                              *)
Slept == PromptUI => frame = NoFrame

-----------------------------------------------------------------------------
(* ServerDaemon: accept, start a ServerThread.                             *)
Accept(c) ==
  /\ At(c, "away")
  /\ Free # {}
  /\ LET f == Min(Free)
     IN  fds' = [fds EXCEPT ![f] = "tcp"] /\ tcp' = [tcp EXCEPT ![c] = f]
  /\ since' = IF \A d \in Clients : pc[d] = "away" THEN since \cap {"overlap"}
              ELSE since \cup {"overlap"}
  /\ task' = [task EXCEPT ![c] = "connect"]
  /\ Goto(c, "recipient")
  /\ UNCHANGED <<finished, params, recording, encoder, sockfd, port,
                 address, messages, cameraVars, frameVars, misuse>>

(* startStreaming: encoderSetRecipient, before the sleep.                  *)
SetRecipient(c) ==
  /\ At(c, "recipient")
  /\ address' = c
  /\ Goto(c, "open")
  /\ UNCHANGED <<task, finished, tcp, params, recording, encoder, fds,
                 sockfd, port, messages, cameraVars, frameVars, misuse, since>>

(* Mutant: a start that fails is not reported.                             *)
StartedSilent(c, ok) ==
  /\ IF ok THEN Post("started") ELSE UNCHANGED messages
  /\ since' = IF ok THEN since ELSE since \cup {"failed"}
  /\ Goto(c, "serving")

(* What a start posts: EncoderResetThread passes on the result of its      *)
(* encoderFinish, not that of its encoderStart.                            *)
Started(c, ok) ==
  LET result == IF task[c] = "reset" THEN finished[c] ELSE ok
  IN  /\ Post(IF result THEN "started" ELSE "startFailed")
      /\ since' = IF ok /\ result THEN since ELSE since \cup {"failed"}
      /\ Goto(c, "serving")

(* encoderStart, to the clearing of g_encoder.  g_sockfd is overwritten in *)
(* any case; when the port is taken it keeps the closed descriptor.        *)
OpenSocket(c) ==
  /\ At(c, "open")
  /\ Slept
  /\ Free # {}
  /\ \/ /\ port = None
        /\ sockfd' = Min(Free)
        /\ fds' = [fds EXCEPT ![sockfd'] = "udp"]
        /\ port' = sockfd'
        /\ encoder' = [state |-> "null", params |-> params]
        /\ Goto(c, "create")
        /\ UNCHANGED <<messages, since>>
     \/ /\ port # None
        /\ sockfd' = Min(Free)
        /\ Started(c, FALSE)
        /\ UNCHANGED <<fds, port, encoder>>
     \/ /\ "socket" \in Failures
        /\ sockfd' = None
        /\ Started(c, FALSE)
        /\ UNCHANGED <<fds, port, encoder>>
  /\ UNCHANGED <<task, finished, tcp, params, recording, address,
                 cameraVars, frameVars, misuse>>

(* encoderStart, the rest: create the encoder and bring it up.             *)
CreateEncoder(c) ==
  /\ At(c, "create")
  /\ \/ /\ encoder' = [encoder EXCEPT !.state = "live"]
        /\ Started(c, TRUE)
     \/ /\ "create" \in Failures
        /\ Started(c, FALSE)
        /\ UNCHANGED encoder
     \/ /\ "init" \in Failures
        /\ encoder' = [encoder EXCEPT !.state = "dead"]
        /\ Started(c, FALSE)
  /\ UNCHANGED <<task, finished, tcp, params, recording, fds, sockfd, port,
                 address, cameraVars, frameVars, misuse>>

-----------------------------------------------------------------------------
(* Requests.  A malformed one, and one for the parameters that are already *)
(* set, change nothing.                                                    *)

(* Mutant: the new rate is remembered, and not given to the encoder.       *)
ChangeRateUnsent(c, r) ==
  /\ At(c, "serving")
  /\ "start" \in Operations
  /\ r # params.rate
  /\ params' = [params EXCEPT !.rate = r]
  /\ UNCHANGED <<pc, task, finished, tcp, recording, nativeVars, messages,
                 cameraVars, frameVars, misuse, since>>

(* updateRate: only the bit rate or its variable flag differ.              *)
ChangeRate(c, r) ==
  /\ At(c, "serving")
  /\ "start" \in Operations
  /\ r # params.rate
  /\ IF encoder.state = "live"
     THEN /\ encoder' = [encoder EXCEPT !.params.rate = r]
          /\ params' = [params EXCEPT !.rate = r]
          /\ UNCHANGED misuse
     ELSE misuse' = "deadEncoder" /\ UNCHANGED <<encoder, params>>
  /\ UNCHANGED <<pc, task, finished, tcp, recording, fds, sockfd, port, address,
                 messages, cameraVars, frameVars, since>>

(* Mutant: scaleVideo does not reset m_recordingStatus first.              *)
ChangeShapeStreaming(c, p) ==
  /\ At(c, "serving")
  /\ "start" \in Operations
  /\ p.shape # params.shape
  /\ params' = p
  /\ task' = [task EXCEPT ![c] = "reset"]
  /\ Goto(c, "finish")
  /\ UNCHANGED <<finished, tcp, recording, nativeVars, messages, cameraVars,
                 frameVars, misuse, since>>

(* setEncoderParams; scaleVideo follows.                                   *)
ChangeShape(c, p) ==
  /\ At(c, "serving")
  /\ "start" \in Operations
  /\ p.shape # params.shape
  /\ params' = p
  /\ task' = [task EXCEPT ![c] = "reset"]
  /\ Goto(c, "clear")
  /\ UNCHANGED <<finished, tcp, recording, nativeVars, messages, cameraVars,
                 frameVars, misuse, since>>

(* The parser leaves toStart unset for stop and for update; run() then     *)
(* calls endStreaming.                                                     *)
Stop(c, operation) ==
  /\ At(c, "serving")
  /\ operation \in Operations \ {"start"}
  /\ task' = [task EXCEPT ![c] = "stop"]
  /\ since' = since \cup {"stop"}
  /\ Goto(c, "clear")
  /\ UNCHANGED <<finished, tcp, params, recording, nativeVars, messages, cameraVars,
                 frameVars, misuse>>

(* peek() sees the end of the stream, or the connection fails.             *)
Disconnect(c) ==
  /\ At(c, "serving")
  /\ task' = [task EXCEPT ![c] = "leave"]
  /\ Goto(c, "clear")
  /\ UNCHANGED <<finished, tcp, params, recording, nativeVars, messages, cameraVars,
                 frameVars, misuse, since>>

-----------------------------------------------------------------------------
(* Mutant: the encoder is destroyed without m_recordingStatus being reset. *)
ClearRecordingNot(c) ==
  /\ At(c, "clear")
  /\ Goto(c, "finish")
  /\ UNCHANGED <<task, finished, tcp, params, recording, nativeVars,
                 messages, cameraVars, frameVars, misuse, since>>

(* endStreaming and scaleVideo: m_recordingStatus = false, then a sleep.   *)
ClearRecording(c) ==
  /\ At(c, "clear")
  /\ recording' = FALSE
  /\ Goto(c, "finish")
  /\ UNCHANGED <<task, finished, tcp, params, nativeVars, messages,
                 cameraVars, frameVars, misuse, since>>

(* encoderFinish: g_encoder still points to the destroyed encoder.         *)
FinishEncoder(c) ==
  /\ At(c, "finish")
  /\ Slept
  /\ \/ /\ encoder.state = "live"
        /\ encoder' = [encoder EXCEPT !.state = "dead"]
        /\ \E ok \in {TRUE} \cup (IF "deinit" \in Failures THEN {FALSE} ELSE {}) :
             finished' = [finished EXCEPT ![c] = ok]
        /\ Goto(c, "close")
        /\ UNCHANGED misuse
     \/ /\ encoder.state # "live"
        /\ misuse' = "deadEncoder"
        /\ UNCHANGED <<encoder, finished, pc>>
  /\ UNCHANGED <<task, tcp, params, recording, fds, sockfd, port, address,
                 messages, cameraVars, frameVars, since>>

(* Mutant: a socket is closed and its port stays taken.                    *)
ReleaseUnbound(f) ==
  fds' = [g \in Fd |-> IF g = f THEN "free" ELSE fds[g]] /\ UNCHANGED port

(* Mutant: a socket gives its port back and its descriptor is leaked.      *)
ReleaseLeaking(f) == port' = (IF port = f THEN None ELSE port) /\ UNCHANGED fds

(* close() of a number, whatever it stands for by now.                     *)
Release(f) ==
  /\ fds' = [g \in Fd |-> IF g = f THEN "free" ELSE fds[g]]
  /\ port' = IF port = f THEN None ELSE port

(* Mutant: a reset reports the start before the new encoder is made.       *)
FinishedEarly(c) == Post(IF task[c] = "reset" THEN "started" ELSE "stopped")

(* What is posted once the encoder is finished.                            *)
Finished(c) == Post(IF task[c] = "reset" THEN "restart" ELSE "stopped")

(* closeSocket: g_sockfd keeps the number it closes.                       *)
CloseSocket(c) ==
  /\ At(c, "close")
  /\ Release(sockfd)
  /\ Finished(c)
  /\ Goto(c, CASE task[c] = "reset" -> "open"
               [] task[c] = "stop"  -> "serving"
               [] task[c] = "leave" -> "cleanup")
  /\ UNCHANGED <<task, finished, tcp, params, recording, encoder, sockfd,
                 address, cameraVars, frameVars, misuse, since>>

(* Mutant: the next client starts with the parameters of the last one.     *)
CleanupKeeps(c) ==
  /\ At(c, "cleanup")
  /\ Release(tcp[c])
  /\ Post("restart")
  /\ Goto(c, "away")
  /\ UNCHANGED <<task, finished, tcp, params, recording, encoder, sockfd,
                 address, cameraVars, frameVars, misuse, since>>

(* Mutant: the camera of the parameters that were reset is not restarted.  *)
CleanupSilent(c) ==
  /\ At(c, "cleanup")
  /\ Release(tcp[c])
  /\ params' = Default
  /\ Goto(c, "away")
  /\ UNCHANGED <<task, finished, tcp, recording, encoder, sockfd,
                 address, messages, cameraVars, frameVars, misuse, since>>

(* The rest of run()'s finally block.                                      *)
Cleanup(c) ==
  /\ At(c, "cleanup")
  /\ Release(tcp[c])
  /\ params' = Default
  /\ Post("restart")
  /\ Goto(c, "away")
  /\ UNCHANGED <<task, finished, tcp, recording, encoder, sockfd,
                 address, cameraVars, frameVars, misuse, since>>

-----------------------------------------------------------------------------
(* The UI thread.                                                          *)

(* setupCamera, after startCamera where the camera restarts.  A refused    *)
(* size, or any other exception, closes it: also that of a camera that     *)
(* Camera.open() could not open and left null.                             *)
Setup(shape) ==
  \/ /\ shape \notin Unsupported
     /\ camera' = "running" /\ cameraShape' = shape
     /\ UNCHANGED cameraLost
  \/ /\ shape \in Unsupported \/ "camera" \in Failures
     /\ camera' = "none" /\ cameraLost' = TRUE
     /\ UNCHANGED cameraShape

(* restartCamera: nothing for a camera that is not running; otherwise      *)
(* stopCamera, startCamera and setupCamera.                                *)
RestartCamera(shape) ==
  IF camera = "running" THEN Setup(shape)
                        ELSE UNCHANGED <<camera, cameraShape, cameraLost>>

HandleMessage ==
  /\ frame = NoFrame
  /\ messages # << >>
  /\ messages' = Tail(messages)
  /\ recording' = CASE Head(messages) = "started" -> TRUE
                    [] Head(messages) = "stopped" -> FALSE
                    [] OTHER -> recording
  /\ IF Head(messages) = "restart" THEN RestartCamera(params.shape)
                                   ELSE UNCHANGED <<camera, cameraShape, cameraLost>>
  /\ UNCHANGED <<threadVars, params, nativeVars, surface, frameVars, misuse, since>>

(* Camera.open() may throw; the program goes on without a camera.          *)
StartCamera ==
  \/ camera' = "open" /\ cameraLost' = FALSE
  \/ "camera" \in Failures /\ camera' = "none" /\ cameraLost' = TRUE

SurfaceCreated ==
  /\ frame = NoFrame
  /\ surface = "none"
  /\ surface' = "created"
  /\ StartCamera
  /\ UNCHANGED <<threadVars, params, recording, nativeVars, messages, cameraShape,
                 frameVars, misuse, since>>

(* A camera that is running is left as it is, and so is one that is gone.  *)
SurfaceChanged ==
  /\ frame = NoFrame
  /\ surface # "none"
  /\ surface' = "shown"
  /\ IF camera = "open" THEN Setup(params.shape)
                        ELSE UNCHANGED <<camera, cameraShape, cameraLost>>
  /\ UNCHANGED <<threadVars, params, recording, nativeVars, messages, frameVars,
                 misuse, since>>

SurfaceDestroyed ==
  /\ frame = NoFrame
  /\ surface # "none"
  /\ surface' = "none"
  /\ camera' = "none"
  /\ UNCHANGED <<threadVars, params, recording, nativeVars, messages, cameraShape,
                 cameraLost, frameVars, misuse, since>>

(* CameraServer.onResume resets the parameters, whoever is streaming.      *)
Resume ==
  /\ frame = NoFrame
  /\ params' = Default
  /\ RestartCamera(DefaultShape)
  /\ since' = since \cup {"resume"}
  /\ UNCHANGED <<threadVars, recording, nativeVars, messages, surface, frameVars, misuse>>

(* The test video is chosen by the width alone.                            *)
TestVideo(shape) == IF shape.width = 176 THEN QCIF ELSE CIF

(* onPreviewFrame chooses a frame for the parameters now set ...           *)
ChooseFrame ==
  /\ frame = NoFrame
  /\ recording
  /\ camera = "running"
  /\ frame' = TestVideo(params.shape)
  /\ framedIn' = \E c \in Clients : pc[c] = "clear"
  /\ UNCHANGED <<threadVars, params, recording, nativeVars, messages, cameraVars,
                 misuse, since>>

(* ... and encoderFrame gives it to the encoder there is, which reads as   *)
(* much of it as its own picture has.                                      *)
EncodeFrame ==
  /\ frame # NoFrame
  /\ frame' = NoFrame
  /\ misuse' = IF encoder.state # "live" THEN "deadEncoder"
               ELSE IF Area(encoder.params.shape) > Area(frame) THEN "pastFrame" ELSE "none"
  /\ UNCHANGED <<threadVars, params, recording, nativeVars, messages, cameraVars,
                 framedIn, since>>

-----------------------------------------------------------------------------
ThreadStep(c) ==
  \/ SetRecipient(c) \/ OpenSocket(c) \/ CreateEncoder(c) \/ ClearRecording(c)
  \/ FinishEncoder(c) \/ CloseSocket(c) \/ Cleanup(c)

ClientStep(c) ==
  \/ Accept(c) \/ Disconnect(c)
  \/ \E r \in Rates : ChangeRate(c, r)
  \/ \E p \in Params : ChangeShape(c, p)
  \/ \E operation \in {"stop", "update"} : Stop(c, operation)

UIStep == HandleMessage \/ ChooseFrame \/ EncodeFrame
Lifecycle == SurfaceCreated \/ SurfaceChanged \/ SurfaceDestroyed \/ Resume

Next ==
  /\ misuse = "none"
  /\ \/ \E c \in Clients : ThreadStep(c) \/ ClientStep(c)
     \/ UIStep \/ Lifecycle

Spec == Init /\ [][Next]_vars

(* The scheduler runs every thread, and the UI thread takes messages and   *)
(* frames in the order of their arrival, so that frames do not keep it     *)
(* from a message; nobody has to connect, to ask or to leave.              *)
FairSpec ==
  /\ Spec
  /\ \A c \in Clients : WF_vars(misuse = "none" /\ ThreadStep(c))
  /\ SF_vars(misuse = "none" /\ HandleMessage)
  /\ WF_vars(misuse = "none" /\ EncodeFrame)

-----------------------------------------------------------------------------
(* Every variable keeps to its type, and what is bound to the streaming    *)
(* port is an open datagram socket.                                        *)
TypeOK ==
  /\ pc \in [Clients -> {"away", "recipient", "open", "create", "serving", "clear",
                        "finish", "close", "cleanup"}]
  /\ task \in [Clients -> {"connect", "reset", "stop", "leave"}]
  /\ finished \in [Clients -> BOOLEAN]
  /\ tcp \in [Clients -> Fd \cup {None}]
  /\ params \in Params
  /\ recording \in BOOLEAN
  /\ encoder \in [state : {"null", "live", "dead"}, params : Params]
  /\ fds \in [Fd -> {"free", "tcp", "udp"}]
  /\ sockfd \in Fd \cup {None}
  /\ port = None \/ (port \in Fd /\ fds[port] = "udp")
  /\ address \in Clients
  /\ messages \in Seq(Messages) /\ Len(messages) <= MaxMessages
  /\ surface \in {"none", "created", "shown"}
  /\ camera \in {"none", "open", "running"}
  /\ cameraShape \in Shapes
  /\ cameraLost \in BOOLEAN
  /\ frame \in {NoFrame, QCIF, CIF}
  /\ framedIn \in BOOLEAN
  /\ misuse \in {"none", "deadEncoder", "pastFrame"}
  /\ since \subseteq {"stop", "resume", "failed", "overlap"}

(* Nothing is under way but clients being served.                          *)
Quiet ==
  /\ messages = << >>
  /\ frame = NoFrame
  /\ \A c \in Clients : pc[c] \in {"away", "serving"}

(* No destroyed or missing encoder is used, although encoderFinish leaves  *)
(* g_encoder pointing to it, unless two clients shared it, a start failed, *)
(* or the client asked to stop before: whatever is asked then, and even    *)
(* leaving, uses or destroys it a second time.                             *)
EncoderAlive == misuse = "deadEncoder" => since \cap {"stop", "failed", "overlap"} # {}

(* The frame that a live encoder is about to read is a picture of its own  *)
(* size, unless it was chosen after a request had set the parameters and   *)
(* before it cleared m_recordingStatus, onResume reset them, two clients   *)
(* set them, or there is no test video of that size: then it gets the one  *)
(* its width selects, and reads past its end if that is the smaller one.   *)
FramesFit ==
  /\ frame # NoFrame /\ encoder.state = "live"
  /\ ~framedIn /\ since \cap {"resume", "overlap"} = {}
  => LET picture == Picture(encoder.params.shape)
     IN  picture \in {QCIF, CIF} => frame = picture

(* "Whether we are streaming or not" (m_recordingStatus): unless two       *)
(* clients share it, it is set only while there is an encoder, across all  *)
(* the posted messages.                                                    *)
RecordingMeansStreaming == recording => encoder.state = "live" \/ "overlap" \in since

(* When nothing is under way a client alone gets the video, encoded with   *)
(* the parameters a "Video parameters already set." would be about.        *)
Agreement ==
  Quiet /\ since = {} =>
    \A c \in Clients : pc[c] = "serving" =>
      /\ recording
      /\ encoder = [state |-> "live", params |-> params]
      /\ port # None /\ sockfd = port
      /\ address = c

(* Where clients come one by one, nothing is open but the connection of    *)
(* the client that is there and the streaming socket, also after a start   *)
(* that failed; and once it has stopped or left, the stream and its socket *)
(* are gone.                                                               *)
LeavesNothing ==
  Quiet /\ "overlap" \notin since =>
    /\ \A f \in Fd :
         fds[f] # "free" => f = port \/ \E c \in Clients : pc[c] = "serving" /\ f = tcp[c]
    /\ (\A c \in Clients : pc[c] = "away" \/ task[c] = "stop") =>
         ~recording /\ port = None

(* Once the last client has left, however their threads overlapped, the    *)
(* server does not encode and is back at the default parameters.           *)
AllGone ==
  Quiet /\ (\A c \in Clients : pc[c] = "away") => ~recording /\ params = Default

(* The camera shows the preview at the size set last: no restart message   *)
(* is lost.  Once it could not be opened, or refused a size, it is gone    *)
(* until the surface is created anew, whatever "Restoring Defaults" says:  *)
(* restartCamera wants it running.                                         *)
CameraServes ==
  Quiet /\ surface = "shown" =>
    IF cameraLost THEN camera = "none" ELSE camera = "running" /\ cameraShape = params.shape

(* A reset whose encoderStart failed: it reports its encoderFinish.        *)
ResetInVain(c) ==
  pc[c] = "serving" /\ task[c] = "reset" /\ encoder.state # "live"

(* Every start of the encoder, for a new client or new parameters, ends in *)
(* frames going to a live encoder, or in the message that it failed, if    *)
(* the client does not ask for something else or leave before, and it is   *)
(* not the start of a reset that failed.                                   *)
Streams ==
  \A c \in Clients :
    pc[c] = "open" ~> \/ recording /\ encoder.state = "live"
                      \/ \E i \in DOMAIN messages : messages[i] = "startFailed"
                      \/ pc[c] = "clear"
                      \/ ResetInVain(c)
                      \/ misuse # "none"
=============================================================================

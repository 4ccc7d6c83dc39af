------------------------ MODULE EncoderServerProofs ------------------------
(***************************************************************************)
(* The safety of the camera server for any clients, shapes, rates and      *)
(* bounds.  What is left when clients are gone, and what the camera shows, *)
(* and how a client is served, is proved for every failure and every       *)
(* scheduling of the UI thread; what the encoder is given, for a UI thread *)
(* that keeps up.                                                          *)
(***************************************************************************)
EXTENDS EncoderServer, WellFoundedInduction, TLAPS

(* What a thread does fits its position.                                   *)
Tasks ==
  \A c \in Clients :
    /\ pc[c] = "recipient" => task[c] = "connect"
    /\ pc[c] \in {"open", "create"} => task[c] \in {"connect", "reset"}
    /\ pc[c] \in {"clear", "finish", "close"} => task[c] # "connect"
    /\ pc[c] = "cleanup" => task[c] = "leave"

(* The last client to leave sets the parameters back.                      *)
ParamsRestored == (\A c \in Clients : pc[c] = "away") => params = Default

(* A client that has stopped, or is gone, was the last to post "stopped":  *)
(* no "started" of others comes after it.                                  *)
Done(c) == pc[c] \in {"away", "cleanup"} \/ (pc[c] = "serving" /\ task[c] = "stop")
StoppedAfter(i) == \E j \in 1 .. Len(messages) : j > i /\ messages[j] = "stopped"
StreamOver ==
  (\A c \in Clients : Done(c)) =>
    /\ recording => StoppedAfter(0)
    /\ \A i \in 1 .. Len(messages) : messages[i] = "started" => StoppedAfter(i)

(* Whoever changes the size posts a "restart", or is on the way to it.     *)
RestartComing ==
  \/ \E i \in 1 .. Len(messages) : messages[i] = "restart"
  \/ \E c \in Clients : pc[c] \in {"clear", "finish", "close"} /\ task[c] = "reset"

CameraFollows ==
  /\ surface = "none" => camera = "none"
  /\ surface = "created" => camera = IF cameraLost THEN "none" ELSE "open"
  /\ surface = "shown" /\ cameraLost => camera = "none"
  /\ surface = "shown" /\ ~cameraLost =>
       camera = "running" /\ (cameraShape = params.shape \/ RestartComing)
  /\ camera = "running" => cameraShape \notin Unsupported

(* As long as clients come one by one, what is open is the connection and  *)
(* the streaming socket, and a live encoder belongs to a client that has   *)
(* the socket.                                                             *)
Streaming(c) == pc[c] \in {"serving", "clear", "finish"} /\ ~Done(c)
Sockets ==
  /\ \A c, d \in Clients : pc[c] # "away" /\ pc[d] # "away" => c = d
  /\ \A c \in Clients : pc[c] # "away" => tcp[c] \in Fd /\ fds[tcp[c]] = "tcp"
  /\ \A f \in Fd :
       fds[f] = "free" \/ f = port \/ \E c \in Clients : pc[c] # "away" /\ f = tcp[c]
  /\ \A c \in Clients : pc[c] = "create" => port = sockfd /\ port # None
  /\ \A c \in Clients : pc[c] = "close" => port = sockfd
  /\ encoder.state = "live" =>
       port = sockfd /\ port # None /\ \E c \in Clients : Streaming(c)
  /\ (\A c \in Clients : Done(c) \/ pc[c] \in {"recipient", "open"}) => port = None

OneByOne == "overlap" \notin since => Sockets

IInv ==
  TypeOK /\ Tasks /\ ParamsRestored /\ StreamOver /\ CameraFollows /\ OneByOne

(* A client alone whose starts were reported and succeeded has a live      *)
(* encoder with its parameters until it stops, and its start is the last   *)
(* message about recording.                                                *)
WillRecord ==
  \/ recording /\ ~StoppedAfter(0)
  \/ \E i \in 1 .. Len(messages) : messages[i] = "started" /\ ~StoppedAfter(i)

Served(c) ==
  /\ pc[c] \notin {"away", "recipient"} => address = c
  /\ pc[c] # "away" /\ task[c] = "stop" => "stop" \in since
  /\ pc[c] \in {"serving", "clear", "finish"} /\ since \cap {"stop", "failed"} = {}
       => encoder.state = "live"
  /\ pc[c] = "create" \/ (pc[c] = "serving" /\ encoder.state = "live")
       => encoder.params = params \/ "resume" \in since
  /\ pc[c] = "serving" /\ since \cap {"stop", "failed"} = {} => WillRecord

Reliable == "overlap" \notin since => \A c \in Clients : Served(c)

(* Where nothing fails that a start needs, no start does.                  *)
NeverFailed ==
  /\ \A c \in Clients : finished[c]
  /\ "overlap" \notin since => "failed" \notin since

(* A UI thread that keeps up has handled every message before a server     *)
(* thread goes on.  It records, and has a frame, only for a live encoder,  *)
(* or after a start that failed; and neither while there is none.          *)
Prompt ==
  /\ Len(messages) <= 1
  /\ "overlap" \notin since =>
       /\ \/ recording
          \/ frame # NoFrame
          \/ \E i \in 1 .. Len(messages) : messages[i] = "started"
          => encoder.state = "live" \/ "failed" \in since
       /\ \A c \in Clients : pc[c] = "finish" => ~recording /\ messages = << >>
       /\ (\A c \in Clients : pc[c] \notin {"serving", "clear", "finish"}) =>
            /\ ~recording /\ frame = NoFrame
            /\ \A i \in 1 .. Len(messages) : messages[i] # "started"

AliveInv == IInv /\ Reliable /\ Prompt /\ EncoderAlive
FrameInv == AliveInv /\ FramesFit

USE DEF threadVars, nativeVars, cameraVars, frameVars, At, Goto, None

-----------------------------------------------------------------------------
(* A set of naturals that is not empty has a least element.                *)
LEMMA MinOfNaturals ==
  ASSUME NEW S, S \subseteq Nat, S # {}
  PROVE  Min(S) \in S
<1>1. PICK x \in S : \A y \in S : ~(<<y, x>> \in OpToRel(<, Nat))
  BY WFMin, NatLessThanWellFounded
<1>2. ASSUME NEW y \in S PROVE x <= y
  <2>1. x \in Nat /\ y \in Nat
    BY <1>2
  <2>2. CASE y < x
    <3>1. <<y, x>> \in OpToRel(<, Nat)
      BY <2>1, <2>2 DEF OpToRel
    <3> QED BY <1>1, <3>1
  <2> QED BY <2>1, <2>2
<1> QED BY <1>2 DEF Min

(* The descriptor that accept and socket return.                           *)
LEMMA LeastFree ==
  ASSUME Free # {}
  PROVE  Min(Free) \in Fd /\ fds[Min(Free)] = "free" /\ Min(Free) # None
<1>1. Free \subseteq Nat /\ Free \subseteq Fd
  BY BoundsAssumption DEF Free, Fd
<1>2. Min(Free) \in Free
  BY <1>1, MinOfNaturals
<1> QED BY <1>1, <1>2, BoundsAssumption DEF Free, Fd

(* A message more, or one less.                                            *)
LEMMA PostTypes ==
  ASSUME TypeOK, NEW message \in Messages, Post(message)
  PROVE  /\ messages' \in Seq(Messages) /\ Len(messages') <= MaxMessages
         /\ Len(messages) \in Nat /\ Len(messages') = Len(messages) + 1
         /\ \A i \in 1 .. Len(messages) : messages'[i] = messages[i]
         /\ messages'[Len(messages')] = message
BY BoundsAssumption DEF TypeOK, Post, Room

(* What is left of the messages once the first is handled.                 *)
LEMMA HandleTypes ==
  ASSUME TypeOK, HandleMessage
  PROVE  /\ messages \in Seq(Messages) /\ messages # << >> /\ Len(messages) \in Nat
         /\ messages' \in Seq(Messages) /\ Len(messages') = Len(messages) - 1
         /\ Head(messages) = messages[1] /\ 1 \in 1 .. Len(messages)
         /\ \A i \in 1 .. Len(messages') :
              i + 1 \in 1 .. Len(messages) /\ messages'[i] = messages[i + 1]
BY DEF TypeOK, HandleMessage

(* What a start posts, and what a finished encoder.                        *)
LEMMA Reports ==
  ASSUME NEW c \in Clients
  PROVE  /\ \A ok : Started(c, ok) =>
              /\ Goto(c, "serving")
              /\ \E m \in {"started", "startFailed"} : Post(m)
              /\ since' \in {since, since \cup {"failed"}}
         /\ Finished(c) => \E m \in {"restart", "stopped"} : Post(m)
BY DEF Started, Finished

(* A thread's own steps remember at most that a start failed.              *)
LEMMA ThreadSince ==
  ASSUME NEW c \in Clients, ThreadStep(c)
  PROVE  since' \in {since, since \cup {"failed"}}
BY Reports DEF ThreadStep, SetRecipient, OpenSocket, CreateEncoder, ClearRecording,
               FinishEncoder, CloseSocket, Cleanup

(* Closing a number leaves the port free or bound to a socket.             *)
LEMMA ReleaseTypes ==
  ASSUME TypeOK, NEW f, Release(f)
  PROVE  /\ fds' \in [Fd -> {"free", "tcp", "udp"}]
         /\ port' = None \/ (port' \in Fd /\ fds'[port'] = "udp")
BY DEF TypeOK, Release

(* The UI thread and the surface leave alone what server threads own.      *)
LEMMA UIKeeps ==
  ASSUME UIStep \/ Lifecycle
  PROVE  /\ UNCHANGED <<threadVars, nativeVars>>
         /\ since' \in {since, since \cup {"resume"}}
BY DEF UIStep, Lifecycle, HandleMessage, ChooseFrame, EncodeFrame, SurfaceCreated,
       SurfaceChanged, SurfaceDestroyed, Resume

-----------------------------------------------------------------------------
(* Every step keeps to the types.                                          *)
LEMMA ThreadTypes ==
  ASSUME TypeOK, Tasks, NEW c \in Clients, ThreadStep(c)
  PROVE  TypeOK'
<1>1. CASE SetRecipient(c)
  BY <1>1 DEF SetRecipient, TypeOK
<1>2. CASE OpenSocket(c)
  <2>1. sockfd' \in Fd \cup {None}
    BY <1>2, LeastFree DEF OpenSocket
  <2>2. /\ fds' \in [Fd -> {"free", "tcp", "udp"}]
        /\ port' = None \/ (port' \in Fd /\ fds'[port'] = "udp")
    <3>1. CASE /\ fds' = [fds EXCEPT ![Min(Free)] = "udp"]
               /\ port' = Min(Free)
      BY <1>2, <3>1, LeastFree DEF OpenSocket, TypeOK
    <3>2. CASE UNCHANGED <<fds, port>>
      BY <3>2 DEF TypeOK
    <3> QED BY <1>2, <3>1, <3>2 DEF OpenSocket
  <2>3. encoder' \in [state : {"null", "live", "dead"}, params : Params]
    <3>1. encoder' \in {encoder, [state |-> "null", params |-> params]}
      BY <1>2 DEF OpenSocket
    <3> QED BY <3>1 DEF TypeOK
  <2>4. /\ messages' \in Seq(Messages) /\ Len(messages') <= MaxMessages
        /\ pc' \in {[pc EXCEPT ![c] = "create"], [pc EXCEPT ![c] = "serving"]}
    <3>1. CASE UNCHANGED messages /\ Goto(c, "create")
      BY <3>1 DEF TypeOK
    <3>2. CASE Started(c, FALSE)
      BY <3>2, Reports, PostTypes DEF Messages
    <3> QED BY <1>2, <3>1, <3>2 DEF OpenSocket
  <2>5. since' \subseteq {"stop", "resume", "failed", "overlap"}
    BY <1>2, ThreadSince DEF ThreadStep, TypeOK
  <2> QED BY <1>2, <2>1, <2>2, <2>3, <2>4, <2>5 DEF OpenSocket, TypeOK
<1>3. CASE CreateEncoder(c)
  <2>1. encoder' \in [state : {"null", "live", "dead"}, params : Params]
    BY <1>3 DEF CreateEncoder, TypeOK
  <2>2. /\ messages' \in Seq(Messages) /\ Len(messages') <= MaxMessages
        /\ pc' = [pc EXCEPT ![c] = "serving"]
    BY <1>3, Reports, PostTypes DEF CreateEncoder, Messages
  <2>3. since' \subseteq {"stop", "resume", "failed", "overlap"}
    BY <1>3, ThreadSince DEF ThreadStep, TypeOK
  <2> QED BY <1>3, <2>1, <2>2, <2>3 DEF CreateEncoder, TypeOK
<1>4. CASE ClearRecording(c)
  <2>1. recording' \in BOOLEAN
    BY <1>4 DEF ClearRecording
  <2> QED BY <1>4, <2>1 DEF ClearRecording, TypeOK
<1>5. CASE FinishEncoder(c)
  <2>1. encoder' \in [state : {"null", "live", "dead"}, params : Params]
    BY <1>5 DEF FinishEncoder, TypeOK
  <2>2. finished' \in [Clients -> BOOLEAN]
    BY <1>5 DEF FinishEncoder, TypeOK
  <2>3. /\ pc' \in {pc, [pc EXCEPT ![c] = "close"]} /\ misuse' \in {misuse, "deadEncoder"}
        /\ UNCHANGED <<task, tcp, params, recording, fds, sockfd, port, address, messages,
                       cameraVars, frameVars, since>>
    BY <1>5 DEF FinishEncoder
  <2> QED BY <2>1, <2>2, <2>3 DEF TypeOK
<1>6. CASE CloseSocket(c)
  <2>1. /\ messages' \in Seq(Messages) /\ Len(messages') <= MaxMessages
    BY <1>6, Reports, PostTypes DEF CloseSocket, Messages
  <2>2. /\ fds' \in [Fd -> {"free", "tcp", "udp"}]
        /\ port' = None \/ (port' \in Fd /\ fds'[port'] = "udp")
    BY <1>6, ReleaseTypes DEF CloseSocket
  <2>3. task[c] \in {"reset", "stop", "leave"}
    BY <1>6 DEF CloseSocket, TypeOK, Tasks
  <2>4. \E where \in {"open", "serving", "cleanup"} : pc' = [pc EXCEPT ![c] = where]
    BY <1>6, <2>3 DEF CloseSocket
  <2>5. UNCHANGED <<task, finished, tcp, params, recording, encoder, sockfd, address,
                    cameraVars, frameVars, misuse, since>>
    BY <1>6 DEF CloseSocket
  <2> QED BY <2>1, <2>2, <2>4, <2>5 DEF TypeOK
<1>7. CASE Cleanup(c)
  <2>1. /\ messages' \in Seq(Messages) /\ Len(messages') <= MaxMessages
    BY <1>7, PostTypes DEF Cleanup, Messages
  <2>2. /\ fds' \in [Fd -> {"free", "tcp", "udp"}]
        /\ port' = None \/ (port' \in Fd /\ fds'[port'] = "udp")
    BY <1>7, ReleaseTypes DEF Cleanup
  <2>3. Default \in Params
    BY ShapesAssumption, RatesAssumption DEF Default, Params
  <2> QED BY <1>7, <2>1, <2>2, <2>3 DEF Cleanup, TypeOK
<1> QED BY <1>1, <1>2, <1>3, <1>4, <1>5, <1>6, <1>7 DEF ThreadStep

(* So does what a client asks for.                                         *)
LEMMA ClientTypes ==
  ASSUME TypeOK, NEW c \in Clients, ClientStep(c)
  PROVE  TypeOK'
<1>1. CASE Accept(c)
  <2>1. /\ fds' \in [Fd -> {"free", "tcp", "udp"}] /\ tcp' \in [Clients -> Fd \cup {None}]
        /\ port' = None \/ (port' \in Fd /\ fds'[port'] = "udp")
    BY <1>1, LeastFree DEF Accept, TypeOK
  <2>2. since' \subseteq {"stop", "resume", "failed", "overlap"}
    BY <1>1 DEF Accept, TypeOK
  <2> QED BY <1>1, <2>1, <2>2 DEF Accept, TypeOK
<1>2. CASE Disconnect(c)
  BY <1>2 DEF Disconnect, TypeOK
<1>3. ASSUME NEW r \in Rates, ChangeRate(c, r) PROVE TypeOK'
  <2>1. params' \in Params /\ encoder' \in [state : {"null", "live", "dead"}, params : Params]
    BY <1>3 DEF ChangeRate, TypeOK, Params
  <2> QED BY <1>3, <2>1 DEF ChangeRate, TypeOK
<1>4. ASSUME NEW p \in Params, ChangeShape(c, p) PROVE TypeOK'
  BY <1>4 DEF ChangeShape, TypeOK
<1>5. ASSUME NEW operation, Stop(c, operation) PROVE TypeOK'
  BY <1>5 DEF Stop, TypeOK
<1> QED BY <1>1, <1>2, <1>3, <1>4, <1>5 DEF ClientStep

(* So does the UI thread.                                                  *)
LEMMA UITypes ==
  ASSUME TypeOK, UIStep \/ Lifecycle
  PROVE  TypeOK'
<1>1. \A shape \in Shapes : Setup(shape) \/ RestartCamera(shape) =>
        camera' \in {"none", "open", "running"} /\ cameraShape' \in Shapes /\ cameraLost' \in BOOLEAN
  BY DEF Setup, RestartCamera, TypeOK
<1>2. params.shape \in Shapes /\ DefaultShape \in Shapes
  BY ShapesAssumption DEF TypeOK, Params
<1>3. CASE HandleMessage
  <2>1. messages' \in Seq(Messages) /\ Len(messages') <= MaxMessages
    BY <1>3, HandleTypes, BoundsAssumption DEF TypeOK
  <2>2. recording' \in BOOLEAN
    BY <1>3 DEF HandleMessage, TypeOK
  <2>3. camera' \in {"none", "open", "running"} /\ cameraShape' \in Shapes /\ cameraLost' \in BOOLEAN
    BY <1>1, <1>2, <1>3 DEF HandleMessage, TypeOK
  <2> QED BY <1>3, <2>1, <2>2, <2>3 DEF HandleMessage, TypeOK
<1>4. CASE SurfaceCreated \/ SurfaceDestroyed
  <2>1. camera' \in {"none", "open", "running"} /\ surface' \in {"none", "created"}
    BY <1>4 DEF SurfaceCreated, SurfaceDestroyed, StartCamera
  <2>2. cameraLost' \in BOOLEAN
    BY <1>4 DEF SurfaceCreated, SurfaceDestroyed, StartCamera, TypeOK
  <2> QED BY <1>4, <2>1, <2>2 DEF SurfaceCreated, SurfaceDestroyed, TypeOK
<1>5. CASE SurfaceChanged
  <2>1. camera' \in {"none", "open", "running"} /\ cameraShape' \in Shapes /\ cameraLost' \in BOOLEAN
    BY <1>1, <1>2, <1>5 DEF SurfaceChanged, TypeOK
  <2> QED BY <1>5, <2>1 DEF SurfaceChanged, TypeOK
<1>6. CASE Resume
  <2>1. camera' \in {"none", "open", "running"} /\ cameraShape' \in Shapes /\ cameraLost' \in BOOLEAN
    BY <1>1, <1>2, <1>6 DEF Resume, TypeOK
  <2>2. Default \in Params
    BY ShapesAssumption, RatesAssumption DEF Default, Params
  <2> QED BY <1>6, <2>1, <2>2 DEF Resume, TypeOK
<1>7. CASE ChooseFrame
  <2>1. frame' \in {NoFrame, QCIF, CIF}
    BY <1>7 DEF ChooseFrame, TestVideo
  <2>2. framedIn' \in BOOLEAN
    BY <1>7 DEF ChooseFrame
  <2> QED BY <1>7, <2>1, <2>2 DEF ChooseFrame, TypeOK
<1>8. CASE EncodeFrame
  BY <1>8 DEF EncodeFrame, TypeOK
<1> QED BY <1>3, <1>4, <1>5, <1>6, <1>7, <1>8 DEF UIStep, Lifecycle

(* So does every step, given that tasks fit positions.                     *)
LEMMA TypeStep ==
  ASSUME TypeOK, Tasks, Next
  PROVE  TypeOK'
BY ThreadTypes, ClientTypes, UITypes DEF Next

-----------------------------------------------------------------------------
(* The moves of a client's thread.  The others stay where they are.        *)
LEMMA Moves ==
  ASSUME TypeOK, Tasks, NEW c \in Clients, ThreadStep(c) \/ ClientStep(c)
  PROVE  /\ pc' = [pc EXCEPT ![c] = pc'[c]] /\ task' = [task EXCEPT ![c] = task'[c]]
         /\ \A d \in Clients \ {c} : pc'[d] = pc[d] /\ task'[d] = task[d]
<1> USE DEF TypeOK
<1>1. CASE SetRecipient(c) \/ ClearRecording(c) \/ Cleanup(c)
  BY <1>1 DEF SetRecipient, ClearRecording, Cleanup
<1>2. CASE OpenSocket(c) \/ CreateEncoder(c)
  BY <1>2, Reports DEF OpenSocket, CreateEncoder
<1>3. CASE FinishEncoder(c)
  BY <1>3 DEF FinishEncoder
<1>4. CASE CloseSocket(c)
  <2>1. task[c] \in {"reset", "stop", "leave"}
    BY <1>4 DEF CloseSocket, Tasks
  <2> QED BY <1>4, <2>1 DEF CloseSocket
<1>5. CASE Accept(c) \/ Disconnect(c)
  BY <1>5 DEF Accept, Disconnect
<1>6. CASE \E r \in Rates : ChangeRate(c, r)
  BY <1>6 DEF ChangeRate
<1>7. CASE \E p \in Params : ChangeShape(c, p)
  BY <1>7 DEF ChangeShape
<1>8. CASE \E operation \in {"stop", "update"} : Stop(c, operation)
  BY <1>8 DEF Stop
<1> QED BY <1>1, <1>2, <1>3, <1>4, <1>5, <1>6, <1>7, <1>8 DEF ThreadStep, ClientStep

(* Where a thread comes from and goes to.                                  *)
LEMMA Positions ==
  ASSUME TypeOK, Tasks, NEW c \in Clients
  PROVE  /\ SetRecipient(c) => pc[c] = "recipient" /\ pc'[c] = "open" /\ task'[c] = task[c]
         /\ OpenSocket(c) =>
              pc[c] = "open" /\ pc'[c] \in {"create", "serving"} /\ task'[c] = task[c]
         /\ CreateEncoder(c) => pc[c] = "create" /\ pc'[c] = "serving" /\ task'[c] = task[c]
         /\ ClearRecording(c) => pc[c] = "clear" /\ pc'[c] = "finish" /\ task'[c] = task[c]
         /\ FinishEncoder(c) =>
              pc[c] = "finish" /\ pc'[c] \in {"finish", "close"} /\ task'[c] = task[c]
         /\ CloseSocket(c) =>
              /\ pc[c] = "close" /\ task'[c] = task[c]
              /\ \/ task[c] = "reset" /\ pc'[c] = "open"
                 \/ task[c] = "stop" /\ pc'[c] = "serving"
                 \/ task[c] = "leave" /\ pc'[c] = "cleanup"
         /\ Cleanup(c) => pc[c] = "cleanup" /\ pc'[c] = "away" /\ task'[c] = task[c]
         /\ Accept(c) => pc[c] = "away" /\ pc'[c] = "recipient" /\ task'[c] = "connect"
         /\ Disconnect(c) => pc[c] = "serving" /\ pc'[c] = "clear" /\ task'[c] = "leave"
         /\ \A r : ChangeRate(c, r) => pc[c] = "serving" /\ UNCHANGED <<pc, task>>
         /\ \A p : ChangeShape(c, p) => pc[c] = "serving" /\ pc'[c] = "clear" /\ task'[c] = "reset"
         /\ \A operation : Stop(c, operation) =>
              pc[c] = "serving" /\ pc'[c] = "clear" /\ task'[c] = "stop"
<1> USE DEF TypeOK
<1>1. SetRecipient(c) => pc[c] = "recipient" /\ pc'[c] = "open" /\ task'[c] = task[c]
  BY DEF SetRecipient
<1>2. OpenSocket(c) =>
        pc[c] = "open" /\ pc'[c] \in {"create", "serving"} /\ task'[c] = task[c]
  BY Reports DEF OpenSocket
<1>3. CreateEncoder(c) => pc[c] = "create" /\ pc'[c] = "serving" /\ task'[c] = task[c]
  BY Reports DEF CreateEncoder
<1>4. ClearRecording(c) => pc[c] = "clear" /\ pc'[c] = "finish" /\ task'[c] = task[c]
  BY DEF ClearRecording
<1>5. FinishEncoder(c) =>
        pc[c] = "finish" /\ pc'[c] \in {"finish", "close"} /\ task'[c] = task[c]
  BY DEF FinishEncoder
<1>6. CloseSocket(c) =>
        /\ pc[c] = "close" /\ task'[c] = task[c]
        /\ \/ task[c] = "reset" /\ pc'[c] = "open"
           \/ task[c] = "stop" /\ pc'[c] = "serving"
           \/ task[c] = "leave" /\ pc'[c] = "cleanup"
  <2> SUFFICES ASSUME CloseSocket(c)
               PROVE  /\ pc[c] = "close" /\ task'[c] = task[c]
                      /\ \/ task[c] = "reset" /\ pc'[c] = "open"
                         \/ task[c] = "stop" /\ pc'[c] = "serving"
                         \/ task[c] = "leave" /\ pc'[c] = "cleanup"
    OBVIOUS
  <2>1. pc[c] = "close" /\ task' = task
    BY DEF CloseSocket
  <2>2. task[c] \in {"reset", "stop", "leave"}
    BY <2>1 DEF Tasks
  <2>3. CASE task[c] = "reset"
    BY <2>3 DEF CloseSocket
  <2>4. CASE task[c] = "stop"
    BY <2>4 DEF CloseSocket
  <2>5. CASE task[c] = "leave"
    BY <2>5 DEF CloseSocket
  <2> QED BY <2>1, <2>2, <2>3, <2>4, <2>5
<1>7. Cleanup(c) => pc[c] = "cleanup" /\ pc'[c] = "away" /\ task'[c] = task[c]
  BY DEF Cleanup
<1>8. Accept(c) => pc[c] = "away" /\ pc'[c] = "recipient" /\ task'[c] = "connect"
  BY DEF Accept
<1>9. Disconnect(c) => pc[c] = "serving" /\ pc'[c] = "clear" /\ task'[c] = "leave"
  BY DEF Disconnect
<1>10. \A r : ChangeRate(c, r) => pc[c] = "serving" /\ UNCHANGED <<pc, task>>
  BY DEF ChangeRate
<1>11. \A p : ChangeShape(c, p) => pc[c] = "serving" /\ pc'[c] = "clear" /\ task'[c] = "reset"
  BY DEF ChangeShape
<1>12. \A operation : Stop(c, operation) =>
         pc[c] = "serving" /\ pc'[c] = "clear" /\ task'[c] = "stop"
  BY DEF Stop
<1> QED BY <1>1, <1>2, <1>3, <1>4, <1>5, <1>6, <1>7, <1>8, <1>9, <1>10, <1>11, <1>12

(* A thread's task goes on fitting its position.                           *)
LEMMA TasksStep ==
  ASSUME TypeOK, Tasks, Next
  PROVE  Tasks'
<1>1. ASSUME NEW c \in Clients, ThreadStep(c) \/ ClientStep(c) PROVE Tasks'
  <2>1. \A d \in Clients \ {c} : pc'[d] = pc[d] /\ task'[d] = task[d]
    BY <1>1, Moves
  <2>2. /\ pc'[c] = "recipient" => task'[c] = "connect"
        /\ pc'[c] \in {"open", "create"} => task'[c] \in {"connect", "reset"}
        /\ pc'[c] \in {"clear", "finish", "close"} => task'[c] # "connect"
        /\ pc'[c] = "cleanup" => task'[c] = "leave"
    BY <1>1, Positions DEF Tasks, ThreadStep, ClientStep
  <2> QED BY <2>1, <2>2 DEF Tasks
<1>2. CASE UIStep \/ Lifecycle
  BY <1>2, UIKeeps DEF Tasks
<1> QED BY <1>1, <1>2 DEF Next

(* Only a client that stays changes the parameters, and one that leaves    *)
(* sets them back.                                                         *)
LEMMA ParamsStep ==
  ASSUME TypeOK, Tasks, ParamsRestored, Next
  PROVE  ParamsRestored'
<1> SUFFICES ASSUME \A d \in Clients : pc'[d] = "away" PROVE params' = Default
  BY DEF ParamsRestored
<1>1. ASSUME NEW c \in Clients, ThreadStep(c) \/ ClientStep(c) PROVE params' = Default
  <2>1. Cleanup(c)
    BY <1>1, Positions DEF ThreadStep, ClientStep
  <2> QED BY <2>1 DEF Cleanup
<1>2. CASE UIStep \/ Lifecycle
  <2>1. params' \in {params, Default}
    BY <1>2 DEF UIStep, Lifecycle, HandleMessage, ChooseFrame, EncodeFrame, SurfaceCreated,
                SurfaceChanged, SurfaceDestroyed, Resume
  <2> QED BY <1>2, <2>1, UIKeeps DEF ParamsRestored
<1> QED BY <1>1, <1>2 DEF Next

(* A client that is done has posted "stopped" last, and adds no "started". *)
LEMMA StreamStep ==
  ASSUME TypeOK, Tasks, StreamOver, Next
  PROVE  StreamOver'
<1> DEFINE Over == /\ recording => StoppedAfter(0)
                   /\ \A i \in 1 .. Len(messages) : messages[i] = "started" => StoppedAfter(i)
<1> SUFFICES ASSUME \A d \in Clients : Done(d)' PROVE Over'
  BY DEF StreamOver
<1>1. ASSUME NEW c \in Clients, ThreadStep(c) \/ ClientStep(c) PROVE Over'
  <2>1. Cleanup(c) \/ CloseSocket(c) \/ \E r \in Rates : ChangeRate(c, r)
    <3>1. Done(c)'
      OBVIOUS
    <3> QED BY <1>1, <3>1, Positions DEF Done, ThreadStep, ClientStep, Tasks
  <2>2. CASE Cleanup(c)
    <3>1. \A d \in Clients : Done(d)
      BY <1>1, <2>2, Moves, Positions DEF Done
    <3>2. Post("restart") /\ recording' = recording
      BY <2>2 DEF Cleanup
    <3>3. /\ Len(messages) \in Nat /\ Len(messages') = Len(messages) + 1
          /\ \A i \in 1 .. Len(messages) : messages'[i] = messages[i]
          /\ messages'[Len(messages')] = "restart"
      BY <3>2, PostTypes DEF Messages
    <3>4. \A i : StoppedAfter(i) => StoppedAfter(i)'
      BY <3>3 DEF StoppedAfter
    <3> QED BY <3>1, <3>2, <3>3, <3>4 DEF StreamOver
  <2>3. CASE CloseSocket(c)
    <3>1. task[c] # "reset"
      BY <2>3, Positions DEF Done
    <3>2. Post("stopped")
      BY <2>3, <3>1 DEF CloseSocket, Finished
    <3>3. /\ Len(messages) \in Nat /\ Len(messages') = Len(messages) + 1
          /\ messages'[Len(messages')] = "stopped"
      BY <3>2, PostTypes DEF Messages
    <3>4. \A i \in 0 .. Len(messages) : StoppedAfter(i)'
      BY <3>3 DEF StoppedAfter
    <3> QED BY <3>3, <3>4
  <2>4. CASE \E r \in Rates : ChangeRate(c, r)
    <3>1. UNCHANGED <<pc, task, recording, messages>>
      BY <2>4 DEF ChangeRate
    <3> QED BY <3>1 DEF StreamOver, Done, StoppedAfter
  <2> QED BY <2>1, <2>2, <2>3, <2>4
<1>2. CASE HandleMessage
  <2>1. Over
    BY <1>2, UIKeeps DEF UIStep, StreamOver, Done
  <2>2. /\ Len(messages) \in Nat /\ Len(messages') = Len(messages) - 1
        /\ Head(messages) = messages[1] /\ 1 \in 1 .. Len(messages)
        /\ \A i \in 1 .. Len(messages') :
             i + 1 \in 1 .. Len(messages) /\ messages'[i] = messages[i + 1]
    BY <1>2, HandleTypes
  <2>3. ASSUME NEW i \in 0 .. Len(messages'), StoppedAfter(i + 1) PROVE StoppedAfter(i)'
    <3>1. PICK j \in 1 .. Len(messages) : j > i + 1 /\ messages[j] = "stopped"
      BY <2>3 DEF StoppedAfter
    <3>2. j - 1 \in 1 .. Len(messages') /\ j - 1 > i /\ messages'[j - 1] = "stopped"
      BY <2>2, <3>1
    <3> QED BY <3>2 DEF StoppedAfter
  <2>4. ASSUME recording' PROVE StoppedAfter(0)'
    <3>1. messages[1] = "started" \/ (recording /\ messages[1] # "stopped")
      BY <1>2, <2>2, <2>4 DEF HandleMessage
    <3>2. CASE messages[1] = "started"
      BY <2>1, <2>2, <2>3, <3>2
    <3>3. CASE recording /\ messages[1] # "stopped"
      <4>1. StoppedAfter(0)
        BY <2>1, <3>3
      <4>2. StoppedAfter(1)
        BY <2>2, <3>3, <4>1 DEF StoppedAfter
      <4> QED BY <2>2, <2>3, <4>2
    <3> QED BY <3>1, <3>2, <3>3
  <2>5. ASSUME NEW i \in 1 .. Len(messages'), messages'[i] = "started" PROVE StoppedAfter(i)'
    BY <2>1, <2>2, <2>3, <2>5
  <2> QED BY <2>4, <2>5
<1>3. CASE ChooseFrame \/ EncodeFrame \/ Lifecycle
  <2>1. UNCHANGED <<pc, task, recording, messages>>
    BY <1>3 DEF ChooseFrame, EncodeFrame, Lifecycle, SurfaceCreated, SurfaceChanged,
                SurfaceDestroyed, Resume
  <2> QED BY <2>1 DEF StreamOver, Done, StoppedAfter
<1> QED BY <1>1, <1>2, <1>3 DEF Next, UIStep

-----------------------------------------------------------------------------
(* A "restart" that is coming comes, unless it is the message handled.     *)
LEMMA RestartStays ==
  ASSUME TypeOK, Tasks, NEW c \in Clients, ThreadStep(c) \/ ClientStep(c), RestartComing
  PROVE  RestartComing'
<1>1. ASSUME NEW m \in Messages, Post(m), \E i \in 1 .. Len(messages) : messages[i] = "restart"
      PROVE  RestartComing'
  <2>1. PICK i \in 1 .. Len(messages) : messages[i] = "restart"
    BY <1>1
  <2>2. i \in 1 .. Len(messages') /\ messages'[i] = "restart"
    BY <1>1, <2>1, PostTypes
  <2> QED BY <2>2 DEF RestartComing
<1>2. CASE \E i \in 1 .. Len(messages) : messages[i] = "restart"
  <2>1. UNCHANGED messages \/ \E m \in Messages : Post(m)
    <3>1. CASE OpenSocket(c) \/ CreateEncoder(c)
      BY <3>1, Reports DEF OpenSocket, CreateEncoder, Messages
    <3>2. CASE CloseSocket(c) \/ Cleanup(c)
      BY <3>2, Reports DEF CloseSocket, Cleanup, Messages
    <3>3. CASE SetRecipient(c) \/ ClearRecording(c) \/ FinishEncoder(c) \/ ClientStep(c)
      BY <3>3 DEF SetRecipient, ClearRecording, FinishEncoder, ClientStep, Accept, Disconnect,
                  ChangeRate, ChangeShape, Stop
    <3> QED BY <3>1, <3>2, <3>3 DEF ThreadStep
  <2> QED BY <1>1, <1>2, <2>1 DEF RestartComing
<1>3. ASSUME NEW d \in Clients, pc[d] \in {"clear", "finish", "close"}, task[d] = "reset"
      PROVE  RestartComing'
  <2>1. CASE d # c
    BY <1>3, <2>1, Moves DEF RestartComing
  <2>2. CASE d = c
    <3>1. ClearRecording(c) \/ FinishEncoder(c) \/ CloseSocket(c)
      BY <1>3, <2>2, Positions DEF ThreadStep, ClientStep
    <3>2. CASE ClearRecording(c) \/ FinishEncoder(c)
      BY <1>3, <2>2, <3>2, Positions DEF RestartComing
    <3>3. CASE CloseSocket(c)
      <4>1. Post("restart")
        BY <1>3, <2>2, <3>3 DEF CloseSocket, Finished
      <4>2. Len(messages') \in 1 .. Len(messages') /\ messages'[Len(messages')] = "restart"
        BY <4>1, PostTypes DEF Messages
      <4> QED BY <4>2 DEF RestartComing
    <3> QED BY <3>1, <3>2, <3>3
  <2> QED BY <2>1, <2>2
<1> QED BY <1>2, <1>3 DEF RestartComing

(* Server threads do not touch the camera; who changes the size announces  *)
(* a restart.                                                              *)
LEMMA CameraServerStep ==
  ASSUME TypeOK, Tasks, CameraFollows, NEW c \in Clients, ThreadStep(c) \/ ClientStep(c)
  PROVE  CameraFollows'
<1>1. UNCHANGED cameraVars
  BY DEF ThreadStep, ClientStep, SetRecipient, OpenSocket, CreateEncoder, ClearRecording,
         FinishEncoder, CloseSocket, Cleanup, Accept, Disconnect, ChangeRate, ChangeShape, Stop
<1>2. params'.shape = params.shape \/ RestartComing'
  <2>1. CASE \E r \in Rates : ChangeRate(c, r)
    BY <2>1 DEF ChangeRate, TypeOK, Params
  <2>2. CASE \E p \in Params : ChangeShape(c, p)
    BY <2>2, Positions DEF RestartComing
  <2>3. CASE Cleanup(c)
    <3>1. Len(messages') \in 1 .. Len(messages') /\ messages'[Len(messages')] = "restart"
      BY <2>3, PostTypes DEF Cleanup, Messages
    <3> QED BY <3>1 DEF RestartComing
  <2>4. CASE ~(Cleanup(c) \/ (\E r \in Rates : ChangeRate(c, r))
                          \/ (\E p \in Params : ChangeShape(c, p)))
    BY <2>4 DEF ThreadStep, ClientStep, SetRecipient, OpenSocket, CreateEncoder, ClearRecording,
                FinishEncoder, CloseSocket, Accept, Disconnect, Stop
  <2> QED BY <2>1, <2>2, <2>3, <2>4
<1> QED BY <1>1, <1>2, RestartStays DEF CameraFollows

(* The UI thread gives the camera the size that is set, or closes it.      *)
LEMMA CameraUIStep ==
  ASSUME TypeOK, CameraFollows, UIStep \/ Lifecycle
  PROVE  CameraFollows'
<1>1. UNCHANGED <<pc, task>>
  BY UIKeeps
<1>2. ASSUME UNCHANGED <<camera, cameraShape, cameraLost, surface, params>>,
             RestartComing => RestartComing'
      PROVE  CameraFollows'
  BY <1>2 DEF CameraFollows
<1>3. CASE HandleMessage
  <2>1. UNCHANGED <<surface, params>>
    BY <1>3 DEF HandleMessage
  <2>2. CASE Head(messages) = "restart"
    <3>1. RestartCamera(params.shape)
      BY <1>3, <2>2 DEF HandleMessage
    <3>2. CASE camera = "running"
      <4>1. surface = "shown" /\ ~cameraLost
        BY <3>2 DEF CameraFollows, TypeOK
      <4> QED BY <2>1, <3>1, <3>2, <4>1 DEF RestartCamera, Setup, CameraFollows
    <3>3. CASE camera # "running"
      <4>1. ~(surface = "shown" /\ ~cameraLost) /\ UNCHANGED <<camera, cameraShape, cameraLost>>
        BY <3>1, <3>3 DEF RestartCamera, CameraFollows
      <4> QED BY <2>1, <3>3, <4>1 DEF CameraFollows
    <3> QED BY <3>2, <3>3
  <2>3. CASE Head(messages) # "restart"
    <3>1. UNCHANGED <<camera, cameraShape, cameraLost>>
      BY <1>3, <2>3 DEF HandleMessage
    <3>2. ASSUME NEW i \in 1 .. Len(messages), messages[i] = "restart"
          PROVE  \E j \in 1 .. Len(messages') : messages'[j] = "restart"
      <4>1. i # 1 /\ Len(messages) \in Nat /\ Len(messages') = Len(messages) - 1
        BY <1>3, <2>3, <3>2, HandleTypes
      <4>2. i - 1 \in 1 .. Len(messages')
        BY <4>1
      <4>3. messages'[i - 1] = messages[i]
        BY <1>3, <4>1, <4>2, HandleTypes
      <4> QED BY <3>2, <4>2, <4>3
    <3>3. RestartComing => RestartComing'
      BY <1>1, <3>2 DEF RestartComing
    <3> QED BY <1>2, <2>1, <3>1, <3>3
  <2> QED BY <2>2, <2>3
<1>4. CASE SurfaceCreated \/ SurfaceDestroyed
  BY <1>4 DEF SurfaceCreated, SurfaceDestroyed, StartCamera, CameraFollows
<1>5. CASE SurfaceChanged
  <2>1. surface' = "shown" /\ UNCHANGED <<params, messages, pc, task>>
    BY <1>5 DEF SurfaceChanged
  <2>2. CASE camera = "open"
    <3>1. surface = "created" /\ Setup(params.shape) /\ ~cameraLost
      BY <1>5, <2>2 DEF SurfaceChanged, CameraFollows, TypeOK
    <3> QED BY <2>1, <3>1 DEF Setup, CameraFollows
  <2>3. CASE camera # "open"
    <3>1. UNCHANGED <<camera, cameraShape, cameraLost>>
      BY <1>5, <2>3 DEF SurfaceChanged
    <3>2. CASE surface = "shown"
      BY <1>2, <2>1, <3>1, <3>2 DEF RestartComing
    <3>3. CASE surface = "created"
      <4>1. camera = "none" /\ cameraLost
        BY <2>3, <3>3 DEF CameraFollows, TypeOK
      <4> QED BY <2>1, <3>1, <4>1 DEF CameraFollows
    <3> QED BY <1>5, <3>2, <3>3 DEF SurfaceChanged, TypeOK
  <2> QED BY <2>2, <2>3
<1>6. CASE Resume
  <2>1. /\ params' = Default /\ Default.shape = DefaultShape
        /\ DefaultShape \notin Unsupported
        /\ RestartCamera(DefaultShape) /\ UNCHANGED surface
    BY <1>6, ShapesAssumption DEF Resume, Default
  <2>2. CASE camera = "running"
    <3>1. surface = "shown" /\ ~cameraLost
      BY <2>2 DEF CameraFollows, TypeOK
    <3> QED BY <2>1, <2>2, <3>1 DEF RestartCamera, Setup, CameraFollows
  <2>3. CASE camera # "running"
    BY <2>1, <2>3 DEF RestartCamera, CameraFollows
  <2> QED BY <2>2, <2>3
<1>7. CASE ChooseFrame \/ EncodeFrame
  BY <1>2, <1>7 DEF ChooseFrame, EncodeFrame, RestartComing
<1> QED BY <1>3, <1>4, <1>5, <1>6, <1>7 DEF UIStep, Lifecycle

(* The camera goes on following.                                           *)
LEMMA CameraStep ==
  ASSUME TypeOK, Tasks, CameraFollows, Next
  PROVE  CameraFollows'
BY CameraServerStep, CameraUIStep DEF Next

-----------------------------------------------------------------------------
(* The descriptors while clients come one by one.                          *)
LEMMA Alone ==
  ASSUME TypeOK, Sockets, NEW c \in Clients, pc[c] # "away"
  PROVE  /\ \A d \in Clients \ {c} : pc[d] = "away" /\ Done(d) /\ ~Streaming(d)
         /\ tcp[c] \in Fd /\ fds[tcp[c]] = "tcp" /\ tcp[c] # port /\ tcp[c] # None
         /\ \A f \in Fd : fds[f] = "free" \/ f = port \/ f = tcp[c]
         /\ encoder.state = "live" =>
              Streaming(c) /\ port = sockfd /\ port # None
         /\ Done(c) \/ pc[c] \in {"recipient", "open"} => port = None
<1>1. \A d \in Clients \ {c} : pc[d] = "away" /\ Done(d) /\ ~Streaming(d)
  BY DEF Sockets, Done, Streaming
<1>2. tcp[c] \in Fd /\ fds[tcp[c]] = "tcp"
  BY DEF Sockets
<1>3. tcp[c] # port /\ tcp[c] # None
  BY <1>2, BoundsAssumption DEF TypeOK, Fd
<1>4. \A f \in Fd : fds[f] = "free" \/ f = port \/ f = tcp[c]
  BY <1>1 DEF Sockets
<1>5. encoder.state = "live" => Streaming(c) /\ port = sockfd /\ port # None
  BY <1>1 DEF Sockets
<1>6. Done(c) \/ pc[c] \in {"recipient", "open"} => port = None
  BY <1>1 DEF Sockets
<1> QED BY <1>1, <1>2, <1>3, <1>4, <1>5, <1>6

(* With one client there, what it is and has decides about the sockets.    *)
LEMMA SocketsAlone ==
  ASSUME NEW c \in Clients,
         \A d \in Clients \ {c} : pc'[d] = "away",
         pc'[c] # "away",
         tcp'[c] \in Fd /\ fds'[tcp'[c]] = "tcp",
         \A f \in Fd : fds'[f] = "free" \/ f = port' \/ f = tcp'[c],
         pc'[c] = "create" => port' = sockfd' /\ port' # None,
         pc'[c] = "close" => port' = sockfd',
         encoder'.state = "live" => port' = sockfd' /\ port' # None /\ Streaming(c)',
         Done(c)' \/ pc'[c] \in {"recipient", "open"} => port' = None
  PROVE  Sockets'
BY DEF Sockets, Done

(* A thread opens, keeps and closes its own descriptors.                   *)
LEMMA SocketsThreadStep ==
  ASSUME TypeOK, Tasks, Sockets, NEW c \in Clients, ThreadStep(c)
  PROVE  Sockets'
<1>1. pc[c] # "away"
  BY Positions DEF ThreadStep
<1>2. \A d \in Clients \ {c} : pc'[d] = "away"
  BY <1>1, Alone, Moves
<1>3. CASE SetRecipient(c)
  <2>1. UNCHANGED <<task, tcp, fds, sockfd, port, encoder>>
    BY <1>3 DEF SetRecipient
  <2> QED BY <1>1, <1>2, <1>3, <2>1, Alone, Positions, SocketsAlone DEF Streaming, Done
<1>4. CASE OpenSocket(c)
  <2>1. UNCHANGED <<task, tcp>> /\ pc[c] = "open" /\ port = None /\ encoder.state # "live"
    BY <1>1, <1>4, Alone, Positions DEF OpenSocket, Streaming
  <2>2. CASE /\ sockfd' = Min(Free) /\ fds' = [fds EXCEPT ![sockfd'] = "udp"]
             /\ port' = sockfd' /\ encoder' = [state |-> "null", params |-> params]
             /\ Goto(c, "create")
    <3>1. /\ sockfd' \in Fd /\ fds[sockfd'] = "free" /\ sockfd' # None
      BY <1>4, <2>2, LeastFree DEF OpenSocket
    <3>2. tcp[c] \in Fd /\ fds[tcp[c]] = "tcp" /\ \A f \in Fd : fds[f] = "free" \/ f = tcp[c]
      BY <1>1, <2>1, Alone, BoundsAssumption DEF Fd
    <3>3. fds'[tcp[c]] = "tcp" /\ \A f \in Fd : fds'[f] = "free" \/ f = port' \/ f = tcp[c]
      BY <2>2, <3>1, <3>2 DEF TypeOK
    <3>4. pc'[c] = "create" /\ encoder'.state # "live"
      BY <2>2 DEF TypeOK
    <3> QED BY <1>2, <2>1, <2>2, <3>1, <3>2, <3>3, <3>4, SocketsAlone DEF Done
  <2>3. CASE Started(c, FALSE) /\ UNCHANGED <<fds, port, encoder>>
    <3>1. pc'[c] = "serving"
      BY <2>3, Reports DEF TypeOK
    <3> QED BY <1>1, <1>2, <2>1, <2>3, <3>1, Alone, SocketsAlone
  <2> QED BY <1>4, <2>2, <2>3 DEF OpenSocket
<1>5. CASE CreateEncoder(c)
  <2>1. UNCHANGED <<task, tcp, fds, sockfd, port>> /\ pc[c] = "create" /\ pc'[c] = "serving"
    BY <1>5, Positions DEF CreateEncoder
  <2>2. port = sockfd /\ port # None
    BY <2>1 DEF Sockets
  <2>3. task[c] # "stop"
    BY <2>1 DEF Tasks
  <2> QED BY <1>1, <1>2, <2>1, <2>2, <2>3, Alone, SocketsAlone DEF Done, Streaming
<1>6. CASE ClearRecording(c)
  <2>1. UNCHANGED <<task, tcp, fds, sockfd, port, encoder>> /\ pc[c] = "clear" /\ pc'[c] = "finish"
    BY <1>6, Positions DEF ClearRecording
  <2> QED BY <1>1, <1>2, <2>1, Alone, SocketsAlone DEF Done, Streaming
<1>7. CASE FinishEncoder(c)
  <2>1. UNCHANGED <<task, tcp, fds, sockfd, port>> /\ pc[c] = "finish"
    BY <1>7, Positions DEF FinishEncoder
  <2>2. CASE /\ encoder.state = "live" /\ encoder' = [encoder EXCEPT !.state = "dead"]
             /\ Goto(c, "close")
    <3>1. encoder'.state # "live" /\ pc'[c] = "close"
      BY <2>2 DEF TypeOK
    <3> QED BY <1>1, <1>2, <2>1, <2>2, <3>1, Alone, SocketsAlone DEF Done
  <2>3. CASE UNCHANGED <<encoder, pc>>
    BY <2>1, <2>3 DEF Sockets, Done, Streaming
  <2> QED BY <1>7, <2>2, <2>3 DEF FinishEncoder
<1>8. CASE CloseSocket(c)
  <2>1. /\ UNCHANGED <<task, tcp, encoder, sockfd>> /\ Release(sockfd) /\ pc[c] = "close"
        /\ pc'[c] \in {"open", "serving", "cleanup"}
    BY <1>8, Positions DEF CloseSocket
  <2>2. port = sockfd /\ port' = None
    BY <2>1 DEF Sockets, Release
  <2>3. encoder.state # "live"
    BY <1>1, <2>1, Alone DEF Streaming
  <2>4. tcp[c] \in Fd /\ fds'[tcp[c]] = "tcp" /\ \A f \in Fd : fds'[f] = "free" \/ f = tcp[c]
    BY <1>1, <2>1, <2>2, Alone DEF Release
  <2> QED BY <1>2, <2>1, <2>2, <2>3, <2>4, SocketsAlone
<1>9. CASE Cleanup(c)
  <2>1. /\ UNCHANGED <<task, tcp, encoder, sockfd>> /\ Release(tcp[c]) /\ pc[c] = "cleanup"
        /\ pc'[c] = "away"
    BY <1>9, Positions DEF Cleanup
  <2>2. port = None /\ encoder.state # "live" /\ tcp[c] # None
    BY <1>1, <2>1, Alone DEF Streaming, Done
  <2>3. port' = None
    BY <2>1, <2>2 DEF Release
  <2>4. \A f \in Fd : fds'[f] = "free"
    BY <1>1, <2>1, <2>2, Alone, BoundsAssumption DEF Release, Fd
  <2>5. \A d \in Clients : pc'[d] = "away"
    BY <1>2, <2>1
  <2> QED BY <2>1, <2>2, <2>3, <2>4, <2>5 DEF Sockets
<1> QED BY <1>3, <1>4, <1>5, <1>6, <1>7, <1>8, <1>9 DEF ThreadStep

(* A client that connects takes a free one.                                *)
LEMMA SocketsClientStep ==
  ASSUME TypeOK, Tasks, OneByOne, NEW c \in Clients, ClientStep(c), "overlap" \notin since'
  PROVE  Sockets'
<1>1. CASE Accept(c)
  <2>1. (\A d \in Clients : pc[d] = "away") /\ "overlap" \notin since
    BY <1>1 DEF Accept
  <2>2. Sockets /\ port = None /\ encoder.state # "live" /\ \A f \in Fd : fds[f] = "free"
    <3>1. Sockets
      BY <2>1 DEF OneByOne
    <3> QED BY <2>1, <3>1, BoundsAssumption DEF Sockets, Done, Streaming, Fd
  <2>3. PICK g \in Fd : fds' = [fds EXCEPT ![g] = "tcp"] /\ tcp' = [tcp EXCEPT ![c] = g]
    BY <1>1, LeastFree DEF Accept
  <2>4. tcp'[c] = g /\ fds'[g] = "tcp" /\ \A f \in Fd \ {g} : fds'[f] = "free"
    BY <2>2, <2>3 DEF TypeOK
  <2>5. /\ pc'[c] = "recipient" /\ \A d \in Clients \ {c} : pc'[d] = "away"
    BY <2>1, <1>1, Moves, Positions
  <2>6. UNCHANGED <<encoder, sockfd, port>>
    BY <1>1 DEF Accept
  <2> QED BY <2>2, <2>4, <2>5, <2>6, SocketsAlone
<1>2. CASE ~Accept(c)
  <2>1. "overlap" \notin since /\ UNCHANGED <<tcp, fds, port, sockfd>> /\ pc[c] = "serving"
    BY <1>2, Positions DEF ClientStep, Disconnect, ChangeRate, ChangeShape, Stop
  <2>2. encoder'.state = encoder.state
    BY <1>2 DEF ClientStep, Disconnect, ChangeRate, ChangeShape, Stop, TypeOK
  <2>3. Sockets
    BY <2>1 DEF OneByOne
  <2>4. \A d \in Clients \ {c} : pc'[d] = "away"
    BY <2>1, <2>3, Alone, Moves
  <2>5. pc'[c] = "clear" \/ (pc'[c] = "serving" /\ task' = task)
    BY <1>2, <2>1, Positions DEF ClientStep
  <2> QED BY <2>1, <2>2, <2>3, <2>4, <2>5, Alone, SocketsAlone DEF Done, Streaming
<1> QED BY <1>1, <1>2

(* As long as no two clients have met.                                     *)
LEMMA SocketsStep ==
  ASSUME TypeOK, Tasks, OneByOne, Next
  PROVE  OneByOne'
<1> SUFFICES ASSUME "overlap" \notin since' PROVE Sockets'
  BY DEF OneByOne
<1>1. ASSUME NEW c \in Clients, ThreadStep(c) PROVE Sockets'
  <2>1. "overlap" \notin since
    BY <1>1, ThreadSince
  <2> QED BY <1>1, <2>1, SocketsThreadStep DEF OneByOne
<1>2. CASE UIStep \/ Lifecycle
  BY <1>2, UIKeeps DEF OneByOne, Sockets, Done, Streaming
<1> QED BY <1>1, <1>2, SocketsClientStep DEF Next

-----------------------------------------------------------------------------
(* Whatever fails and whenever the UI thread comes to its messages.        *)
LEMMA ServerInit ==
  Init => IInv
<1> SUFFICES ASSUME Init PROVE IInv
  OBVIOUS
<1>1. Default \in Params /\ DefaultShape \in Shapes
  BY ShapesAssumption, RatesAssumption DEF Default, Params
<1>2. TypeOK
  <2>1. /\ messages \in Seq(Messages) /\ Len(messages) <= MaxMessages
    BY BoundsAssumption DEF Init
  <2>2. /\ recording \in BOOLEAN /\ cameraLost \in BOOLEAN /\ framedIn \in BOOLEAN
    BY DEF Init
  <2>3. /\ params \in Params /\ encoder \in [state : {"null", "live", "dead"}, params : Params]
        /\ cameraShape \in Shapes
    BY <1>1 DEF Init
  <2>4. /\ pc \in [Clients -> {"away"}] /\ task \in [Clients -> {"leave"}]
        /\ finished \in [Clients -> BOOLEAN] /\ tcp \in [Clients -> Fd \cup {None}]
        /\ fds \in [Fd -> {"free"}]
    BY DEF Init
  <2>5. /\ sockfd = None /\ port = None /\ address \in Clients /\ surface = "none"
        /\ camera = "none" /\ frame = NoFrame /\ misuse = "none" /\ since = {}
    BY DEF Init
  <2> QED BY <2>1, <2>2, <2>3, <2>4, <2>5 DEF TypeOK
<1>3. Tasks /\ ParamsRestored /\ StreamOver
  BY DEF Init, Tasks, ParamsRestored, StreamOver
<1>4. CameraFollows /\ OneByOne
  BY DEF Init, CameraFollows, OneByOne, Sockets
<1> QED BY <1>2, <1>3, <1>4 DEF IInv

(* Every step keeps the invariant.                                         *)
LEMMA ServerStep ==
  IInv /\ [Next]_vars => IInv'
<1> SUFFICES ASSUME IInv, [Next]_vars PROVE IInv'
  OBVIOUS
<1>1. CASE Next
  BY <1>1, TypeStep, TasksStep, ParamsStep, StreamStep, CameraStep, SocketsStep DEF IInv
<1>2. CASE UNCHANGED vars
  <2>1. TypeOK' /\ Tasks'
    BY <1>2 DEF vars, IInv, TypeOK, Tasks
  <2>2. ParamsRestored' /\ StreamOver'
    BY <1>2 DEF vars, IInv, ParamsRestored, StreamOver, Done, StoppedAfter
  <2>3. CameraFollows'
    BY <1>2 DEF vars, IInv, CameraFollows, RestartComing
  <2>4. OneByOne'
    BY <1>2 DEF vars, IInv, OneByOne, Sockets, Streaming, Done
  <2> QED BY <2>1, <2>2, <2>3, <2>4 DEF IInv
<1> QED BY <1>1, <1>2

(* The invariant holds of every behaviour.                                 *)
LEMMA ServerAlways ==
  Spec => []IInv
<1>1. Init => IInv
  BY ServerInit
<1>2. IInv /\ [Next]_vars => IInv'
  BY ServerStep
<1> QED BY <1>1, <1>2, PTL DEF Spec

(* Every variable of the server keeps to its type; what is bound to the    *)
(* streaming port is an open datagram socket.                              *)
THEOREM TypeCorrect ==
  Spec => []TypeOK
<1>1. IInv => TypeOK
  BY DEF IInv
<1> QED BY <1>1, ServerAlways, PTL

(* However many clients overlapped and whatever failed: with all of them   *)
(* gone nothing is recorded, and the parameters are the default ones.      *)
THEOREM NothingRecorded ==
  Spec => []AllGone
<1>1. IInv => AllGone
  <2> SUFFICES ASSUME IInv, Quiet, \A c \in Clients : pc[c] = "away"
               PROVE  ~recording /\ params = Default
    BY DEF AllGone
  <2>1. params = Default
    BY DEF IInv, ParamsRestored
  <2>2. ~recording
    BY DEF IInv, StreamOver, Done, StoppedAfter, Quiet
  <2> QED BY <2>1, <2>2
<1> QED BY <1>1, ServerAlways, PTL

(* Where clients come one by one, whatever the UI thread does meanwhile:   *)
(* with the socket and the connection of the client that is there nothing  *)
(* else is open, also after a start or a finish of the encoder that        *)
(* failed; its stop, and its leaving, end the stream and close the socket. *)
(* Leaving after a failed start uses a missing encoder, and is not claimed *)
(* about: it never comes to the end.                                       *)
THEOREM NothingLeft ==
  Spec => []LeavesNothing
<1>1. IInv => LeavesNothing
  <2> SUFFICES ASSUME IInv, Quiet, "overlap" \notin since
               PROVE  LeavesNothing
    BY DEF LeavesNothing
  <2>1. Sockets
    BY DEF IInv, OneByOne
  <2>2. ASSUME NEW f \in Fd, fds[f] # "free"
        PROVE  f = port \/ \E c \in Clients : pc[c] = "serving" /\ f = tcp[c]
    BY <2>1, <2>2 DEF Sockets, Quiet
  <2>3. ASSUME \A c \in Clients : pc[c] = "away" \/ task[c] = "stop"
        PROVE  ~recording /\ port = None
    <3>1. \A c \in Clients : Done(c)
      BY <2>3 DEF Quiet, Done
    <3> QED BY <2>1, <3>1 DEF IInv, Sockets, StreamOver, StoppedAfter, Quiet
  <2> QED BY <2>2, <2>3 DEF LeavesNothing
<1> QED BY <1>1, ServerAlways, PTL

(* Whatever the order of messages, clients and surface events, the preview *)
(* ends up with the size that is set, or the camera was lost: it could not *)
(* be opened, refused a size, or failed as it was set up.                  *)
THEOREM CameraFollowsParams ==
  Spec => []CameraServes
<1>1. IInv => CameraServes
  <2> SUFFICES ASSUME IInv, Quiet, surface = "shown"
               PROVE  IF cameraLost THEN camera = "none"
                      ELSE camera = "running" /\ cameraShape = params.shape
    BY DEF CameraServes
  <2>1. ~RestartComing
    BY DEF Quiet, RestartComing
  <2> QED BY <2>1 DEF IInv, CameraFollows
<1> QED BY <1>1, ServerAlways, PTL

-----------------------------------------------------------------------------
(* A client alone.  A "started" to come keeps coming until it is handled.  *)
LEMMA RecordStays ==
  ASSUME TypeOK, HandleMessage, WillRecord
  PROVE  WillRecord'
<1>1. /\ Len(messages) \in Nat /\ Len(messages') = Len(messages) - 1
      /\ Head(messages) = messages[1] /\ 1 \in 1 .. Len(messages)
      /\ \A i \in 1 .. Len(messages') :
           i + 1 \in 1 .. Len(messages) /\ messages'[i] = messages[i + 1]
  BY HandleTypes
<1>2. ASSUME NEW i \in 0 .. Len(messages'), ~StoppedAfter(i + 1) PROVE ~StoppedAfter(i)'
  <2> SUFFICES ASSUME NEW j \in 1 .. Len(messages'), j > i, messages'[j] = "stopped"
               PROVE  FALSE
    BY DEF StoppedAfter
  <2>1. j + 1 \in 1 .. Len(messages) /\ j + 1 > i + 1 /\ messages[j + 1] = "stopped"
    BY <1>1
  <2> QED BY <1>2, <2>1 DEF StoppedAfter
<1>3. CASE recording /\ ~StoppedAfter(0)
  <2>1. messages[1] # "stopped" /\ ~StoppedAfter(1)
    BY <1>1, <1>3 DEF StoppedAfter
  <2>2. recording'
    BY <1>1, <1>3, <2>1 DEF HandleMessage
  <2> QED BY <1>1, <1>2, <2>1, <2>2 DEF WillRecord
<1>4. ASSUME NEW i \in 1 .. Len(messages), messages[i] = "started", ~StoppedAfter(i)
      PROVE  WillRecord'
  <2>1. CASE i = 1
    <3>1. recording'
      BY <1>1, <1>4, <2>1 DEF HandleMessage
    <3> QED BY <1>1, <1>2, <1>4, <2>1, <3>1 DEF WillRecord
  <2>2. CASE i # 1
    <3>1. i - 1 \in 1 .. Len(messages') /\ i = (i - 1) + 1
      BY <1>1, <2>2
    <3>2. messages'[i - 1] = "started" /\ ~StoppedAfter(i - 1)'
      BY <1>1, <1>2, <1>4, <3>1
    <3> QED BY <3>1, <3>2 DEF WillRecord
  <2> QED BY <2>1, <2>2
<1> QED BY <1>3, <1>4 DEF WillRecord

(* A thread that starts the encoder has a live one and posts it.           *)
LEMMA ReliableThreadStep ==
  ASSUME IInv, Reliable, NEW c \in Clients, ThreadStep(c)
  PROVE  Reliable'
<1>1. TypeOK /\ Tasks /\ since' \in {since, since \cup {"failed"}}
  BY ThreadSince DEF IInv
<1> SUFFICES ASSUME "overlap" \notin since, NEW d \in Clients PROVE Served(d)'
  BY <1>1 DEF Reliable
<1>3. Sockets /\ pc[c] # "away" /\ Served(c)
  BY <1>1, Positions DEF IInv, OneByOne, Reliable, ThreadStep
<1>4. CASE d # c
  <2>1. pc'[d] = "away"
    BY <1>1, <1>3, <1>4, Alone, Moves
  <2> QED BY <2>1 DEF Served
<1> USE DEF Served
<1>5. CASE SetRecipient(c)
  BY <1>1, <1>3, <1>4, <1>5, Positions DEF SetRecipient
<1>6. CASE OpenSocket(c)
  <2>1. pc[c] = "open" /\ task[c] # "stop" /\ UNCHANGED <<task, address, params>>
    BY <1>1, <1>6, Positions DEF Tasks, OpenSocket
  <2>2. \/ pc'[c] = "create" /\ encoder'.params = params'
        \/ pc'[c] = "serving" /\ "failed" \in since' /\ UNCHANGED encoder
    BY <1>1, <1>6 DEF OpenSocket, Started, TypeOK
  <2>3. encoder.state # "live"
    BY <1>1, <1>3, <2>1, Alone DEF Streaming
  <2> QED BY <1>1, <1>3, <1>4, <2>1, <2>2, <2>3
<1>7. CASE CreateEncoder(c)
  <2>1. /\ UNCHANGED <<task, address, params>>
        /\ pc[c] = "create" /\ pc'[c] = "serving" /\ task[c] # "stop"
    BY <1>1, <1>7, Positions DEF Tasks, CreateEncoder
  <2>2. encoder'.params = encoder.params
    BY <1>1, <1>7 DEF CreateEncoder, TypeOK
  <2>3. ASSUME "failed" \notin since' PROVE encoder'.state = "live" /\ Post("started")
    <3>1. CASE encoder' = [encoder EXCEPT !.state = "live"] /\ Started(c, TRUE)
      BY <1>1, <2>3, <3>1 DEF Started, TypeOK
    <3>2. CASE Started(c, FALSE)
      BY <2>3, <3>2 DEF Started
    <3> QED BY <1>7, <3>1, <3>2 DEF CreateEncoder
  <2>4. ASSUME Post("started") PROVE WillRecord'
    <3>1. /\ Len(messages') \in 1 .. Len(messages') /\ messages'[Len(messages')] = "started"
          /\ Len(messages') \in Nat
      BY <1>1, <2>4, PostTypes DEF Messages
    <3>2. ~StoppedAfter(Len(messages))'
      BY <3>1 DEF StoppedAfter
    <3> QED BY <3>1, <3>2 DEF WillRecord
  <2> QED BY <1>1, <1>3, <1>4, <2>1, <2>2, <2>3, <2>4
<1>8. CASE ClearRecording(c)
  BY <1>1, <1>3, <1>4, <1>8, Positions DEF ClearRecording
<1>9. CASE FinishEncoder(c)
  <2>1. UNCHANGED <<task, address, params, messages, recording>> /\ pc[c] = "finish"
    BY <1>1, <1>9, Positions DEF FinishEncoder
  <2>2. UNCHANGED <<pc, encoder>> \/ pc'[c] = "close"
    BY <1>1, <1>9 DEF FinishEncoder, TypeOK
  <2> QED BY <1>1, <1>3, <1>4, <2>1, <2>2
<1>10. CASE CloseSocket(c)
  <2>1. UNCHANGED <<task, address, params, encoder>> /\ pc[c] = "close"
    BY <1>1, <1>10, Positions DEF CloseSocket
  <2>2. pc'[c] \in {"open", "cleanup"} \/ (task[c] = "stop" /\ pc'[c] = "serving")
    BY <1>1, <1>10, Positions
  <2>3. encoder.state # "live"
    BY <1>1, <1>3, <2>1, Alone DEF Streaming
  <2> QED BY <1>1, <1>3, <1>4, <2>1, <2>2, <2>3
<1>11. CASE Cleanup(c)
  <2>1. pc'[c] = "away"
    BY <1>1, <1>11, Positions
  <2> QED BY <1>4, <2>1
<1> QED BY <1>5, <1>6, <1>7, <1>8, <1>9, <1>10, <1>11 DEF ThreadStep

(* A rate goes to the encoder and to the parameters alike.                 *)
LEMMA ReliableClientStep ==
  ASSUME IInv, Reliable, NEW c \in Clients, ClientStep(c)
  PROVE  Reliable'
<1>1. TypeOK /\ Tasks /\ UNCHANGED <<finished, address, recording, messages>>
  BY DEF IInv, ClientStep, Accept, Disconnect, ChangeRate, ChangeShape, Stop
<1> SUFFICES ASSUME "overlap" \notin since', NEW d \in Clients PROVE Served(d)'
  BY <1>1 DEF Reliable
<1>2. CASE Accept(c)
  <2>1. \A e \in Clients : pc[e] = "away"
    BY <1>2 DEF Accept
  <2>2. (d = c /\ pc'[d] = "recipient" /\ task'[d] = "connect") \/ pc'[d] = "away"
    BY <1>1, <1>2, <2>1, Positions, Moves
  <2> QED BY <2>2 DEF Served
<1>3. CASE ~Accept(c)
  <2>1. "overlap" \notin since /\ since \subseteq since' /\ pc[c] = "serving"
    BY <1>1, <1>3, Positions DEF ClientStep, Disconnect, ChangeRate, ChangeShape, Stop
  <2>2. Sockets /\ Served(c)
    BY <2>1 DEF IInv, OneByOne, Reliable
  <2>3. CASE d # c
    <3>1. pc'[d] = "away"
      BY <1>1, <2>1, <2>2, <2>3, Alone, Moves
    <3> QED BY <3>1 DEF Served
  <2>4. CASE d = c /\ Disconnect(c)
    <3>1. pc'[c] = "clear" /\ task'[c] = "leave" /\ UNCHANGED <<encoder, since>>
      BY <1>1, <2>4, Positions DEF Disconnect
    <3> QED BY <1>1, <2>1, <2>2, <2>4, <3>1 DEF Served
  <2>5. CASE d = c /\ \E p \in Params : ChangeShape(c, p)
    <3>1. pc'[c] = "clear" /\ task'[c] = "reset" /\ UNCHANGED <<encoder, since>>
      BY <1>1, <2>5, Positions DEF ChangeShape
    <3> QED BY <1>1, <2>1, <2>2, <2>5, <3>1 DEF Served
  <2>6. CASE d = c /\ \E operation \in {"stop", "update"} : Stop(c, operation)
    <3>1. pc'[c] = "clear" /\ "stop" \in since'
      BY <1>1, <2>6, Positions DEF Stop
    <3> QED BY <1>1, <2>1, <2>2, <2>6, <3>1 DEF Served
  <2>7. ASSUME d = c, NEW r \in Rates, ChangeRate(c, r) PROVE Served(d)'
    <3>1. UNCHANGED <<pc, task, since>>
      BY <2>7 DEF ChangeRate
    <3>2. /\ encoder'.state = encoder.state
          /\ encoder.params = params /\ encoder.state = "live" => encoder'.params = params'
      BY <1>1, <2>7 DEF ChangeRate, TypeOK, Params
    <3>3. WillRecord' = WillRecord
      BY <1>1 DEF WillRecord, StoppedAfter
    <3> QED BY <1>1, <2>1, <2>2, <2>7, <3>1, <3>2, <3>3 DEF Served
  <2> QED BY <1>3, <2>3, <2>4, <2>5, <2>6, <2>7 DEF ClientStep
<1> QED BY <1>2, <1>3

(* The UI thread takes no encoder away, and no start.                      *)
LEMMA ReliableUIStep ==
  ASSUME IInv, Reliable, UIStep \/ Lifecycle
  PROVE  Reliable'
<1>1. /\ TypeOK /\ UNCHANGED <<pc, task, finished, address, encoder>>
      /\ since' \in {since, since \cup {"resume"}}
  BY UIKeeps DEF IInv
<1> SUFFICES ASSUME "overlap" \notin since, NEW d \in Clients PROVE Served(d)'
  BY <1>1 DEF Reliable
<1>2. Served(d)
  BY DEF Reliable
<1>3. params' = params \/ "resume" \in since'
  BY DEF UIStep, Lifecycle, HandleMessage, ChooseFrame, EncodeFrame, SurfaceCreated,
         SurfaceChanged, SurfaceDestroyed, Resume
<1>4. WillRecord => WillRecord'
  <2>1. CASE HandleMessage
    BY <1>1, <2>1, RecordStays
  <2>2. CASE ~HandleMessage
    <3>1. UNCHANGED <<recording, messages>>
      BY <2>2 DEF UIStep, Lifecycle, ChooseFrame, EncodeFrame, SurfaceCreated,
                  SurfaceChanged, SurfaceDestroyed, Resume
    <3> QED BY <3>1 DEF WillRecord, StoppedAfter
  <2> QED BY <2>1, <2>2
<1> QED BY <1>1, <1>2, <1>3, <1>4 DEF Served

(* This holds of every behaviour.                                          *)
LEMMA ReliableAlways ==
  Spec => [](IInv /\ Reliable)
<1>1. Init => IInv /\ Reliable
  BY ServerInit DEF Init, Reliable, Served
<1>2. IInv /\ Reliable /\ [Next]_vars => (IInv /\ Reliable)'
  <2> SUFFICES ASSUME IInv, Reliable, [Next]_vars PROVE IInv' /\ Reliable'
    OBVIOUS
  <2>1. IInv'
    BY ServerStep
  <2>2. CASE Next
    BY <2>1, <2>2, ReliableThreadStep, ReliableClientStep, ReliableUIStep DEF Next
  <2>3. CASE UNCHANGED vars
    BY <2>1, <2>3 DEF vars, Reliable, Served, WillRecord, StoppedAfter
  <2> QED BY <2>2, <2>3
<1> QED BY <1>1, <1>2, PTL DEF Spec

(* A client alone whose starts succeeded and were reported so gets its     *)
(* video, with the parameters it asked for, once the messages are handled: *)
(* whenever the UI thread comes to them, whatever it encoded in between,   *)
(* and whatever else failed.                                               *)
THEOREM ClientServed ==
  Spec => []Agreement
<1>1. IInv /\ Reliable => Agreement
  <2> SUFFICES ASSUME IInv, Reliable, Quiet, since = {}, NEW c \in Clients, pc[c] = "serving"
               PROVE  /\ recording
                      /\ encoder = [state |-> "live", params |-> params]
                      /\ port # None /\ sockfd = port
                      /\ address = c
    BY DEF Agreement
  <2>1. Sockets /\ Served(c) /\ TypeOK
    BY DEF IInv, OneByOne, Reliable
  <2>2. encoder.state = "live" /\ encoder.params = params /\ address = c /\ WillRecord
    BY <2>1 DEF Served
  <2>3. encoder = [state |-> "live", params |-> params]
    BY <2>1, <2>2 DEF TypeOK
  <2>4. recording
    BY <2>2 DEF WillRecord, Quiet
  <2> QED BY <2>1, <2>2, <2>3, <2>4 DEF Sockets
<1> QED BY <1>1, ReliableAlways, PTL

-----------------------------------------------------------------------------
(* A UI thread that keeps up.  Server threads step with no message left.   *)
LEMMA OneMessage ==
  ASSUME PromptUI, TypeOK, Prompt, NEW c \in Clients, ThreadStep(c) \/ ClientStep(c)
  PROVE  /\ messages = << >>
         /\ messages' = << >> \/ \E m \in Messages : messages' = <<m>>
         /\ Len(messages') <= 1
<1>1. messages = << >>
  BY DEF ThreadStep, ClientStep, SetRecipient, OpenSocket, CreateEncoder, ClearRecording,
         FinishEncoder, CloseSocket, Cleanup, Accept, Disconnect, ChangeRate, ChangeShape, Stop
<1>2. UNCHANGED messages \/ \E m \in Messages : Post(m)
  <2>1. CASE OpenSocket(c) \/ CreateEncoder(c)
    BY <2>1, Reports DEF OpenSocket, CreateEncoder, Messages
  <2>2. CASE CloseSocket(c) \/ Cleanup(c)
    BY <2>2, Reports DEF CloseSocket, Cleanup, Messages
  <2>3. CASE SetRecipient(c) \/ ClearRecording(c) \/ FinishEncoder(c) \/ ClientStep(c)
    BY <2>3 DEF SetRecipient, ClearRecording, FinishEncoder, ClientStep, Accept, Disconnect,
                ChangeRate, ChangeShape, Stop
  <2> QED BY <2>1, <2>2, <2>3 DEF ThreadStep
<1>3. ASSUME NEW m \in Messages, Post(m) PROVE messages' = <<m>> /\ Len(messages') <= 1
  <2>1. messages' = <<m>>
    BY <1>1, <1>3 DEF Post
  <2>2. Len(messages') = Len(messages) + 1 /\ Len(messages) = 0
    BY <1>1, <1>3, PostTypes
  <2> QED BY <2>1, <2>2
<1>4. UNCHANGED messages => messages' = << >> /\ Len(messages') <= 1
  BY <1>1
<1> QED BY <1>1, <1>2, <1>3, <1>4

(* With one client and no message, this decides about the encoder.         *)
LEMMA PromptAlone ==
  ASSUME NEW c \in Clients, Len(messages') <= 1,
         \A d \in Clients \ {c} : pc'[d] = "away",
         "failed" \in since' \/ encoder'.state = "live"
           \/ (/\ ~recording' /\ frame' = NoFrame
               /\ \A i \in 1 .. Len(messages') : messages'[i] # "started"),
         pc'[c] = "finish" => ~recording' /\ messages' = << >>,
         \/ pc'[c] \in {"serving", "clear", "finish"}
         \/ /\ ~recording' /\ frame' = NoFrame
            /\ \A i \in 1 .. Len(messages') : messages'[i] # "started"
  PROVE  Prompt'
BY DEF Prompt

(* The encoder is destroyed with the flag cleared, no message left and no  *)
(* frame under way.                                                        *)
LEMMA PromptThreadStep ==
  ASSUME PromptUI, IInv, Reliable, Prompt, EncoderAlive, NEW c \in Clients, ThreadStep(c)
  PROVE  Prompt' /\ EncoderAlive'
<1>1. /\ TypeOK /\ Tasks /\ since' \in {since, since \cup {"failed"}}
      /\ UNCHANGED <<frame, framedIn>>
  BY ThreadSince DEF IInv, ThreadStep, SetRecipient, OpenSocket, CreateEncoder,
         ClearRecording, FinishEncoder, CloseSocket, Cleanup
<1>2. messages = << >> /\ Len(messages') <= 1
  BY <1>1, OneMessage
<1>3. CASE "overlap" \in since
  BY <1>1, <1>2, <1>3 DEF Prompt, EncoderAlive
<1>4. CASE "overlap" \notin since
  <2>1. /\ Sockets /\ pc[c] # "away" /\ Served(c)
    BY <1>1, <1>4, Positions DEF IInv, OneByOne, Reliable, ThreadStep
  <2>2. \A d \in Clients \ {c} : pc[d] = "away" /\ pc'[d] = "away"
    BY <1>1, <2>1, Alone, Moves
  <2>3. /\ "failed" \notin since /\ (recording \/ frame # NoFrame) => encoder.state = "live"
        /\ pc[c] = "finish" => ~recording
        /\ pc[c] \notin {"serving", "clear", "finish"} => ~recording /\ frame = NoFrame
    BY <1>4, <2>2 DEF Prompt
  <2>4. CASE SetRecipient(c)
    <3>1. UNCHANGED <<recording, messages, encoder, misuse>>
      BY <2>4 DEF SetRecipient
    <3>2. pc[c] = "recipient" /\ pc'[c] = "open"
      BY <1>1, <2>4, Positions
    <3> QED BY <1>1, <1>2, <2>2, <2>3, <3>1, <3>2, PromptAlone DEF EncoderAlive
  <2>5. CASE OpenSocket(c)
    <3>1. pc[c] = "open"
      BY <1>1, <2>5, Positions
    <3>2. UNCHANGED <<recording, misuse>>
      BY <2>5 DEF OpenSocket
    <3>3. \/ pc'[c] = "create" /\ UNCHANGED messages
          \/ pc'[c] = "serving" /\ "failed" \in since'
      BY <1>1, <2>5 DEF OpenSocket, Started, TypeOK
    <3> QED BY <1>1, <1>2, <2>2, <2>3, <3>1, <3>2, <3>3, PromptAlone DEF EncoderAlive
  <2>6. CASE CreateEncoder(c)
    <3>1. pc[c] = "create" /\ pc'[c] = "serving" /\ UNCHANGED <<recording, misuse>>
      BY <1>1, <2>6, Positions DEF CreateEncoder
    <3>2. encoder'.state = "live" \/ "failed" \in since'
      BY <1>1, <2>6 DEF CreateEncoder, Started, TypeOK
    <3> QED BY <1>1, <1>2, <2>2, <3>1, <3>2, PromptAlone DEF EncoderAlive
  <2>7. CASE ClearRecording(c)
    <3>1. UNCHANGED <<messages, encoder, misuse>> /\ ~recording' /\ pc'[c] = "finish"
      BY <1>1, <2>7, Positions DEF ClearRecording
    <3> QED BY <1>1, <1>2, <2>2, <2>3, <3>1, PromptAlone DEF EncoderAlive
  <2>8. CASE FinishEncoder(c)
    <3>1. pc[c] = "finish" /\ pc'[c] \in {"finish", "close"} /\ frame = NoFrame /\ ~recording
      BY <1>1, <2>3, <2>8, Positions DEF FinishEncoder, Slept
    <3>2. UNCHANGED <<recording, messages, since>>
      BY <2>8 DEF FinishEncoder
    <3>3. EncoderAlive'
      <4>1. CASE encoder.state = "live"
        BY <1>1, <2>8, <4>1 DEF FinishEncoder, EncoderAlive
      <4>2. CASE encoder.state # "live"
        BY <2>1, <3>1, <3>2, <4>2 DEF Served, EncoderAlive
      <4> QED BY <4>1, <4>2
    <3> QED BY <1>1, <1>2, <2>2, <3>1, <3>2, <3>3, PromptAlone
  <2>9. CASE CloseSocket(c)
    <3>1. pc[c] = "close" /\ UNCHANGED <<recording, misuse>> /\ pc'[c] # "finish"
      BY <1>1, <2>9, Positions DEF CloseSocket
    <3>2. \A i \in 1 .. Len(messages') : messages'[i] # "started"
      <4>1. messages' \in {<<"restart">>, <<"stopped">>}
        BY <1>2, <2>9 DEF CloseSocket, Finished, Post
      <4> QED BY <4>1
    <3> QED BY <1>1, <1>2, <2>2, <2>3, <3>1, <3>2, PromptAlone DEF EncoderAlive
  <2>10. CASE Cleanup(c)
    <3>1. pc[c] = "cleanup" /\ UNCHANGED <<recording, misuse>> /\ pc'[c] # "finish"
      BY <1>1, <2>10, Positions DEF Cleanup
    <3>2. \A i \in 1 .. Len(messages') : messages'[i] # "started"
      <4>1. messages' = <<"restart">>
        BY <1>2, <2>10 DEF Cleanup, Post
      <4> QED BY <4>1
    <3> QED BY <1>1, <1>2, <2>2, <2>3, <3>1, <3>2, PromptAlone DEF EncoderAlive
  <2> QED BY <2>4, <2>5, <2>6, <2>7, <2>8, <2>9, <2>10 DEF ThreadStep
<1> QED BY <1>3, <1>4

(* Only a change of the rate uses the encoder, and a client being served   *)
(* has one, or was not started.                                            *)
LEMMA PromptClientStep ==
  ASSUME PromptUI, IInv, Reliable, Prompt, EncoderAlive, misuse = "none",
         NEW c \in Clients, ClientStep(c)
  PROVE  Prompt' /\ EncoderAlive'
<1>1. TypeOK /\ Tasks /\ UNCHANGED <<messages, recording, frame>> /\ encoder'.state = encoder.state
  BY DEF IInv, TypeOK, ClientStep, Accept, Disconnect, ChangeRate, ChangeShape, Stop
<1>2. messages = << >> /\ messages' = << >> /\ Len(messages') <= 1
  BY <1>1, OneMessage
<1>3. CASE Accept(c)
  <2>1. misuse' = "none"
    BY <1>3 DEF Accept
  <2>2. ASSUME "overlap" \notin since'
        PROVE  /\ ~recording' /\ frame' = NoFrame
               /\ \A d \in Clients : pc'[d] # "finish"
    <3>1. "overlap" \notin since /\ \A d \in Clients : pc[d] = "away"
      BY <1>3, <2>2 DEF Accept
    <3>2. \A d \in Clients : pc'[d] \in {"away", "recipient"}
      BY <1>1, <1>3, <3>1, Moves, Positions DEF ClientStep
    <3> QED BY <1>1, <3>1, <3>2 DEF Prompt
  <2> QED BY <1>2, <2>1, <2>2 DEF Prompt, EncoderAlive
<1>4. CASE ~Accept(c)
  <2>1. since \subseteq since' /\ ("overlap" \in since' => "overlap" \in since)
    BY <1>4 DEF ClientStep, Disconnect, ChangeRate, ChangeShape, Stop
  <2>2. pc[c] = "serving" /\ pc'[c] \in {"serving", "clear"}
    BY <1>1, <1>4, Positions DEF ClientStep
  <2>3. \A d \in Clients : pc'[d] = "finish" => pc[d] = "finish"
    BY <1>1, <2>2, Moves
  <2>4. Prompt'
    BY <1>1, <1>2, <2>1, <2>2, <2>3 DEF Prompt
  <2>5. CASE \E r \in Rates : ChangeRate(c, r)
    <3>1. UNCHANGED since
      BY <2>5 DEF ChangeRate
    <3>2. "overlap" \in since \/ since \cap {"stop", "failed"} # {} \/ encoder.state = "live"
      BY <2>2 DEF Reliable, Served
    <3> QED BY <2>4, <2>5, <3>1, <3>2 DEF ChangeRate, EncoderAlive
  <2>6. CASE ~\E r \in Rates : ChangeRate(c, r)
    <3>1. UNCHANGED misuse
      BY <1>4, <2>6 DEF ClientStep, Disconnect, ChangeShape, Stop
    <3> QED BY <2>4, <3>1 DEF EncoderAlive
  <2> QED BY <2>5, <2>6
<1> QED BY <1>3, <1>4

(* The flag is set for the one message there is, and frames are encoded    *)
(* while it is.                                                            *)
LEMMA PromptUIStep ==
  ASSUME IInv, Prompt, EncoderAlive, misuse = "none", UIStep \/ Lifecycle
  PROVE  Prompt' /\ EncoderAlive'
<1>1. TypeOK /\ UNCHANGED <<pc, encoder>> /\ since' \in {since, since \cup {"resume"}}
  BY UIKeeps DEF IInv
<1>2. CASE HandleMessage
  <2>1. Len(messages) = 1 /\ messages' = << >>
    BY <1>1, <1>2, HandleTypes DEF Prompt
  <2>2. UNCHANGED <<frame, misuse>> /\ (recording' => recording \/ messages[1] = "started")
    BY <1>1, <1>2, HandleTypes DEF HandleMessage
  <2> QED BY <1>1, <2>1, <2>2 DEF Prompt, EncoderAlive
<1>3. CASE ChooseFrame
  <2>1. recording /\ UNCHANGED <<recording, messages, misuse>>
    BY <1>3 DEF ChooseFrame
  <2> QED BY <1>1, <2>1 DEF Prompt, EncoderAlive
<1>4. CASE EncodeFrame
  <2>1. frame # NoFrame /\ frame' = NoFrame /\ UNCHANGED <<recording, messages>>
    BY <1>4 DEF EncodeFrame
  <2>2. misuse' = "deadEncoder" => encoder.state # "live"
    BY <1>4 DEF EncodeFrame
  <2>3. EncoderAlive'
    BY <1>1, <2>1, <2>2 DEF Prompt, EncoderAlive
  <2> QED BY <1>1, <2>1, <2>3 DEF Prompt
<1>5. CASE Lifecycle
  <2>1. UNCHANGED <<recording, messages, frame, misuse>>
    BY <1>5 DEF Lifecycle, SurfaceCreated, SurfaceChanged, SurfaceDestroyed, Resume
  <2> QED BY <1>1, <2>1 DEF Prompt, EncoderAlive
<1> QED BY <1>2, <1>3, <1>4, <1>5 DEF UIStep

(* With a UI thread that keeps up, this holds of every behaviour.          *)
LEMMA AliveAlways ==
  ASSUME PromptUI
  PROVE  Spec => []AliveInv
<1>1. Init => AliveInv
  <2> SUFFICES ASSUME Init PROVE AliveInv
    OBVIOUS
  <2>1. IInv /\ Reliable
    BY ServerInit DEF Init, Reliable, Served
  <2>2. Prompt /\ EncoderAlive
    BY DEF Init, Prompt, EncoderAlive
  <2> QED BY <2>1, <2>2 DEF AliveInv
<1>2. AliveInv /\ [Next]_vars => AliveInv'
  <2> SUFFICES ASSUME AliveInv, [Next]_vars PROVE AliveInv'
    OBVIOUS
  <2>1. IInv'
    BY ServerStep DEF AliveInv
  <2>2. CASE Next
    <3>1. Reliable'
      BY <2>2, ReliableThreadStep, ReliableClientStep, ReliableUIStep DEF Next, AliveInv
    <3>2. Prompt' /\ EncoderAlive'
      BY <2>2, PromptThreadStep, PromptClientStep, PromptUIStep DEF Next, AliveInv
    <3> QED BY <2>1, <3>1, <3>2 DEF AliveInv
  <2>3. CASE UNCHANGED vars
    <3>1. Reliable'
      BY <2>3 DEF vars, AliveInv, Reliable, Served, WillRecord, StoppedAfter
    <3>2. Prompt' /\ EncoderAlive'
      BY <2>3 DEF vars, AliveInv, Prompt, EncoderAlive
    <3> QED BY <2>1, <3>1, <3>2 DEF AliveInv
  <2> QED BY <2>2, <2>3
<1> QED BY <1>1, <1>2, PTL DEF Spec

(* No destroyed encoder is used, nor a missing one, by a client alone that *)
(* has not stopped and whose starts succeeded and were reported so, where  *)
(* the UI thread keeps up.                                                 *)
THEOREM NoDeadEncoder ==
  ASSUME PromptUI
  PROVE  Spec => []EncoderAlive
<1>1. AliveInv => EncoderAlive
  BY DEF AliveInv
<1> QED BY <1>1, AliveAlways, PTL

-----------------------------------------------------------------------------
(* Where nothing can fail but the camera, every start of a client alone    *)
(* succeeds: the streaming port is free, and the encoder was finished.     *)
LEMMA NeverFailedStep ==
  ASSUME Failures \subseteq {"camera"}, IInv, NeverFailed, Next
  PROVE  NeverFailed'
<1>1. TypeOK /\ Tasks
  BY DEF IInv
<1>2. ASSUME NEW c \in Clients, ThreadStep(c) PROVE NeverFailed'
  <2>1. \A d \in Clients : finished'[d]
    <3>1. finished' = finished \/ finished' = [finished EXCEPT ![c] = TRUE]
      BY <1>2 DEF ThreadStep, SetRecipient, OpenSocket, CreateEncoder, ClearRecording,
             FinishEncoder, CloseSocket, Cleanup
    <3> QED BY <1>1, <3>1 DEF NeverFailed, TypeOK
  <2>2. ASSUME "overlap" \notin since' PROVE since' = since
    <3>1. Sockets /\ pc[c] # "away"
      BY <1>1, <1>2, <2>2, ThreadSince, Positions DEF IInv, OneByOne, ThreadStep
    <3>2. CASE OpenSocket(c)
      <4>1. port = None
        BY <1>1, <3>1, <3>2, Positions, Alone
      <4> QED BY <3>2, <4>1 DEF OpenSocket
    <3>3. CASE CreateEncoder(c)
      <4>1. Started(c, TRUE)
        BY <3>3 DEF CreateEncoder
      <4> QED BY <4>1 DEF Started, NeverFailed
    <3>4. CASE ~OpenSocket(c) /\ ~CreateEncoder(c)
      BY <1>2, <3>4 DEF ThreadStep, SetRecipient, ClearRecording, FinishEncoder, CloseSocket,
                        Cleanup
    <3> QED BY <3>2, <3>3, <3>4
  <2> QED BY <2>1, <2>2 DEF NeverFailed
<1>3. ASSUME NEW c \in Clients, ClientStep(c) PROVE NeverFailed'
  <2>1. UNCHANGED finished
    BY <1>3 DEF ClientStep, Accept, Disconnect, ChangeRate, ChangeShape, Stop
  <2>2. "failed" \in since' => "failed" \in since
    BY <1>3 DEF ClientStep, Accept, Disconnect, ChangeRate, ChangeShape, Stop
  <2>3. "overlap" \in since => "overlap" \in since'
    BY <1>3 DEF ClientStep, Accept, Disconnect, ChangeRate, ChangeShape, Stop
  <2> QED BY <2>1, <2>2, <2>3 DEF NeverFailed
<1>4. CASE UIStep \/ Lifecycle
  BY <1>4, UIKeeps DEF NeverFailed
<1> QED BY <1>2, <1>3, <1>4 DEF Next

(* m_recordingStatus is set only while there is an encoder to encode with, *)
(* where the UI thread keeps up and nothing can fail but the camera: the   *)
(* run of a reset whose encoder cannot be made shows that it matters.      *)
THEOREM RecordsLive ==
  ASSUME PromptUI, Failures \subseteq {"camera"}
  PROVE  Spec => []RecordingMeansStreaming
<1>1. Init => NeverFailed
  BY DEF Init, NeverFailed
<1>2. AliveInv /\ NeverFailed /\ [Next]_vars => NeverFailed'
  <2>1. UNCHANGED vars /\ NeverFailed => NeverFailed'
    BY DEF vars, NeverFailed
  <2> QED BY <2>1, NeverFailedStep DEF AliveInv
<1>3. AliveInv /\ NeverFailed => RecordingMeansStreaming
  BY DEF AliveInv, NeverFailed, Prompt, RecordingMeansStreaming
<1> QED BY <1>1, <1>2, <1>3, AliveAlways, PTL DEF Spec

-----------------------------------------------------------------------------
(* A frame is chosen for the parameters that the encoder has: its client   *)
(* is being served, for it is neither resetting nor finishing it.          *)
LEMMA FrameChosen ==
  ASSUME AliveInv, ChooseFrame
  PROVE  FramesFit'
<1> SUFFICES ASSUME encoder.state = "live", ~framedIn', since \cap {"resume", "overlap"} = {},
                    Picture(encoder.params.shape) \in {QCIF, CIF}
             PROVE  frame' = Picture(encoder.params.shape)
  BY DEF FramesFit, ChooseFrame
<1>1. /\ TypeOK /\ Sockets /\ Prompt /\ Reliable /\ recording
      /\ frame' = TestVideo(params.shape)
  BY DEF AliveInv, IInv, OneByOne, ChooseFrame
<1>2. PICK c \in Clients : Streaming(c)
  BY <1>1 DEF Sockets
<1>3. pc[c] = "serving"
  BY <1>1, <1>2 DEF Streaming, Prompt, ChooseFrame
<1>4. encoder.params = params
  BY <1>1, <1>3 DEF Reliable, Served
<1>5. ASSUME NEW shape, Picture(shape) \in {QCIF, CIF} PROVE TestVideo(shape) = Picture(shape)
  BY <1>5 DEF TestVideo, Picture, CIF, QCIF
<1> QED BY <1>1, <1>4, <1>5

(* The encoder's shape changes with no frame under way.                    *)
LEMMA FrameStep ==
  ASSUME PromptUI, FrameInv, Next
  PROVE  FramesFit'
<1>1. AliveInv /\ TypeOK /\ Tasks /\ FramesFit
  BY DEF FrameInv, AliveInv, IInv
<1>2. ASSUME frame' = NoFrame \/
             /\ UNCHANGED <<frame, framedIn>>
             /\ encoder'.state = "live" =>
                  encoder.state = "live" /\ encoder'.params.shape = encoder.params.shape
             /\ since \subseteq since'
      PROVE  FramesFit'
  BY <1>1, <1>2 DEF FramesFit
<1>3. ASSUME NEW c \in Clients, ThreadStep(c), "overlap" \notin since' PROVE FramesFit'
  <2>1. UNCHANGED <<frame, framedIn>> /\ since \subseteq since' /\ "overlap" \notin since
    BY <1>3, ThreadSince DEF ThreadStep, SetRecipient, OpenSocket, CreateEncoder,
                ClearRecording, FinishEncoder, CloseSocket, Cleanup
  <2>2. CASE OpenSocket(c)
    <3>1. pc[c] = "open" /\ pc[c] # "away"
      BY <1>1, <2>2, Positions
    <3>2. \A d \in Clients : pc[d] \notin {"serving", "clear", "finish"}
      BY <1>1, <2>1, <3>1, Alone DEF AliveInv, IInv, OneByOne
    <3> QED BY <1>1, <1>2, <2>1, <3>2 DEF AliveInv, Prompt
  <2>3. CASE CreateEncoder(c)
    <3>1. pc[c] = "create" /\ pc[c] # "away"
      BY <1>1, <2>3, Positions
    <3>2. \A d \in Clients : pc[d] \notin {"serving", "clear", "finish"}
      BY <1>1, <2>1, <3>1, Alone DEF AliveInv, IInv, OneByOne
    <3> QED BY <1>1, <1>2, <2>1, <3>2 DEF AliveInv, Prompt
  <2>4. CASE ~OpenSocket(c) /\ ~CreateEncoder(c)
    <3>1. UNCHANGED encoder \/ encoder'.state = "dead"
      BY <1>1, <1>3, <2>4 DEF ThreadStep, SetRecipient, ClearRecording, FinishEncoder,
                              CloseSocket, Cleanup, TypeOK
    <3> QED BY <1>2, <2>1, <3>1
  <2> QED BY <2>2, <2>3, <2>4
<1>4. ASSUME NEW c \in Clients, ClientStep(c), "overlap" \notin since' PROVE FramesFit'
  <2>1. /\ UNCHANGED <<frame, framedIn>> /\ encoder'.state = encoder.state
        /\ encoder'.params.shape = encoder.params.shape
    BY <1>1, <1>4 DEF ClientStep, Accept, Disconnect, ChangeRate, ChangeShape, Stop, TypeOK,
                      Params
  <2>2. CASE Accept(c)
    <3>1. "overlap" \notin since /\ \A d \in Clients : pc[d] = "away"
      BY <1>4, <2>2 DEF Accept
    <3> QED BY <1>1, <1>2, <2>1, <3>1 DEF AliveInv, Prompt
  <2>3. CASE ~Accept(c)
    <3>1. since \subseteq since'
      BY <1>4, <2>3 DEF ClientStep, Disconnect, ChangeRate, ChangeShape, Stop
    <3> QED BY <1>2, <2>1, <3>1
  <2> QED BY <2>2, <2>3
<1>5. CASE EncodeFrame
  BY <1>2, <1>5 DEF EncodeFrame
<1>6. CASE HandleMessage \/ Lifecycle
  <2>1. UNCHANGED <<frame, framedIn, encoder>> /\ since \subseteq since'
    BY <1>6 DEF HandleMessage, Lifecycle, SurfaceCreated, SurfaceChanged, SurfaceDestroyed, Resume
  <2> QED BY <1>2, <2>1
<1>7. "overlap" \in since' => FramesFit'
  BY DEF FramesFit
<1> QED BY <1>1, <1>3, <1>4, <1>5, <1>6, <1>7, FrameChosen DEF Next, UIStep

(* A live encoder for one of the two pictures that there are test videos   *)
(* of gets frames of its own size, whatever else clients ask for and       *)
(* whatever fails, where the UI thread keeps up: but for a frame chosen    *)
(* between a request and the reset it brings, or after onResume.           *)
THEOREM FramesOfItsShape ==
  ASSUME PromptUI
  PROVE  Spec => []FramesFit
<1>1. Init => FramesFit
  BY DEF Init, FramesFit
<1>2. AliveInv /\ FramesFit /\ [Next]_vars => FramesFit'
  <2>1. UNCHANGED vars /\ FramesFit => FramesFit'
    BY DEF vars, FramesFit
  <2> QED BY <2>1, FrameStep DEF FrameInv
<1> QED BY <1>1, <1>2, AliveAlways, PTL DEF Spec
=============================================================================

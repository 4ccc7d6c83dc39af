---------------------------- MODULE VideoWindow ----------------------------
(***************************************************************************)
(* The window of one camera in the desktop client.  Every bandwidth read   *)
(* from a file makes it decide on new encoding parameters, which depend on *)
(* what the control center has learned of the user, and ask the server for *)
(* them; so does the button SEND.  An accepted request makes the pending   *)
(* parameters the current ones and, in learning mode, asks the user for    *)
(* her judgement: the question runs an event loop of its own, in which     *)
(* bandwidths and answers are handled as before, but nothing the user does *)
(* to the windows.  RequestSession has the details of an exchange that are *)
(* left out here: ticks, late answers and garbled requests.                *)
(***************************************************************************)
EXTENDS Decision, Learning, Player

CONSTANTS
  Requests,     (* what the user may ask for with SEND                     *)
  Modes,        (* m_standard_video_experiment                             *)
  Contents,     (* complexity of the camera's content type                 *)
  FileLabels,   (* the labels of the examples in the training file, and    *)
  FileSize,     (* how many these are                                      *)
  MaxEvents     (* bound: changes of the bandwidth, clicks on SEND, failed *)
                (* requests and presses of the key Down, by mode           *)

Initial == Parameters(CIF, 30, 354816)    (* EncodingParameters()          *)

(* The server's: setEncoderParams(352, 288, 30) and the rate that it sets. *)
Default == Parameters(CIF, 30, 304128)

ASSUME RequestsAssumption ==
  Requests \subseteq [size : {Resolutions[i] : i \in DOMAIN Resolutions}, fps : {15, 30},
                      bitrate : Nat]
ASSUME FileAssumption == FileLabels \subseteq [Module -> Label] /\ FileLabels # {}
ASSUME BoundsAssumption == MaxEvents \in [BOOLEAN -> Nat] /\ FileSize \in 0 .. MaxExamples
ASSUME ModesAssumption == Modes \subseteq BOOLEAN /\ Contents \subseteq Complexity

VARIABLES
  standard, complexity,   (* usingStandardVideo(), of the content type     *)
  connection,             (* of the TCP client: none, open, lost           *)
  bandwidth,              (* m_currentbw_kbps                              *)
  pending, current,       (* m_pending_parameters, m_current_params        *)
  effective,              (* m_effective_rate                              *)
  thread,                 (* m_request_thread: idle, started, sent         *)
  wire,                   (* the request under way                         *)
  server,                 (* the parameters the server works with          *)
  asking,                 (* whether a question of pollUser is open        *)
  share,                  (* history: what the program may use of the      *)
                          (* bandwidth, in per mille, for the pending      *)
                          (* parameters; 0 where no limit is meant         *)
  accepted,               (* history: the server has accepted a request    *)
  events                  (* counter of the bound                          *)

cameraVars == <<standard, complexity>>
exchangeVars == <<connection, thread, wire, server>>
choiceVars == <<bandwidth, pending, share>>
knownVars == <<current, effective, accepted, asking>>
vars == <<cameraVars, exchangeVars, choiceVars, knownVars, events, learningVars, playerVars>>

Init ==
  /\ standard \in Modes /\ complexity \in Contents
  /\ connection = "none"
  /\ bandwidth = 0
  /\ pending = Initial /\ current = Initial
  /\ effective = IF standard THEN 500 ELSE 400
  /\ thread = "idle"
  /\ wire = Initial /\ server = Default
  /\ asking = FALSE
  /\ share = 0 /\ accepted = FALSE
  /\ events = 0
  /\ LearningInit /\ PlayerInit

Disturbed == events < MaxEvents[standard] /\ events' = events + 1

-----------------------------------------------------------------------------
(* The bit rate resizeVideo sends when it is asked for a rate of 0.  The   *)
(* standard rate is divided by the frame rate's factor twice.              *)
BitrateFor(bw, size, fps) ==
  IF standard
  THEN Encoded(GetOptimalBitrate(Encoded(850 * bw, fps), fps, size, complexity), fps)
  ELSE Least(Optimum(size),
             Fit(current.bitrate, effective * (fps \div 15), bw * (current.fps \div 15)))

(* Mutant: the server's default for a rate of 0 is not filled in.          *)
ResolvedHalf(p, bw) ==
  IF p.bitrate = 0 /\ bw # 0
  THEN [p EXCEPT !.bitrate = BitrateFor(bw, p.size, p.fps)] ELSE p

(* A rate of 0 that is sent all the same stands for the server's default,  *)
(* which the client knows.                                                 *)
Resolved(p, bw) ==
  LET asked == IF p.bitrate = 0 /\ bw # 0
               THEN [p EXCEPT !.bitrate = BitrateFor(bw, p.size, p.fps)] ELSE p
  IN  IF asked.bitrate = 0
      THEN [asked EXCEPT !.bitrate = 3 * asked.size.width * asked.size.height]
      ELSE asked

(* Mutant: parameters that are pending already are not asked for again.    *)
ResizeVideoOnce(p, bw) ==
  /\ pending' = Resolved(p, bw)
  /\ SetFps(p.fps)
  /\ thread' = IF connection = "open" /\ thread = "idle" /\ pending' # pending
               THEN "started" ELSE thread
  /\ UNCHANGED <<connection, wire, server>>

(* resizeVideo and sendRequest.  The thread reads the request when it      *)
(* runs; start() of a running thread does nothing.                         *)
ResizeVideo(p, bw) ==
  /\ pending' = Resolved(p, bw)
  /\ SetFps(p.fps)
  /\ thread' = IF connection = "open" /\ thread = "idle" THEN "started" ELSE thread
  /\ UNCHANGED <<connection, wire, server>>

(* What onBandwidth decides in learning mode, and outside.  What a      *)
(* decision leaves alone is taken from the pending parameters, accepted or *)
(* not.                                                                    *)
Learned(bw) ==
  IF standard THEN DefaultAdjustStandard(bw, complexity)
  ELSE DefaultAdjustBitrate(bw, effective, current, pending)

Predicted(bw) ==
  IF standard THEN MakeDecisionUsingBeta(bw, Prediction(bw), complexity)
  ELSE MakeDecision(bw, effective, Prediction(bw), current, pending)

(* onBandwidth.  The substitute for a data rate of 0 is left out: it is    *)
(* never 0 on a channel of 5 kbit/s (VideoWindowProofs).                   *)
OnBandwidth(bw) ==
  /\ IF bw = bandwidth THEN UNCHANGED events ELSE Disturbed
  /\ bandwidth' = bw
  /\ share' = IF standard \/ accepted THEN 850 ELSE 0
  /\ ResizeVideo(IF learning THEN Learned(bw) ELSE Predicted(bw), bw)
  /\ UNCHANGED <<cameraVars, knownVars, learningVars>>

(* The button SEND, while no question is open.                             *)
SendClicked(p) ==
  /\ ~asking
  /\ Disturbed
  /\ share' = IF p.bitrate = 0 /\ (standard \/ accepted) THEN 1000 ELSE 0
  /\ ResizeVideo(p, bandwidth)
  /\ UNCHANGED <<cameraVars, bandwidth, knownVars, learningVars>>

-----------------------------------------------------------------------------
(* connectToServer, once, and the video is opened.                         *)
Connect ==
  /\ connection = "none"
  /\ connection' = "open"
  /\ PlayUrl
  /\ UNCHANGED <<cameraVars, thread, wire, server, choiceVars, knownVars, events,
                 learningVars, playerFps>>

ProcRequest ==
  /\ thread = "started"
  /\ thread' = "sent"
  /\ wire' = pending
  /\ UNCHANGED <<cameraVars, connection, server, choiceVars, knownVars, events,
                 learningVars, playerVars>>

(* The server accepts the request on its way, which is another than what   *)
(* it has, and receivedMessage takes what is pending by now for accepted.  *)
Accepted ==
  /\ thread = "sent" /\ wire # server
  /\ thread' = "idle"
  /\ server' = wire
  /\ wire' = Initial
  /\ current' = pending
  /\ effective' = Datarate(pending)
  /\ accepted' = TRUE
  /\ asking' = (asking \/ learning)
  /\ UNCHANGED <<cameraVars, connection, choiceVars, events, learningVars, playerVars>>

(* The server has these parameters already, and says so.                   *)
Already ==
  /\ thread = "sent" /\ wire = server
  /\ thread' = "idle"
  /\ wire' = Initial
  /\ UNCHANGED <<cameraVars, connection, server, choiceVars, knownVars, events,
                 learningVars, playerVars>>

(* The request is refused, or the answer does not come in time.            *)
NotAnswered ==
  /\ thread = "sent" /\ Disturbed
  /\ thread' = "idle"
  /\ server' \in {server, wire}
  /\ wire' = Initial
  /\ UNCHANGED <<cameraVars, connection, choiceVars, knownVars,
                 learningVars, playerVars>>

(* The server is gone.                                                     *)
ServerDisconnected ==
  /\ thread = "sent" /\ Disturbed
  /\ thread' = "idle"
  /\ wire' = Initial
  /\ connection' = "lost"
  /\ UNCHANGED <<cameraVars, server, choiceVars, knownVars,
                 learningVars, playerVars>>

-----------------------------------------------------------------------------
(* An example of the file, which the control center loads before any       *)
(* window is open.                                                         *)
Loading == examples < FileSize

LoadTrainingSet ==
  /\ \E label \in FileLabels : AddTrainingExample(label)
  /\ UNCHANGED <<cameraVars, exchangeVars, choiceVars, knownVars, events, playerVars>>

(* The user answers the question opened last; others may stay open.        *)
(* takeSample takes the labels from the player: its frame rate and the     *)
(* width it shows, which lags behind the server's.                         *)
TakeSample ==
  \E label \in [Module -> Label] :
    /\ label["fpsBitrate"] = IF playerFps < 30 THEN 1 ELSE -1
    /\ AddTrainingExample(label)

AnswerQuestion ==
  /\ asking
  /\ asking' \in BOOLEAN
  /\ (learning /\ TakeSample) \/ UNCHANGED learningVars
  /\ UNCHANGED <<cameraVars, exchangeVars, choiceVars, current, effective, accepted,
                 events, playerVars>>

ClickLearning ==
  /\ ~asking
  /\ ToggleLearning
  /\ UNCHANGED <<cameraVars, exchangeVars, choiceVars, knownVars, events, playerVars>>

PressDown ==
  /\ ~asking
  /\ Disturbed
  /\ KeyDown
  /\ UNCHANGED <<cameraVars, exchangeVars, choiceVars, knownVars, learningVars>>

-----------------------------------------------------------------------------
Answered == Accepted \/ Already

(* Nothing is defined after a misuse of the media handle.                  *)
Next ==
  \/ Loading /\ LoadTrainingSet
  \/ /\ ~Loading /\ ~misused
     /\ \/ \E bw \in Bandwidths : OnBandwidth(bw)
        \/ \E p \in Requests : SendClicked(p)
        \/ Connect \/ ProcRequest \/ Answered \/ NotAnswered \/ ServerDisconnected
        \/ AnswerQuestion \/ ClickLearning \/ PressDown

Spec == Init /\ [][Next]_vars

(* The request thread runs, the server answers unless it fails, and the    *)
(* file of bandwidths keeps growing.                                       *)
FairSpec ==
  /\ Spec
  /\ WF_vars(~misused /\ ProcRequest)
  /\ WF_vars(~misused /\ Answered)
  /\ WF_vars(~misused /\ bandwidth \in Bandwidths /\ OnBandwidth(bandwidth))

-----------------------------------------------------------------------------
(* Every variable keeps to its type; a size is one of those offered, or    *)
(* the 352x256 of a decision for frame rate and quality.                   *)
Sizes == {Resolutions[i] : i \in DOMAIN Resolutions} \cup {CIF, QCIF, Size(352, 256)}
AllParameters == [size : Sizes, fps : {15, 30}, bitrate : Nat \ {0}]

TypeOK ==
  /\ standard \in BOOLEAN /\ complexity \in Complexity
  /\ connection \in {"none", "open", "lost"}
  /\ bandwidth \in Bandwidths \cup {0}
  /\ {pending, current, wire, server} \subseteq AllParameters
  /\ effective \in Nat \ {0}
  /\ thread \in {"idle", "started", "sent"}
  /\ asking \in BOOLEAN
  /\ share \in {0, 850, 1000} /\ accepted \in BOOLEAN
  /\ events \in 0 .. MaxEvents[standard]
  /\ LearningTypeOK /\ PlayerTypeOK

(* decisioninterface.h: "Keep any optimum at 95% of the average bandwidth" *)
(* (the macro says 85).  Whatever the class, a decision for a bandwidth    *)
(* fits it with that margin, and a bit rate left to the program with SEND  *)
(* fits it at all: with its second division it keeps no margin at 15       *)
(* frames.  Not so the first choice of the scaling method, which starts    *)
(* from a made-up data rate, and the choice for a bandwidth of 0.          *)
FitsChannel == share # 0 /\ bandwidth # 0 => Fits(pending, bandwidth, share)

(* Whatever requests were lost, refused or overtaken: once the bandwidth   *)
(* no longer changes, the server ends up with parameters that fit it.      *)
(* With the scaling method this takes a first request that is accepted.    *)
Adapted ==
  \/ connection # "open"
  \/ misused
  \/ (standard \/ accepted) /\ bandwidth # 0 => Fits(server, bandwidth, 850)

Adapts == <>[]Adapted

(* The player's media handle is used only while it is held, unless the     *)
(* user stopped the player by the key, or it never connected.              *)
MediaHeld == misused => downPressed \/ connection = "none"
=============================================================================

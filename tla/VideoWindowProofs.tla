------------------------- MODULE VideoWindowProofs -------------------------
(***************************************************************************)
(* What a window keeps true of its player, of the learning modules and of  *)
(* the parameters it asks for, for all bandwidths, batches, training       *)
(* files, requests and bounds.  Three invariants build on each other: what *)
(* an example and a click keep true of the learning modules, the frame     *)
(* rates in use, which decide what is done to the player, and the bit      *)
(* rates, of the standard experiment by the arithmetic of DecisionProofs   *)
(* and of both methods by the bounds proved here.                          *)
(***************************************************************************)
EXTENDS VideoWindow, DecisionProofs, WellFoundedInduction

-----------------------------------------------------------------------------
(* The learning modules.                                                   *)

(* A module knows one label as long as it has seen no other; with both     *)
(* seen by the last whole batch, it is trained.                            *)
Knowledge ==
  \A m \in Module :
    /\ oneClass[m] => \A l \in Label : labels[m][l] # 0 <=> l = single[m]
    /\ ~oneClass[m] => \A l \in Label : labels[m][l] # 0
    /\ ~oneClass[m] /\ (\A l \in Label : labels[m][l] <= LastTraining)
         => function[m] \in Functions

LearningInv == LearningTypeOK /\ Knowledge

-----------------------------------------------------------------------------
(* Quotient and remainder.                                                 *)
LEMMA Division ==
  ASSUME NEW a \in Nat, NEW b \in Nat \ {0}
  PROVE  /\ a \div b \in Nat /\ a % b \in 0 .. b - 1
         /\ a = b * (a \div b) + (a % b)
BY Z3

(* The whole batches in n examples, and in one more.                       *)
LEMMA WholeBatches ==
  ASSUME NEW n \in Nat
  PROVE  /\ Batch * (n \div Batch) \in Nat
         /\ Batch * (n \div Batch) <= n
         /\ (n + 1) % Batch # 0 => Batch * ((n + 1) \div Batch) = Batch * (n \div Batch)
<1>1. Batch \in Nat \ {0}
  BY BatchAssumption
<1> DEFINE q == n \div Batch
           r == n % Batch
           p == (n + 1) \div Batch
           s == (n + 1) % Batch
<1>2. q \in Nat /\ r \in 0 .. Batch - 1 /\ n = Batch * q + r
  BY <1>1, Division
<1>3. p \in Nat /\ s \in 0 .. Batch - 1 /\ n + 1 = Batch * p + s
  BY <1>1, Division, n + 1 \in Nat
<1> HIDE DEF q, r, p, s
<1>4. ASSUME s # 0 PROVE p = q
  <2>1. Batch * (p - q) = r + 1 - s
    BY <1>1, <1>2, <1>3, SMT
  <2>2. r + 1 - s < Batch /\ r + 1 - s > -Batch
    BY <1>1, <1>2, <1>3, <1>4, SMT
  <2>3. p - q < 1 /\ p - q > -1
    BY <1>1, <1>2, <1>3, <2>1, <2>2, SMT
  <2> QED BY <1>2, <1>3, <2>3, SMT
<1>5. Batch * q \in Nat /\ Batch * q <= n
  BY <1>1, <1>2, SMT
<1> QED BY <1>4, <1>5 DEF q, s, p

-----------------------------------------------------------------------------
(* A new example: how many there are, and what was taught.                 *)
LEMMA ExampleTypes ==
  ASSUME LearningTypeOK, NEW label \in [Module -> Label], AddTrainingExample(label)
  PROVE  LearningTypeOK'
<1>1. examples' \in 0 .. MaxExamples
  BY BatchAssumption DEF LearningTypeOK, AddTrainingExample, AddTrainingSample
<1>2. oneClass' \in [Module -> BOOLEAN]
  BY DEF LearningTypeOK, AddTrainingExample, AddTrainingSample
<1>3. single' \in [Module -> Label \cup {-2}]
  BY DEF LearningTypeOK, AddTrainingExample, AddTrainingSample
<1>4. labels' \in [Module -> [Label -> 0 .. MaxExamples]]
  BY <1>1 DEF LearningTypeOK, AddTrainingExample, AddTrainingSample
<1>5. function' \in [Module -> Functions \cup {Untrained}]
  BY DEF LearningTypeOK, AddTrainingExample, Train
<1>6. learning' \in BOOLEAN /\ selectable' \in BOOLEAN
  BY DEF LearningTypeOK, AddTrainingExample
<1> QED BY <1>1, <1>2, <1>3, <1>4, <1>5, <1>6 DEF LearningTypeOK

(* What the module knows of labels changes with what was taught; a label   *)
(* new to it came after the last training, unless it was trained just now. *)
LEMMA ExampleKept ==
  ASSUME LearningInv, NEW label \in [Module -> Label], AddTrainingExample(label)
  PROVE  LearningInv'
<1> SUFFICES ASSUME NEW m \in Module
    PROVE /\ oneClass'[m] => \A l \in Label : labels'[m][l] # 0 <=> l = single'[m]
          /\ ~oneClass'[m] => \A l \in Label : labels'[m][l] # 0
          /\ ~oneClass'[m] /\ (\A l \in Label : labels'[m][l] <= LastTraining')
               => function'[m] \in Functions
  BY ExampleTypes DEF LearningInv, Knowledge
<1>1. /\ examples \in Nat /\ examples' = examples + 1
      /\ label[m] \in Label /\ single[m] \in Label \cup {-2}
      /\ \A l \in Label : labels[m][l] \in Nat
  BY DEF LearningInv, LearningTypeOK, AddTrainingExample, AddTrainingSample
<1>2. /\ single'[m] = IF single[m] = -2 THEN label[m] ELSE single[m]
      /\ oneClass'[m] <=> oneClass[m] /\ single[m] \in {-2, label[m]}
  BY DEF LearningInv, LearningTypeOK, AddTrainingExample, AddTrainingSample
<1>3. \A l \in Label : labels'[m][l] =
        IF l = label[m] /\ labels[m][l] = 0 THEN examples + 1 ELSE labels[m][l]
  BY <1>1 DEF LearningInv, LearningTypeOK, AddTrainingExample, AddTrainingSample
<1>4. /\ oneClass[m] => \A l \in Label : labels[m][l] # 0 <=> l = single[m]
      /\ ~oneClass[m] => \A l \in Label : labels[m][l] # 0
      /\ ~oneClass[m] /\ (\A l \in Label : labels[m][l] <= LastTraining)
           => function[m] \in Functions
  BY DEF LearningInv, Knowledge
<1>5. oneClass'[m] => \A l \in Label : labels'[m][l] # 0 <=> l = single'[m]
  BY <1>1, <1>2, <1>3, <1>4 DEF Label
<1>6. ~oneClass'[m] => \A l \in Label : labels'[m][l] # 0
  BY <1>1, <1>2, <1>3, <1>4 DEF Label
<1>7. ASSUME ~oneClass'[m], \A l \in Label : labels'[m][l] <= LastTraining'
      PROVE  function'[m] \in Functions
  <2>1. CASE examples' % Batch = 0
    BY <1>7, <2>1 DEF AddTrainingExample, Train
  <2>2. CASE examples' % Batch # 0
    <3>1. function' = function
      BY <2>2 DEF AddTrainingExample
    <3>2. /\ LastTraining' = LastTraining
          /\ LastTraining \in Nat /\ LastTraining <= examples
      BY <1>1, <2>2, WholeBatches DEF LastTraining
    <3>3. \A l \in Label : labels'[m][l] = labels[m][l] /\ labels[m][l] <= LastTraining
      BY <1>1, <1>3, <1>7, <3>2
    <3>4. ~oneClass[m]
      BY <1>1, <1>2, <1>4, <1>6, <1>7, <3>3 DEF Label
    <3> QED BY <1>4, <3>1, <3>3, <3>4
  <2> QED BY <2>1, <2>2
<1> QED BY <1>5, <1>6, <1>7

(* The check box changes nothing of what is known.                         *)
LEMMA ToggleKept ==
  ASSUME LearningInv, ToggleLearning
  PROVE  LearningInv'
BY DEF LearningInv, LearningTypeOK, Knowledge, LastTraining, ToggleLearning, learners

(* Knowing is predicting: with one label the answer is that label.         *)
LEMMA KnowledgePredicts ==
  ASSUME LearningInv
  PROVE  PredictsKnown
<1> SUFFICES ASSUME NEW m \in Module
    PROVE /\ Seen(m) # Label =>
               \A bw \in Bandwidths : Bit(m, bw) = IF Seen(m) = {1} THEN 1 ELSE 0
          /\ Seen(m) = Label /\ (\A l \in Label : labels[m][l] <= LastTraining)
               => function[m] \in Functions
  BY DEF PredictsKnown
<1>1. oneClass[m] \in BOOLEAN /\ single[m] \in Label \cup {-2}
  BY DEF LearningInv, LearningTypeOK
<1>2. CASE oneClass[m]
  <2>1. Seen(m) = {single[m]} \cap Label
    BY <1>2 DEF LearningInv, Knowledge, Seen
  <2>2. Seen(m) # Label
    BY <2>1 DEF Label
  <2>3. (single[m] = 1) <=> (Seen(m) = {1})
    BY <1>1, <2>1 DEF Label
  <2> QED BY <1>2, <2>2, <2>3 DEF Bit
<1>3. CASE ~oneClass[m]
  <2>1. Seen(m) = Label
    BY <1>3 DEF LearningInv, Knowledge, Seen
  <2> QED BY <1>3, <2>1 DEF LearningInv, Knowledge
<1> QED BY <1>2, <1>3

(* A prediction is one of the four classes.                                *)
LEMMA PredictionIsClass ==
  ASSUME LearningTypeOK, NEW bw \in Bandwidths
  PROVE  Prediction(bw) \in 0 .. 3
<1>1. \A m \in Module : Bit(m, bw) \in {0, 1}
  <2> SUFFICES ASSUME NEW m \in Module PROVE Bit(m, bw) \in {0, 1}
    OBVIOUS
  <2>1. oneClass[m] \in BOOLEAN /\ function[m] \in Functions \cup {Untrained}
    BY DEF LearningTypeOK
  <2>2. \A f \in Functions : f[bw] \in {0, 1}
    BY FunctionsAssumption
  <2> QED BY <2>1, <2>2 DEF Bit
<1>2. Bit("sizeQuality", bw) \in {0, 1} /\ Bit("fpsBitrate", bw) \in {0, 1}
  BY <1>1 DEF Module
<1> QED BY <1>2 DEF Prediction

-----------------------------------------------------------------------------
(* The window.                                                             *)

(* A set of parameters with one of the two frame rates.                    *)
Paced(p) == {"fps", "bitrate"} \subseteq DOMAIN p /\ p.fps \in {15, 30}

WindowTypeOK ==
  /\ standard \in BOOLEAN
  /\ complexity \in Complexity
  /\ Paced(pending) /\ Paced(current)
  /\ LearningTypeOK /\ PlayerTypeOK

(* The handle is there from the connection on, what plays has a handle,    *)
(* and only the key Down releases it for good.  This holds up to a misuse, *)
(* after which only the loading of the file could still go on.             *)
Handle ==
  ~misused =>
    /\ media = "none" => connection = "none" /\ ~isPlaying
    /\ media = "released" => downPressed

PlayerInv == PlayerTypeOK /\ Handle /\ MediaHeld

(* A request is under way only over a connection, so that the loss of one  *)
(* finds the handle there.                                                 *)
UnderWay == thread # "idle" => connection = "open"

WindowInv == WindowTypeOK /\ LearningInv /\ PlayerInv /\ UnderWay

USE DEF playerVars, learningVars, learners, cameraVars, exchangeVars, choiceVars, knownVars

-----------------------------------------------------------------------------
(* What a change of the frame rate does to the player.                     *)
LEMMA SetFpsKeeps ==
  ASSUME PlayerInv, ~misused, NEW fps \in {15, 30}, SetFps(fps), connection' = connection
  PROVE  PlayerInv'
<1>1. CASE fps = playerFps
  BY <1>1 DEF SetFps, PlayerInv, PlayerTypeOK, Handle, MediaHeld
<1>2. CASE fps # playerFps /\ fps = 30
  BY <1>2 DEF SetFps, PlayUrl, PlayerInv, PlayerTypeOK, Handle, MediaHeld
<1>3. CASE fps # playerFps /\ fps = 15
  BY <1>3 DEF SetFps, SetMediaOptions, PlayerInv, PlayerTypeOK, Handle, MediaHeld
<1> QED BY <1>1, <1>2, <1>3

-----------------------------------------------------------------------------
(* No decision leaves the two frame rates.                                 *)
LEMMA ScaledPaced ==
  ASSUME NEW bandwidth_, NEW rate, NEW class \in Class, NEW in, NEW out, Paced(out)
  PROVE  /\ Paced(DefaultAdjustBitrate(bandwidth_, rate, in, out))
         /\ Paced(MakeDecision(bandwidth_, rate, class, in, out))
<1>1. ASSUME NEW s, NEW b
      PROVE  Paced([out EXCEPT !.size = s, !.bitrate = b])
  BY DEF Paced
<1>2. ASSUME NEW p, Paced(p), NEW s, NEW b
      PROVE  /\ Paced([p EXCEPT !.bitrate = b])
             /\ Paced([p EXCEPT !.bitrate = b, !.size = s])
             /\ Paced([p EXCEPT !.bitrate = b, !.size = s, !.fps = 30])
             /\ Paced([p EXCEPT !.bitrate = b, !.size = s, !.fps = @])
             /\ Paced([p EXCEPT !.fps = 30])
             /\ Paced([p EXCEPT !.fps = 15])
  BY <1>2 DEF Paced
<1>3. Paced(Raised(in, out)) /\ Paced(Lowered(in, out))
  BY <1>2 DEF Raised, Lowered
<1>4. Paced(UpConvert(class, rate, bandwidth_, in, out))
  BY <1>2, <1>3 DEF UpConvert
<1>5. Paced(DownConvert(class, rate, bandwidth_, in, out))
  BY <1>2, <1>3 DEF DownConvert, Class
<1> QED BY <1>1, <1>4, <1>5 DEF DefaultAdjustBitrate, MakeDecision

(* Nor does a decision of the standard experiment.                         *)
LEMMA StandardPaced ==
  ASSUME NEW bw \in Nat, NEW class \in Class, NEW c \in Complexity
  PROVE  /\ Paced(MakeDecisionUsingBeta(bw, class, c))
         /\ Paced(DefaultAdjustStandard(bw, c))
<1> DEFINE choice == Unscaled(class, Ceiling(1000 * bw), Betas[c])
<1>1. choice = Parameters(choice.size, choice.fps, choice.bitrate) /\ choice.fps \in {15, 30}
  BY CeilingExact, UnscaledWithin, 850 * bw \in Nat
<1>2. MakeDecisionUsingBeta(bw, class, c)
        = [choice EXCEPT !.bitrate = Encoded(choice.bitrate, choice.fps)]
  BY DEF MakeDecisionUsingBeta
<1> HIDE DEF choice
<1>3. Paced(MakeDecisionUsingBeta(bw, class, c))
  BY <1>1, <1>2 DEF Paced, Parameters
<1>4. Paced(DefaultAdjustStandard(bw, c))
  BY DEF DefaultAdjustStandard, Paced, Parameters
<1> QED BY <1>3, <1>4

(* Filling a bit rate in leaves the frame rate alone.                      *)
LEMMA ResolvedPaced ==
  ASSUME NEW p, Paced(p), NEW bw
  PROVE  Paced(Resolved(p, bw)) /\ p.fps \in {15, 30}
<1>1. ASSUME NEW q, Paced(q), NEW b PROVE Paced([q EXCEPT !.bitrate = b])
  BY <1>1 DEF Paced
<1> QED BY <1>1 DEF Resolved, Paced

(* So what onBandwidth decides is paced, learning or not.                  *)
LEMMA DecisionPaced ==
  ASSUME WindowTypeOK, NEW bw \in Bandwidths
  PROVE  Paced(Learned(bw)) /\ Paced(Predicted(bw))
<1>1. bw \in Nat
  BY FunctionsAssumption
<1>2. Prediction(bw) \in Class
  BY PredictionIsClass DEF WindowTypeOK, Class
<1>3. Paced(Learned(bw))
  BY <1>1, StandardPaced, ScaledPaced DEF Learned, WindowTypeOK, Class
<1>4. Paced(Predicted(bw))
  BY <1>1, <1>2, StandardPaced, ScaledPaced DEF Predicted, WindowTypeOK
<1> QED BY <1>3, <1>4

-----------------------------------------------------------------------------
(* A new window: nothing is learned, nothing opened.                       *)
LEMMA WindowInit ==
  Init => WindowInv
<1> SUFFICES ASSUME Init PROVE WindowInv
  OBVIOUS
<1>1. standard \in BOOLEAN /\ complexity \in Complexity
  BY ModesAssumption DEF Init
<1>2. Paced(pending) /\ Paced(current)
  BY DEF Init, Initial, Parameters, Paced
<1>3. LearningTypeOK
  <2>1. examples \in 0 .. MaxExamples /\ 0 \in 0 .. MaxExamples
    BY BatchAssumption DEF Init, LearningInit
  <2>2. labels \in [Module -> [Label -> 0 .. MaxExamples]]
    BY <2>1 DEF Init, LearningInit
  <2> QED BY <2>1, <2>2 DEF Init, LearningInit, LearningTypeOK
<1>4. Knowledge
  BY DEF Init, LearningInit, Knowledge, Label
<1>5. PlayerInv
  BY DEF Init, PlayerInit, PlayerInv, PlayerTypeOK, Handle, MediaHeld
<1>6. UnderWay
  BY DEF Init, UnderWay
<1> QED BY <1>1, <1>2, <1>3, <1>4, <1>5, <1>6 DEF WindowInv, WindowTypeOK, LearningInv, PlayerInv

(* The invariant depends on these variables only.                          *)
windowVars ==
  <<standard, complexity, pending, current, connection, thread, learningVars, playerVars>>

(* What the learning modules and the player keep while nothing of theirs   *)
(* changes.                                                                *)
LEMMA LearningStutters ==
  ASSUME LearningInv, UNCHANGED learningVars
  PROVE  LearningInv'
BY DEF LearningInv, LearningTypeOK, Knowledge, LastTraining

(* The same for the player, which looks at the connection too.             *)
LEMMA PlayerStutters ==
  ASSUME PlayerInv, UNCHANGED <<connection, playerVars>>
  PROVE  PlayerInv'
BY DEF PlayerInv, PlayerTypeOK, Handle, MediaHeld

(* Steps that leave all of this alone.                                     *)
LEMMA WindowStutters ==
  ASSUME WindowInv, UNCHANGED windowVars
  PROVE  WindowInv'
<1>1. LearningInv' /\ PlayerInv'
  BY LearningStutters, PlayerStutters DEF WindowInv, windowVars
<1> QED BY <1>1 DEF WindowInv, WindowTypeOK, LearningInv, PlayerInv, Paced, UnderWay, windowVars

(* A step of an exchange that neither opens nor loses the connection.      *)
LEMMA ExchangeKeeps ==
  ASSUME WindowInv, thread # "idle",
         UNCHANGED <<standard, complexity, pending, current, connection>>,
         UNCHANGED <<learningVars, playerVars>>
  PROVE  WindowInv'
<1>1. LearningInv' /\ PlayerInv'
  BY LearningStutters, PlayerStutters DEF WindowInv
<1> QED BY <1>1 DEF WindowInv, WindowTypeOK, LearningInv, PlayerInv, Paced, UnderWay

(* The player's part of a request needs the frame rate asked for.          *)
LEMMA ResizeKeeps ==
  ASSUME WindowInv, ~misused, NEW p, Paced(p), NEW bw, ResizeVideo(p, bw),
         UNCHANGED <<cameraVars, current, learningVars>>
  PROVE  WindowInv'
<1>1. Paced(pending') /\ p.fps \in {15, 30}
  BY ResolvedPaced DEF ResizeVideo
<1>2. PlayerInv'
  BY <1>1, SetFpsKeeps DEF WindowInv, ResizeVideo
<1>3. LearningInv'
  BY LearningStutters DEF WindowInv
<1>4. UnderWay'
  BY DEF ResizeVideo, WindowInv, UnderWay
<1> QED BY <1>1, <1>2, <1>3, <1>4 DEF WindowInv, WindowTypeOK, LearningInv, PlayerInv, Paced

(* One case per action.                                                    *)
LEMMA WindowStep ==
  WindowInv /\ [Next]_vars => WindowInv'
<1> SUFFICES ASSUME WindowInv, [Next]_vars PROVE WindowInv'
  OBVIOUS
<1>1. ASSUME NEW label \in [Module -> Label], AddTrainingExample(label),
             UNCHANGED <<standard, complexity, pending, current, connection, thread>>,
             UNCHANGED playerVars
      PROVE  WindowInv'
  <2>1. LearningInv' /\ PlayerInv'
    BY <1>1, ExampleKept, PlayerStutters DEF WindowInv
  <2> QED BY <1>1, <2>1 DEF WindowInv, WindowTypeOK, LearningInv, PlayerInv, Paced, UnderWay
<1>2. CASE LoadTrainingSet
  BY <1>1, <1>2, FileAssumption DEF LoadTrainingSet
<1>3. ASSUME ~misused, NEW bw \in Bandwidths, OnBandwidth(bw)
      PROVE  WindowInv'
  <2> DEFINE p == IF learning THEN Learned(bw) ELSE Predicted(bw)
  <2>1. Paced(p)
    BY DecisionPaced DEF WindowInv
  <2>2. ResizeVideo(p, bw) /\ UNCHANGED <<cameraVars, current, learningVars>>
    BY <1>3 DEF OnBandwidth
  <2> HIDE DEF p
  <2> QED BY <1>3, <2>1, <2>2, ResizeKeeps
<1>4. ASSUME ~misused, NEW p \in Requests, SendClicked(p)
      PROVE  WindowInv'
  <2>1. Paced(p)
    BY RequestsAssumption DEF Paced
  <2>2. ResizeVideo(p, bandwidth) /\ UNCHANGED <<cameraVars, current, learningVars>>
    BY <1>4 DEF SendClicked
  <2> QED BY <1>4, <2>1, <2>2, ResizeKeeps
<1>5. CASE ~misused /\ Connect
  <2>1. PlayerInv'
    BY <1>5 DEF Connect, PlayUrl, WindowInv, PlayerInv, PlayerTypeOK, Handle, MediaHeld
  <2>2. LearningInv' /\ UNCHANGED <<standard, complexity, pending, current>>
    BY <1>5, LearningStutters DEF Connect, WindowInv
  <2>3. UnderWay'
    BY <1>5 DEF Connect, WindowInv, UnderWay
  <2> QED BY <2>1, <2>2, <2>3 DEF WindowInv, WindowTypeOK, LearningInv, PlayerInv, Paced
<1>6. CASE ProcRequest
  BY <1>6, ExchangeKeeps DEF ProcRequest
<1>7. CASE Accepted
  <2>1. PlayerInv' /\ LearningInv'
    BY <1>7, PlayerStutters, LearningStutters DEF Accepted, WindowInv
  <2>2. Paced(current') /\ UNCHANGED <<standard, complexity, pending>>
    BY <1>7 DEF Accepted, WindowInv, WindowTypeOK, Paced
  <2>3. UnderWay'
    BY <1>7 DEF Accepted, UnderWay
  <2> QED BY <2>1, <2>2, <2>3 DEF WindowInv, WindowTypeOK, LearningInv, PlayerInv, Paced
<1>8. CASE Already
  BY <1>8, ExchangeKeeps DEF Already
<1>9. CASE NotAnswered
  BY <1>9, ExchangeKeeps DEF NotAnswered
<1>10. CASE ~misused /\ ServerDisconnected
  <2>1. PlayerInv'
    <3>1. connection' = "lost" /\ UNCHANGED playerVars
      BY <1>10 DEF ServerDisconnected
    <3>2. media # "none"
      BY <1>10 DEF ServerDisconnected, WindowInv, UnderWay, PlayerInv, Handle
    <3> QED BY <1>10, <3>1, <3>2 DEF WindowInv, PlayerInv, PlayerTypeOK, Handle, MediaHeld
  <2>2. LearningInv' /\ UNCHANGED <<standard, complexity, pending, current>>
    BY <1>10, LearningStutters DEF ServerDisconnected, WindowInv
  <2>3. UnderWay'
    BY <1>10 DEF ServerDisconnected, UnderWay
  <2> QED BY <2>1, <2>2, <2>3 DEF WindowInv, WindowTypeOK, LearningInv, PlayerInv, Paced
<1>11. CASE AnswerQuestion
  BY <1>1, <1>11, WindowStutters DEF AnswerQuestion, TakeSample, windowVars
<1>12. CASE ClickLearning
  <2>1. LearningInv' /\ PlayerInv'
    BY <1>12, ToggleKept, PlayerStutters DEF ClickLearning, WindowInv
  <2>2. UNCHANGED <<standard, complexity, pending, current, connection, thread>>
    BY <1>12 DEF ClickLearning
  <2> QED BY <2>1, <2>2 DEF WindowInv, WindowTypeOK, LearningInv, PlayerInv, Paced, UnderWay
<1>13. CASE ~misused /\ PressDown
  <2>1. PlayerInv'
    BY <1>13 DEF PressDown, KeyDown, WindowInv, PlayerInv, PlayerTypeOK, Handle, MediaHeld
  <2>2. LearningInv' /\ UNCHANGED <<standard, complexity, pending, current>>
    BY <1>13, LearningStutters DEF PressDown, WindowInv
  <2>3. UnderWay'
    BY <1>13 DEF PressDown, WindowInv, UnderWay
  <2> QED BY <2>1, <2>2, <2>3 DEF WindowInv, WindowTypeOK, LearningInv, PlayerInv, Paced
<1>14. CASE UNCHANGED vars
  BY <1>14, WindowStutters DEF vars, windowVars
<1> QED BY <1>2, <1>3, <1>4, <1>5, <1>6, <1>7, <1>8, <1>9, <1>10, <1>11, <1>12, <1>13,
           <1>14 DEF Next, Answered

(* The invariant of every window.                                          *)
LEMMA WindowAlways ==
  Spec => []WindowInv
BY WindowInit, WindowStep, PTL DEF Spec

-----------------------------------------------------------------------------
(* The media handle is used only while it is held, unless the user stopped *)
(* the player by the key or it never connected: playUrl, setMediaOptions   *)
(* and stopPlaying in whatever order the requests call them.               *)
THEOREM MediaSafe ==
  Spec => []MediaHeld
<1>1. WindowInv => MediaHeld
  BY DEF WindowInv, PlayerInv
<1> QED BY <1>1, WindowAlways, PTL

(* A learning module with one label predicts that label, and one that has  *)
(* seen both by the last whole batch has been trained, for every size of a *)
(* batch, every file and whatever the user answers.                        *)
THEOREM PredictionsKnown ==
  Spec => []PredictsKnown
<1>1. WindowInv => PredictsKnown
  BY KnowledgePredicts DEF WindowInv
<1> QED BY <1>1, WindowAlways, PTL

-----------------------------------------------------------------------------
(* The bit rates, in the standard video experiment.                        *)
ChoiceInv ==
  /\ bandwidth \in Nat
  /\ standard => FitsChannel

(* No rate of a decision is rounded down to 0, which would be taken for    *)
(* the server's default.                                                   *)
LEMMA EncodedPositive ==
  ASSUME NEW rate \in Nat, rate >= 2, NEW fps \in {15, 30}
  PROVE  Encoded(rate, fps) \in Nat \ {0}
<1>1. CASE fps = 15
  <2>1. (432 * rate) \div 375 \in Nat \ {0}
    BY SMT
  <2> QED BY <1>1, <2>1 DEF Encoded
<1>2. CASE fps = 30
  <2>1. (432 * rate) \div 750 \in Nat \ {0}
    BY SMT
  <2> QED BY <1>2, <2>1 DEF Encoded
<1> QED BY <1>1, <1>2

(* The table chooses no rate below 2 bit/s once the channel has 1 kbit/s.  *)
LEMMA UnscaledPositive ==
  ASSUME NEW max \in Nat, max >= 850, NEW class \in Class, NEW c \in Complexity
  PROVE  Unscaled(class, max, Betas[c]).bitrate >= 2
<1> DEFINE beta == Betas[c]
<1>1. /\ beta.q15 \in Nat /\ beta.c15 \in Nat /\ beta.q30 \in Nat /\ beta.c30 \in Nat
      /\ beta.q15 >= 2 /\ beta.c15 >= 2 /\ beta.q30 >= 2 /\ beta.c30 >= 2
  BY DEF Betas, Complexity
<1> HIDE DEF beta
<1>2. CASE class = 0
  BY <1>1, <1>2 DEF Unscaled, MaximizeAll, Parameters, Least, beta
<1>3. CASE class = 1
  BY <1>1, <1>3 DEF Unscaled, FrameRateFirst, Parameters, beta
<1>4. CASE class = 2
  BY <1>1, <1>4 DEF Unscaled, FrameSizeFirst, Parameters, beta
<1>5. CASE class = 3
  BY <1>1, <1>5 DEF Unscaled, QualityFirst, Parameters, beta
<1> QED BY <1>2, <1>3, <1>4, <1>5 DEF Class

(* So no decision of the standard experiment asks for the default.         *)
LEMMA DecisionPositive ==
  ASSUME NEW bw \in Nat \ {0}, NEW class \in Class, NEW c \in Complexity
  PROVE  /\ MakeDecisionUsingBeta(bw, class, c).bitrate # 0
         /\ DefaultAdjustStandard(bw, c).bitrate # 0
<1> DEFINE choice == Unscaled(class, Ceiling(1000 * bw), Betas[c])
           e == Encoded(850 * bw, 30)
<1>1. 850 * bw \in Nat /\ 850 * bw >= 850
  OBVIOUS
<1>2. /\ choice = Parameters(choice.size, choice.fps, choice.bitrate)
      /\ choice.fps \in {15, 30}
      /\ choice.bitrate \in Nat
  BY <1>1, CeilingExact, UnscaledWithin
<1>3. choice.bitrate >= 2
  BY <1>1, CeilingExact, UnscaledPositive
<1>4. e \in Nat \ {0}
  BY <1>1, EncodedPositive, 850 * bw >= 2
<1>5. MakeDecisionUsingBeta(bw, class, c)
        = [choice EXCEPT !.bitrate = Encoded(choice.bitrate, choice.fps)]
  BY DEF MakeDecisionUsingBeta
<1>6. DefaultAdjustStandard(bw, c).bitrate = Least(e, Betas[c].c30)
  BY DEF DefaultAdjustStandard, Parameters
<1>7. Betas[c].c30 \in Nat \ {0}
  BY DEF Betas, Complexity
<1> HIDE DEF choice, e
<1>8. MakeDecisionUsingBeta(bw, class, c).bitrate = Encoded(choice.bitrate, choice.fps)
  BY <1>2, <1>5 DEF Parameters
<1> QED BY <1>2, <1>3, <1>4, <1>6, <1>7, <1>8, EncodedPositive DEF Least

(* The rate resizeVideo fills in is divided by the frame rate's factor     *)
(* twice: what is left of 85 percent is still within the bandwidth.        *)
LEMMA FilledFits ==
  ASSUME NEW bw \in Nat \ {0}, NEW c \in Complexity, NEW fps \in {15, 30}, NEW size
  PROVE  LET rate == Encoded(GetOptimalBitrate(Encoded(850 * bw, fps), fps, size, c), fps)
         IN  /\ rate \in Nat \ {0}
             /\ 25 * rate * fps <= 432 * 1000 * bw
<1> DEFINE e == Encoded(850 * bw, fps)
           o == GetOptimalBitrate(e, fps, size, c)
           rate == Encoded(o, fps)
<1>1. 850 * bw \in Nat /\ 850 * bw >= 850
  OBVIOUS
<1>2. e \in Nat /\ e >= 2 /\ 25 * e * fps <= 432 * 850 * bw
  <2>1. CASE fps = 15
    <3>1. (432 * (850 * bw)) \div 375 \in Nat
      BY SMT
    <3>2. (432 * (850 * bw)) \div 375 >= 2 /\ 375 * ((432 * (850 * bw)) \div 375) <= 432 * (850 * bw)
      BY SMT
    <3> QED BY <2>1, <3>1, <3>2 DEF Encoded
  <2>2. CASE fps = 30
    <3>1. (432 * (850 * bw)) \div 750 \in Nat
      BY SMT
    <3>2. (432 * (850 * bw)) \div 750 >= 2 /\ 750 * ((432 * (850 * bw)) \div 750) <= 432 * (850 * bw)
      BY SMT
    <3> QED BY <2>2, <3>1, <3>2 DEF Encoded
  <2> QED BY <2>1, <2>2
<1>3. \A k \in {"q15", "c15", "q30", "c30"} : Betas[c][k] \in Nat /\ Betas[c][k] >= 2
  BY DEF Betas, Complexity
<1> HIDE DEF e
<1>4. o \in Nat /\ o >= 2 /\ o <= e
  BY <1>2, <1>3 DEF GetOptimalBitrate, Least
<1> HIDE DEF o
<1>5. rate \in Nat \ {0} /\ 25 * rate * fps <= 432 * o
  <2>1. rate \in Nat \ {0}
    BY <1>4, EncodedPositive
  <2>2. CASE fps = 15
    BY <1>4, <2>2, 375 * ((432 * o) \div 375) <= 432 * o DEF Encoded
  <2>3. CASE fps = 30
    BY <1>4, <2>3, 750 * ((432 * o) \div 750) <= 432 * o DEF Encoded
  <2> QED BY <2>1, <2>2, <2>3
<1> HIDE DEF rate
<1>6. 25 * e * 15 <= 432 * 850 * bw
  BY <1>2
<1>7. 25 * 15 * 432 * o <= 432 * 432 * 850 * bw
  BY <1>2, <1>4, <1>6
<1>8. 25 * rate * fps <= 432 * 1000 * bw
  BY <1>4, <1>5, <1>7
<1> QED BY <1>5, <1>8 DEF rate, o, e

(* A rate that is there is sent as it is.                                  *)
LEMMA DecisionAsked ==
  ASSUME WindowInv, standard, NEW bw \in Bandwidths, bw # 0, OnBandwidth(bw)
  PROVE  Fits(pending', bw, 850) /\ share' = 850
<1> DEFINE p == IF learning THEN Learned(bw) ELSE Predicted(bw)
<1>1. bw \in Nat \ {0} /\ complexity \in Complexity /\ Prediction(bw) \in Class
  BY FunctionsAssumption, PredictionIsClass DEF WindowInv, WindowTypeOK, Class
<1>2. Fits(p, bw, 850) /\ p.bitrate # 0
  BY <1>1, DecisionFits, LearningDecisionFits, DecisionPositive DEF Learned, Predicted
<1>3. pending' = Resolved(p, bw) /\ share' = 850
  BY DEF OnBandwidth, ResizeVideo
<1> HIDE DEF p
<1> QED BY <1>2, <1>3 DEF Resolved

(* A rate that resizeVideo fills in is not 0 either.                       *)
LEMMA FilledAsked ==
  ASSUME WindowInv, standard, bandwidth \in Nat \ {0},
         NEW p \in Requests, SendClicked(p), share' # 0
  PROVE  Fits(pending', bandwidth, 1000) /\ share' = 1000
<1> DEFINE rate == BitrateFor(bandwidth, p.size, p.fps)
           asked == [p EXCEPT !.bitrate = rate]
<1>1. p.bitrate = 0 /\ share' = 1000 /\ pending' = Resolved(p, bandwidth)
  BY DEF SendClicked, ResizeVideo
<1>2. p.fps \in {15, 30} /\ {"fps", "bitrate"} \subseteq DOMAIN p
  BY RequestsAssumption
<1>3. rate \in Nat \ {0} /\ 25 * rate * p.fps <= 432 * 1000 * bandwidth
  BY <1>2, FilledFits DEF BitrateFor, WindowInv, WindowTypeOK
<1> HIDE DEF rate
<1>4. asked.bitrate = rate /\ asked.fps = p.fps
  BY <1>2
<1>5. pending' = asked
  BY <1>1, <1>3, <1>4 DEF Resolved, rate
<1> HIDE DEF asked
<1> QED BY <1>1, <1>3, <1>4, <1>5 DEF Fits

(* Only a decision and SEND change what is asked for.                      *)
LEMMA ChoiceStep ==
  WindowInv /\ ChoiceInv /\ [Next]_vars => ChoiceInv'
<1> SUFFICES ASSUME WindowInv, ChoiceInv, [Next]_vars PROVE ChoiceInv'
  OBVIOUS
<1>1. ASSUME UNCHANGED <<standard, choiceVars>> PROVE ChoiceInv'
  BY <1>1 DEF ChoiceInv, FitsChannel, Fits
<1>2. ASSUME NEW bw \in Bandwidths, OnBandwidth(bw) PROVE ChoiceInv'
  <2>1. bw \in Nat /\ bandwidth' = bw /\ standard' = standard
    BY <1>2, FunctionsAssumption DEF OnBandwidth
  <2>2. standard /\ bw # 0 => Fits(pending', bw, 850) /\ share' = 850
    BY <1>2, DecisionAsked
  <2> QED BY <2>1, <2>2 DEF ChoiceInv, FitsChannel, Fits
<1>3. ASSUME NEW p \in Requests, SendClicked(p) PROVE ChoiceInv'
  <2>1. bandwidth' = bandwidth /\ standard' = standard
    BY <1>3 DEF SendClicked
  <2>2. standard /\ share' # 0 /\ bandwidth # 0
          => Fits(pending', bandwidth, 1000) /\ share' = 1000
    BY <1>3, FilledAsked DEF ChoiceInv
  <2> QED BY <2>1, <2>2 DEF ChoiceInv, FitsChannel, Fits
<1>4. CASE LoadTrainingSet
  BY <1>1, <1>4 DEF LoadTrainingSet
<1>5. CASE Connect \/ ProcRequest
  BY <1>1, <1>5 DEF Connect, ProcRequest
<1>6. CASE Answered \/ NotAnswered \/ ServerDisconnected
  BY <1>1, <1>6 DEF Answered, Accepted, Already, NotAnswered, ServerDisconnected
<1>7. CASE AnswerQuestion \/ ClickLearning \/ PressDown
  BY <1>1, <1>7 DEF AnswerQuestion, ClickLearning, PressDown
<1>8. CASE UNCHANGED vars
  BY <1>1, <1>8 DEF vars
<1> QED BY <1>2, <1>3, <1>4, <1>5, <1>6, <1>7, <1>8 DEF Next

(* In the standard video experiment whatever the window asks for fits the  *)
(* bandwidth it was last told, whatever was answered in between: a         *)
(* decision with the margin of 85 percent, a rate filled in by resizeVideo *)
(* without one.                                                            *)
THEOREM StandardFits ==
  Spec => [](standard => FitsChannel)
<1>1. Init => ChoiceInv
  BY DEF Init, ChoiceInv, FitsChannel
<1>2. ChoiceInv => (standard => FitsChannel)
  BY DEF ChoiceInv
<1> QED BY <1>1, <1>2, WindowAlways, ChoiceStep, PTL DEF Spec

-----------------------------------------------------------------------------
(* The bit rates of both methods.  The scaling method divides by the data  *)
(* rate in use, which is an int: it has to stay positive, although each    *)
(* decision may lower it and the next one starts from there.               *)

(* A choice, with a bit rate of 0 where it is left to resizeVideo, and the *)
(* parameters of a video whose data rate is not rounded down to 0.         *)
Choice == [size : Sizes, fps : {15, 30}, bitrate : Nat]
Chosen(p) == p \in Choice /\ (p.fps = 30 \/ p.bitrate # 1)
Rated(p) == p \in AllParameters /\ (p.fps = 30 \/ p.bitrate # 1)

(* The data rate in use does not exceed that of the current parameters,    *)
(* and is theirs once a request was accepted.                              *)
InUse ==
  /\ effective \in Nat \ {0}
  /\ 432 * effective <= 25 * current.bitrate * current.fps
  /\ accepted => 25 * current.bitrate * current.fps < 432 * (effective + 1)

(* A rate for an accepted one is far within the bandwidth.                 *)
ScalesWithin ==
  ~standard /\ share # 0 /\ bandwidth # 0 => pending.bitrate <= 4 * bandwidth

RateInv ==
  /\ connection \in {"none", "open", "lost"} /\ thread \in {"idle", "started", "sent"}
  /\ bandwidth \in Bandwidths \cup {0}
  /\ asking \in BOOLEAN /\ accepted \in BOOLEAN
  /\ share \in {0, 850, 1000}
  /\ events \in 0 .. MaxEvents[standard]
  /\ Rated(pending) /\ Rated(current) /\ Rated(wire) /\ Rated(server)
  /\ InUse
  /\ ScalesWithin

(* The user asks for no 15 frames at 1 bit/s, and the channel has 5 kbit/s *)
(* or nothing.  Below, the scaling method gets to bit rates whose data     *)
(* rate is rounded down to 0, by which it then divides.                    *)
UserAsksRated == \A p \in Requests : p.fps = 30 \/ p.bitrate # 1
ChannelCarries == \A bw \in Bandwidths : bw = 0 \/ bw >= 5

-----------------------------------------------------------------------------
(* A set of numbers has a least one, and Min names it.                     *)
LEMMA MinOfNaturals ==
  ASSUME NEW S, S \subseteq Nat, S # {}
  PROVE  Min(S) \in S
<1>1. PICK x \in S : \A y \in S : ~(<<y, x>> \in OpToRel(<, Nat))
  BY WFMin, NatLessThanWellFounded
<1>2. ASSUME NEW y \in S PROVE x <= y
  <2>1. x \in Nat /\ y \in Nat
    BY <1>2
  <2>2. CASE y < x
    <3>1. <<y, x>> \in OpToRel(<, Nat)
      BY <2>1, <2>2 DEF OpToRel
    <3> QED BY <1>1, <3>1
  <2> QED BY <2>1, <2>2
<1> QED BY <1>2 DEF Min

(* Every size that is chosen is known, and no known size is empty.         *)
LEMMA SizesKnown ==
  /\ Largest \in Sizes /\ \A bitrate : SmallestNecessary(bitrate) \in Sizes
  /\ {CIF, QCIF, Size(352, 256)} \subseteq Sizes
  /\ \A size \in Sizes : size.width \in Nat \ {0} /\ size.height \in Nat \ {0}
<1>1. DOMAIN Resolutions = 1 .. Len(Resolutions) /\ Len(Resolutions) \in Nat \ {0}
  BY ResolutionsAssumption
<1>2. \A i \in DOMAIN Resolutions : Resolutions[i] \in Sizes
  BY DEF Sizes
<1>3. ASSUME NEW bitrate PROVE SmallestNecessary(bitrate) \in Sizes
  <2> DEFINE filled == {i \in DOMAIN Resolutions : bitrate > Optimum(Resolutions[i])}
             S == filled \cup {Len(Resolutions)}
  <2>1. S \subseteq DOMAIN Resolutions /\ S \subseteq Nat /\ S # {}
    BY <1>1
  <2>2. SmallestNecessary(bitrate) = Resolutions[Min(S)]
    BY DEF SmallestNecessary
  <2> HIDE DEF S
  <2>3. Min(S) \in DOMAIN Resolutions
    BY <2>1, MinOfNaturals
  <2> QED BY <1>2, <2>2, <2>3
<1>4. \A i \in DOMAIN Resolutions :
        Resolutions[i].width \in Nat \ {0} /\ Resolutions[i].height \in Nat \ {0}
  <2> DEFINE R == [width : Nat \ {0}, height : Nat \ {0}]
  <2>1. Resolutions \in Seq(R)
    BY ResolutionsAssumption
  <2>2. \A r \in R : r.width \in Nat \ {0} /\ r.height \in Nat \ {0}
    OBVIOUS
  <2> HIDE DEF R
  <2>3. \A i \in 1 .. Len(Resolutions) : Resolutions[i] \in R
    BY <2>1
  <2> QED BY <1>1, <2>2, <2>3
<1>5. \A size \in Sizes : size.width \in Nat \ {0} /\ size.height \in Nat \ {0}
  BY <1>4 DEF Sizes, CIF, QCIF, Size
<1>6. Largest \in Sizes
  BY <1>1, <1>2 DEF Largest
<1> QED BY <1>3, <1>5, <1>6 DEF Sizes

(* What a picture of such a size is given at most, and by default.         *)
LEMMA SizesRated ==
  ASSUME NEW size \in Sizes
  PROVE  /\ Optimum(size) \in Nat /\ Optimum(size) >= 2
         /\ 3 * size.width * size.height \in Nat /\ 3 * size.width * size.height >= 2
<1>1. size.width \in Nat \ {0} /\ size.height \in Nat \ {0}
  BY SizesKnown
<1>2. ASSUME NEW w \in Nat \ {0}, NEW h \in Nat \ {0}
      PROVE  /\ (7 * w * h) \div 2 \in Nat /\ (7 * w * h) \div 2 >= 2
             /\ 3 * w * h \in Nat /\ 3 * w * h >= 2
  <2> DEFINE a == w * h
  <2>1. a \in Nat /\ a >= 1
    BY SMT
  <2>2. 7 * w * h = 7 * a /\ 3 * w * h = 3 * a
    BY SMT
  <2> HIDE DEF a
  <2> QED BY <2>1, <2>2, SMT
<1> QED BY <1>1, <1>2 DEF Optimum

(* A video that is rated has a data rate.                                  *)
LEMMA DatarateOf ==
  ASSUME NEW p, Rated(p)
  PROVE  /\ Datarate(p) \in Nat \ {0}
         /\ 432 * Datarate(p) <= 25 * p.bitrate * p.fps
         /\ 25 * p.bitrate * p.fps < 432 * (Datarate(p) + 1)
<1>1. p.bitrate \in Nat \ {0} /\ p.fps \in {15, 30} /\ (p.fps = 30 \/ p.bitrate # 1)
  BY DEF Rated, AllParameters
<1>2. ASSUME NEW b \in Nat \ {0}, NEW f \in {15, 30}, f = 30 \/ b # 1
      PROVE  /\ (25 * b * f) \div 432 \in Nat \ {0}
             /\ 432 * ((25 * b * f) \div 432) <= 25 * b * f
             /\ 25 * b * f < 432 * ((25 * b * f) \div 432 + 1)
  <2>1. 25 * b * f \in Nat /\ 25 * b * f >= 432
    BY <1>2, SMT
  <2> DEFINE a == 25 * b * f
  <2> HIDE DEF a
  <2>2. a \in Nat /\ a >= 432 => /\ a \div 432 \in Nat \ {0} /\ 432 * (a \div 432) <= a
                                 /\ a < 432 * (a \div 432 + 1)
    BY SMT
  <2> QED BY <2>1, <2>2 DEF a
<1> QED BY <1>1, <1>2 DEF Datarate

-----------------------------------------------------------------------------
(* The long division is one by n / d and 0.85, rounded down once.          *)
LEMMA FitBounds ==
  ASSUME NEW b \in Nat, NEW n \in Nat \ {0}, NEW d \in Nat
  PROVE  /\ Fit(b, n, d) \in Nat
         /\ 20 * (n * Fit(b, n, d)) <= 17 * (b * d)
         /\ 17 * (b * d) < 20 * (n * (Fit(b, n, d) + 1))
<1> DEFINE a == b * d
           q == a \div n
           r == a % n
           s == (17 * r) \div n
           t == (17 * r) % n
           z == 17 * q + s
           F == z \div 20
<1>1. a \in Nat
  BY SMT
<1>2. q \in Nat /\ r \in 0 .. n - 1 /\ a = n * q + r
  <2> HIDE DEF a
  <2> QED BY <1>1, Division
<1> HIDE DEF q, r
<1>3. s \in Nat /\ t \in 0 .. n - 1 /\ 17 * r = n * s + t
  BY <1>2, Division, 17 * r \in Nat
<1> HIDE DEF s, t
<1>4. z \in Nat /\ F \in Nat /\ 20 * F <= z /\ z <= 20 * F + 19
  BY <1>2, <1>3, SMT
<1>5. 17 * a = n * z + t
  <2>1. 17 * a = 17 * (n * q) + (n * s + t)
    <3>1. \A x, y \in Nat : 17 * (x + y) = 17 * x + 17 * y
      BY SMT
    <3>2. n * q \in Nat /\ r \in Nat
      BY <1>2, SMT
    <3> QED BY <1>2, <1>3, <3>1, <3>2
  <2>2. n * (17 * q + s) = 17 * (n * q) + n * s
    BY <1>2, <1>3, SMT
  <2>3. n * q \in Nat /\ n * s \in Nat /\ t \in Nat
    BY <1>2, <1>3, SMT
  <2> QED BY <2>1, <2>2, <2>3
<1> HIDE DEF F, z, a
<1>6. n * z \in Nat /\ n * (20 * F) <= n * z /\ n * z <= n * (20 * F + 19)
  BY <1>4, SMT
<1>7. n * (20 * F) = 20 * (n * F) /\ n * (20 * F + 19) = 20 * (n * F) + 19 * n
      /\ n * (F + 1) = n * F + n /\ n * F \in Nat
  BY <1>4, SMT
<1>8. 20 * (n * F) <= 17 * a /\ 17 * a < 20 * (n * (F + 1))
  BY <1>1, <1>3, <1>5, <1>6, <1>7
<1> QED BY <1>4, <1>8 DEF Fit, F, z, s, r, q, a

(* A decision scales the bit rate in use by the bandwidth over the data    *)
(* rate, either of them doubled where the frame rate changes: what it gets *)
(* neither vanishes nor exceeds the bandwidth, which is in kbit/s.         *)
Within(x, b, f, n, d) ==
  /\ x \in Nat
  /\ d = 0 => x = 0
  /\ d >= 5 => x >= 2
  /\ 25 * b * f < 432 * (n + 1) => x <= 4 * d

(* Whichever of the two rates changes.                                     *)
LEMMA ScaledBounds ==
  ASSUME NEW b \in Nat \ {0}, NEW f \in {15, 30}, NEW n \in Nat \ {0}, NEW d \in Nat,
         NEW k \in {1, 2}, NEW m \in {1, 2}, k = 2 => m = 2 \/ f = 15,
         432 * n <= 25 * b * f
  PROVE  Within(Fit(b, k * n, m * d), b, f, n, d)
<1> DEFINE F == Fit(b, k * n, m * d)
<1>1. k * n \in Nat \ {0} /\ m * d \in Nat
  BY SMT
<1>2. F \in Nat /\ 20 * (k * n * F) <= 17 * (b * (m * d)) /\ 17 * (b * (m * d)) < 20 * (k * n * (F + 1))
  BY <1>1, FitBounds
<1> HIDE DEF F
<1>3. ASSUME d = 0 PROVE F = 0
  <2>1. b * (m * d) = 0
    BY <1>3, SMT
  <2>2. k * n * F <= 0
    BY <1>2, <2>1, SMT
  <2> QED BY <1>2, <2>2, SMT
<1>4. ASSUME d >= 5 PROVE F >= 2
  <2> SUFFICES ASSUME F <= 1 PROVE FALSE
    BY <1>2
  <2>1. k * n * (F + 1) <= 2 * (k * n)
    BY <1>1, <1>2, SMT
  <2>2. b * (m * d) >= 5 * (b * m)
    BY <1>4, SMT
  <2>3. 85 * (b * m) < 40 * (k * n)
    BY <1>1, <1>2, <2>1, <2>2, SMT
  <2>4. CASE k = 1
    <3>1. 85 * b < 40 * n
      BY <2>3, <2>4, SMT
    <3> QED BY <3>1, 432 * n <= 25 * b * f, SMT
  <2>5. CASE k = 2 /\ m = 2
    <3>1. 85 * b < 40 * n
      BY <2>3, <2>5, SMT
    <3> QED BY <3>1, 432 * n <= 25 * b * f, SMT
  <2>6. CASE k = 2 /\ m = 1
    <3>1. 85 * b < 80 * n /\ f = 15
      BY <2>3, <2>6, SMT
    <3> QED BY <3>1, 432 * n <= 25 * b * f, SMT
  <2> QED BY <2>4, <2>5, <2>6
<1>5. ASSUME 25 * b * f < 432 * (n + 1) PROVE F <= 4 * d
  <2>1. 375 * b <= 864 * n
    BY <1>5, SMT
  <2>2. 20 * (n * F) <= 34 * (b * d)
    <3>1. n * F <= k * n * F
      BY <1>2, SMT
    <3>2. b * (m * d) <= 2 * (b * d)
      BY SMT
    <3>3. n * F \in Nat /\ b * d \in Nat /\ k * n * F \in Nat /\ b * (m * d) \in Nat
      BY <1>2, SMT
    <3> QED BY <1>2, <3>1, <3>2, <3>3
  <2>3. 375 * (b * d) <= 864 * (n * d)
    BY <2>1, SMT
  <2>4. n * F <= n * (4 * d)
    <3>1. n * F \in Nat /\ b * d \in Nat /\ n * d \in Nat /\ n * (4 * d) = 4 * (n * d)
      BY <1>2, SMT
    <3> QED BY <2>2, <2>3, <3>1
  <2> QED BY <1>2, <2>4, SMT
<1> QED BY <1>2, <1>3, <1>4, <1>5 DEF Within, F

-----------------------------------------------------------------------------
(* What the decisions of the scaling method choose.                        *)
LEMMA ScaledChosen ==
  ASSUME NEW bw \in Nat, bw = 0 \/ bw >= 5, NEW n \in Nat \ {0}, NEW class \in Class,
         NEW in, Rated(in), NEW out, Rated(out), 432 * n <= 25 * in.bitrate * in.fps,
         NEW p \in {DefaultAdjustBitrate(bw, n, in, out), MakeDecision(bw, n, class, in, out)}
  PROVE  Chosen(p) /\ (25 * in.bitrate * in.fps < 432 * (n + 1) => p.bitrate <= 4 * bw)
<1> DEFINE Good(b) == /\ b \in Nat /\ b # 1
                      /\ 25 * in.bitrate * in.fps < 432 * (n + 1) => b <= 4 * bw
           Decided(q) == q \in Choice /\ Good(q.bitrate)
<1>1. /\ in.bitrate \in Nat \ {0} /\ in.fps \in {15, 30} /\ in.size \in Sizes
      /\ out \in Choice
  BY DEF Rated, AllParameters, Choice
<1>2. Good(0)
  OBVIOUS
<1>3. ASSUME NEW k \in {1, 2}, NEW m \in {1, 2}, k = 2 => m = 2 \/ in.fps = 15
      PROVE  Good(Fit(in.bitrate, k * n, m * bw))
  <2>1. Within(Fit(in.bitrate, k * n, m * bw), in.bitrate, in.fps, n, bw)
    BY <1>1, <1>3, ScaledBounds
  <2> QED BY <2>1 DEF Within
<1>4. \A b, o \in Nat : Good(b) /\ o >= 2 => Good(Least(b, o))
  BY DEF Least
<1>5. /\ Good(Fit(in.bitrate, n, bw)) /\ Good(Fit(in.bitrate, n, 2 * bw))
      /\ in.fps = 15 => Good(Fit(in.bitrate, 2 * n, bw))
  <2> HIDE DEF Good
  <2>1. 1 * n = n /\ 1 * bw = bw
    OBVIOUS
  <2>2. Good(Fit(in.bitrate, 1 * n, 1 * bw)) /\ Good(Fit(in.bitrate, 1 * n, 2 * bw))
    BY <1>3, 1 \in {1, 2}, 2 \in {1, 2}, 1 # 2
  <2>3. in.fps = 15 => Good(Fit(in.bitrate, 2 * n, 1 * bw))
    BY <1>3, 1 \in {1, 2}, 2 \in {1, 2}, 1 # 2
  <2> QED BY <2>1, <2>2, <2>3
<1> DEFINE Rate(q, b) == [q EXCEPT !.bitrate = b]
           SizeAndRate(q, b, s) == [q EXCEPT !.size = s, !.bitrate = b]
           RateAndSize(q, b, s) == [q EXCEPT !.bitrate = b, !.size = s]
           AtOnce(q, b, s, f) == [q EXCEPT !.bitrate = b, !.size = s, !.fps = f]
<1>6. ASSUME NEW q \in Choice, NEW b, Good(b), NEW s \in Sizes, NEW f \in {15, 30}
      PROVE  /\ Decided(Rate(q, b)) /\ Decided(SizeAndRate(q, b, s))
             /\ Decided(RateAndSize(q, b, s)) /\ Decided(AtOnce(q, b, s, f))
  <2>1. b \in Nat
    BY <1>6
  <2>2. Rate(q, b) \in Choice /\ Rate(q, b).bitrate = b
    BY <2>1 DEF Choice
  <2>3. SizeAndRate(q, b, s) \in Choice /\ SizeAndRate(q, b, s).bitrate = b
    BY <1>6, <2>1 DEF Choice
  <2>4. RateAndSize(q, b, s) \in Choice /\ RateAndSize(q, b, s).bitrate = b
    BY <1>6, <2>1 DEF Choice
  <2>5. AtOnce(q, b, s, f) \in Choice /\ AtOnce(q, b, s, f).bitrate = b
    BY <1>6, <2>1 DEF Choice
  <2> HIDE DEF Good, Rate, SizeAndRate, RateAndSize, AtOnce
  <2> QED BY <1>6, <2>2, <2>3, <2>4, <2>5
<1>7. Raised(in, out) \in Choice /\ Lowered(in, out) \in Choice
  BY <1>1 DEF Raised, Lowered, Choice
<1>8. \A q : Decided(q) => Chosen(q)
  BY DEF Chosen
<1> SUFFICES Decided(p)
  BY <1>8
<1> HIDE DEF Good, Decided, Rate, SizeAndRate, RateAndSize, AtOnce
<1>9. ASSUME NEW size \in Sizes, NEW b, Good(b) PROVE Good(Least(b, Optimum(size)))
  <2>1. b \in Nat
    BY <1>9 DEF Good
  <2> QED BY <1>4, <1>9, <2>1, SizesRated
<1>10. Decided(DefaultAdjustBitrate(bw, n, in, out))
  <2> DEFINE b == Least(Fit(in.bitrate, n, bw), Optimum(in.size))
  <2>1. DefaultAdjustBitrate(bw, n, in, out) = SizeAndRate(out, b, in.size)
    BY DEF DefaultAdjustBitrate, SizeAndRate
  <2>2. Good(b)
    BY <1>1, <1>5, <1>9
  <2> HIDE DEF b
  <2> QED BY <1>1, <1>6, <2>1, <2>2
<1>11. Decided(UpConvert(class, n, bw, in, out))
  <2> DEFINE paced == IF PrefersBitrate(class) THEN out ELSE Raised(in, out)
             ratio == IF ~PrefersBitrate(class) /\ in.fps < 30 THEN 2 * n ELSE n
             max == Fit(in.bitrate, ratio, bw)
             rate == IF PrefersQuality(class) THEN max ELSE Least(max, Optimum(Largest))
             size == IF PrefersQuality(class) THEN SmallestNecessary(rate) ELSE Largest
             fps == IF class = 2 /\ 2 * rate < max /\ in.fps < 30 THEN 30 ELSE paced.fps
  <2>1. UpConvert(class, n, bw, in, out)
          = AtOnce(paced, rate, size, fps)
    BY DEF UpConvert, AtOnce
  <2>2. paced \in Choice
    BY <1>1, <1>7
  <2>3. fps \in {15, 30}
    BY <2>2 DEF Choice
  <2>4. Good(max)
    BY <1>1, <1>5
  <2> HIDE DEF max
  <2>5. Good(rate)
    BY <1>9, <2>4, SizesKnown
  <2> HIDE DEF rate
  <2>6. size \in Sizes
    BY SizesKnown
  <2> HIDE DEF paced, size, fps
  <2> QED BY <1>6, <2>1, <2>2, <2>3, <2>5, <2>6
<1>12. Decided(DownConvert(class, n, bw, in, out))
  <2> DEFINE paced == IF PrefersBitrate(class) THEN Lowered(in, out) ELSE Raised(in, out)
             twice == IF PrefersBitrate(class) /\ in.fps > 15 THEN 2 ELSE 1
             ratio == IF ~PrefersBitrate(class) /\ in.fps < 30 THEN 2 * n ELSE n
             rate == Fit(in.bitrate, ratio, twice * bw)
  <2>1. DownConvert(class, n, bw, in, out)
          \in {RateAndSize(paced, 0, in.size), Rate(paced, rate),
               RateAndSize(paced, rate, SmallestNecessary(rate))}
    BY DEF DownConvert, Rate, RateAndSize
  <2>2. paced \in Choice
    BY <1>1, <1>7
  <2>3. Good(rate)
    BY <1>1, <1>5, 1 * bw = bw
  <2> HIDE DEF paced, rate
  <2> QED BY <1>1, <1>2, <1>6, <2>1, <2>2, <2>3, SizesKnown
<1> QED BY <1>10, <1>11, <1>12 DEF MakeDecision

-----------------------------------------------------------------------------
(* Dividing by the frame rate's factor loses no rate of 2 bit/s.           *)
LEMMA EncodedRated ==
  ASSUME NEW rate \in Nat, rate # 1, NEW fps \in {15, 30}
  PROVE  /\ Encoded(rate, fps) \in Nat
         /\ rate # 0 => Encoded(rate, fps) # 0
         /\ fps = 30 \/ Encoded(rate, fps) # 1
<1>1. CASE fps = 15
  <2>1. (432 * rate) \div 375 \in Nat /\ (432 * rate) \div 375 # 1
        /\ (rate # 0 => (432 * rate) \div 375 # 0)
    BY SMT
  <2> QED BY <1>1, <2>1 DEF Encoded
<1>2. CASE fps = 30
  <2>1. (432 * rate) \div 750 \in Nat /\ (rate # 0 => (432 * rate) \div 750 # 0)
    BY SMT
  <2> QED BY <1>2, <2>1 DEF Encoded
<1> QED BY <1>1, <1>2

(* What the decisions of the standard experiment choose.                   *)
LEMMA StandardChosen ==
  ASSUME NEW bw \in Nat, NEW class \in Class, NEW c \in Complexity,
         NEW p \in {MakeDecisionUsingBeta(bw, class, c), DefaultAdjustStandard(bw, c)}
  PROVE  Chosen(p)
<1> DEFINE max == Ceiling(1000 * bw)
           choice == Unscaled(class, max, Betas[c])
<1>1. max \in Nat /\ max # 1 /\ (max = 0 \/ max >= 850)
  BY CeilingExact
<1>2. /\ choice = Parameters(choice.size, choice.fps, choice.bitrate)
      /\ choice.fps \in {15, 30} /\ choice.bitrate \in Nat /\ choice.bitrate <= max
      /\ max >= 850 => choice.bitrate >= 2
  BY <1>1, UnscaledWithin, UnscaledPositive
<1>3. choice.size \in Sizes
  <2> DEFINE beta == Betas[c]
  <2>1. class = 0 => choice.size = Largest
    BY DEF Unscaled, MaximizeAll, Parameters
  <2>2. class = 1 => choice.size \in {QCIF, Size(352, 256)}
    BY DEF Unscaled, FrameRateFirst, Parameters
  <2>3. class = 2 => choice.size = Largest
    BY DEF Unscaled, FrameSizeFirst, Parameters
  <2>4. class = 3 => choice.size \in {QCIF, CIF}
    BY DEF Unscaled, QualityFirst, Parameters
  <2> HIDE DEF choice
  <2> QED BY <2>1, <2>2, <2>3, <2>4, SizesKnown DEF Class
<1>4. MakeDecisionUsingBeta(bw, class, c)
        = [choice EXCEPT !.bitrate = Encoded(choice.bitrate, choice.fps)]
  BY DEF MakeDecisionUsingBeta
<1> HIDE DEF max, choice
<1>5. Chosen(MakeDecisionUsingBeta(bw, class, c))
  <2> DEFINE e == Encoded(choice.bitrate, choice.fps)
  <2>1. e \in Nat /\ (choice.fps = 30 \/ e # 1)
    BY <1>1, <1>2, EncodedRated
  <2>2. MakeDecisionUsingBeta(bw, class, c) = [choice EXCEPT !.bitrate = e]
    BY <1>4
  <2> HIDE DEF e
  <2>3. MakeDecisionUsingBeta(bw, class, c)
          = [size |-> choice.size, fps |-> choice.fps, bitrate |-> e]
    BY <1>2, <2>2 DEF Parameters
  <2> QED BY <1>2, <1>3, <2>1, <2>3 DEF Chosen, Choice
<1>6. Chosen(DefaultAdjustStandard(bw, c))
  <2> DEFINE b == Least(Encoded(850 * bw, 30), Betas[c].c30)
  <2>1. Encoded(850 * bw, 30) \in Nat
    BY 850 * bw \in Nat, 850 * bw # 1, EncodedRated
  <2>2. Betas[c].c30 \in Nat
    BY DEF Betas, Complexity
  <2>3. b \in Nat
    BY <2>1, <2>2 DEF Least
  <2>4. DefaultAdjustStandard(bw, c) = [size |-> Largest, fps |-> 30, bitrate |-> b]
    BY DEF DefaultAdjustStandard, Parameters
  <2> HIDE DEF b
  <2> QED BY <2>3, <2>4, SizesKnown DEF Chosen, Choice
<1> QED BY <1>5, <1>6

-----------------------------------------------------------------------------
(* The rate resizeVideo fills in, by either method.                        *)
LEMMA FilledRated ==
  ASSUME WindowInv, RateInv, NEW bw \in Nat, bw >= 5, NEW size \in Sizes, NEW fps \in {15, 30}
  PROVE  LET rate == BitrateFor(bw, size, fps)
         IN  /\ rate \in Nat \ {0}
             /\ fps = 30 \/ rate # 1
             /\ ~standard /\ accepted => rate <= 4 * bw
<1>1. CASE standard
  <2> DEFINE e == Encoded(850 * bw, fps)
             o == GetOptimalBitrate(e, fps, size, complexity)
  <2>1. complexity \in Complexity
    BY DEF WindowInv, WindowTypeOK
  <2>2. e \in Nat /\ e >= 2
    <3>1. 850 * bw \in Nat /\ 850 * bw # 0 /\ 850 * bw # 1
      OBVIOUS
    <3>2. fps = 15 => (432 * (850 * bw)) \div 375 >= 2
      BY SMT
    <3>3. fps = 30 => (432 * (850 * bw)) \div 750 >= 2
      BY SMT
    <3>4. e \in Nat
      BY <3>1, EncodedRated
    <3> QED BY <3>2, <3>3, <3>4 DEF Encoded
  <2>3. \A k \in {"q15", "c15", "q30", "c30"} :
          Betas[complexity][k] \in Nat /\ Betas[complexity][k] >= 2
    BY <2>1 DEF Betas, Complexity
  <2> HIDE DEF e
  <2>4. o \in Nat /\ o >= 2
    BY <2>2, <2>3 DEF GetOptimalBitrate, Least
  <2> HIDE DEF o
  <2>5. Encoded(o, fps) \in Nat \ {0} /\ (fps = 30 \/ Encoded(o, fps) # 1)
    BY <2>4, EncodedRated
  <2> QED BY <1>1, <2>5 DEF BitrateFor, o, e
<1>2. CASE ~standard
  <2> DEFINE k == fps \div 15
             m == current.fps \div 15
             x == Fit(current.bitrate, effective * k, bw * m)
  <2>1. /\ current.bitrate \in Nat \ {0} /\ current.fps \in {15, 30}
        /\ effective \in Nat \ {0} /\ 432 * effective <= 25 * current.bitrate * current.fps
        /\ accepted => 25 * current.bitrate * current.fps < 432 * (effective + 1)
    BY DEF RateInv, InUse, Rated, AllParameters
  <2>2. k \in {1, 2} /\ m \in {1, 2} /\ (k = 2 => m = 2 \/ current.fps = 15)
    <3>1. 15 \div 15 = 1 /\ 30 \div 15 = 2
      BY SMT
    <3> QED BY <2>1, <3>1
  <2> HIDE DEF k, m
  <2>3. effective * k = k * effective /\ bw * m = m * bw
    BY <2>1, <2>2, SMT
  <2>4. Within(Fit(current.bitrate, k * effective, m * bw),
               current.bitrate, current.fps, effective, bw)
    BY <2>1, <2>2, ScaledBounds
  <2>5. x \in Nat /\ x >= 2 /\ (accepted => x <= 4 * bw)
    BY <2>1, <2>3, <2>4 DEF Within
  <2>6. BitrateFor(bw, size, fps) = Least(Optimum(size), x)
    BY <1>2 DEF BitrateFor, k, m
  <2> HIDE DEF x
  <2> QED BY <1>2, <2>5, <2>6, SizesRated DEF Least
<1> QED BY <1>1, <1>2

(* What resizeVideo makes of a choice is rated: with a bandwidth of 0 by   *)
(* the server's default.                                                   *)
LEMMA ResolvedRated ==
  ASSUME WindowInv, RateInv, NEW bw \in Nat, bw = 0 \/ bw >= 5, NEW p, Chosen(p)
  PROVE  /\ Rated(Resolved(p, bw))
         /\ p.bitrate # 0 => Resolved(p, bw) = p
         /\ p.bitrate = 0 /\ bw # 0 /\ ~standard /\ accepted
              => Resolved(p, bw).bitrate <= 4 * bw
<1>1. p \in Choice /\ (p.fps = 30 \/ p.bitrate # 1)
  BY DEF Chosen
<1>2. p.size \in Sizes /\ p.fps \in {15, 30} /\ p.bitrate \in Nat
  BY <1>1 DEF Choice
<1>3. ASSUME NEW b \in Nat \ {0}, p.fps = 30 \/ b # 1
      PROVE  Rated([p EXCEPT !.bitrate = b]) /\ [p EXCEPT !.bitrate = b].bitrate = b
             /\ [p EXCEPT !.bitrate = b].size = p.size
  BY <1>1, <1>3 DEF Choice, Rated, AllParameters
<1>4. CASE p.bitrate # 0
  <2>1. Resolved(p, bw) = p
    BY <1>4 DEF Resolved
  <2>2. Rated(p)
    BY <1>1, <1>4 DEF Choice, Rated, AllParameters
  <2> QED BY <1>4, <2>1, <2>2
<1>5. CASE p.bitrate = 0 /\ bw = 0
  <2> DEFINE b == 3 * p.size.width * p.size.height
  <2>1. b \in Nat \ {0} /\ b # 1
    BY <1>2, SizesRated
  <2>2. Resolved(p, bw) = [p EXCEPT !.bitrate = b]
    BY <1>5 DEF Resolved
  <2> HIDE DEF b
  <2> QED BY <1>3, <1>5, <2>1, <2>2
<1>6. CASE p.bitrate = 0 /\ bw # 0
  <2> DEFINE b == BitrateFor(bw, p.size, p.fps)
  <2>1. /\ b \in Nat \ {0} /\ (p.fps = 30 \/ b # 1)
        /\ ~standard /\ accepted => b <= 4 * bw
    BY <1>2, <1>6, FilledRated
  <2>2. [p EXCEPT !.bitrate = b].bitrate # 0 => Resolved(p, bw) = [p EXCEPT !.bitrate = b]
    BY <1>6 DEF Resolved
  <2> HIDE DEF b
  <2> QED BY <1>3, <1>6, <2>1, <2>2
<1> QED BY <1>4, <1>5, <1>6

-----------------------------------------------------------------------------
(* What a new window has.                                                  *)
LEMMA RateInit ==
  Init => RateInv
<1> SUFFICES ASSUME Init PROVE RateInv
  OBVIOUS
<1>1. Rated(Initial) /\ Rated(Default)
  BY SizesKnown DEF Initial, Default, Parameters, Rated, AllParameters
<1>2. standard \in BOOLEAN
  BY ModesAssumption DEF Init
<1>3. events \in 0 .. MaxEvents[standard]
  BY <1>2, BoundsAssumption DEF Init
<1>4. Rated(pending) /\ Rated(current) /\ Rated(wire) /\ Rated(server)
  BY <1>1 DEF Init
<1>5. InUse
  BY <1>2, SMT DEF Init, InUse, Initial, Parameters
<1>6. /\ connection \in {"none", "open", "lost"} /\ thread \in {"idle", "started", "sent"}
      /\ bandwidth \in Bandwidths \cup {0}
      /\ asking \in BOOLEAN /\ accepted \in BOOLEAN
      /\ share \in {0, 850, 1000} /\ share = 0
  BY DEF Init
<1> QED BY <1>3, <1>4, <1>5, <1>6 DEF RateInv, ScalesWithin

(* What the invariant depends on besides the progress of an exchange.      *)
rateVars == <<standard, bandwidth, asking, accepted, share, pending, current, effective>>

(* An exchange that leaves all of this alone.                              *)
LEMMA RateStutters ==
  ASSUME RateInv, UNCHANGED rateVars,
         events' \in 0 .. MaxEvents[standard],
         connection' \in {"none", "open", "lost"}, thread' \in {"idle", "started", "sent"},
         Rated(wire'), Rated(server')
  PROVE  RateInv'
BY DEF RateInv, rateVars, Rated, InUse, ScalesWithin

(* A change counted by the bound.                                          *)
LEMMA DisturbedBounded ==
  ASSUME WindowInv, RateInv, Disturbed
  PROVE  events' \in 0 .. MaxEvents[standard]
<1>1. events \in 0 .. MaxEvents[standard] /\ MaxEvents[standard] \in Nat
  BY BoundsAssumption DEF WindowInv, WindowTypeOK, RateInv
<1> QED BY <1>1 DEF Disturbed

(* A choice of the window or of the user, resolved and asked for.          *)
LEMMA AskedKeeps ==
  ASSUME WindowInv, RateInv, NEW bw \in Bandwidths \cup {0}, bw = 0 \/ bw >= 5,
         NEW p, Chosen(p), ResizeVideo(p, bw), bandwidth' = bw,
         events' \in 0 .. MaxEvents[standard], share' \in {0, 850, 1000},
         UNCHANGED <<standard, knownVars>>,
         ~standard /\ share' # 0 /\ bw # 0 /\ p.bitrate # 0 => p.bitrate <= 4 * bw,
         ~standard /\ share' # 0 => accepted
  PROVE  RateInv'
<1>1. bw \in Nat
  BY FunctionsAssumption
<1>2. /\ Rated(Resolved(p, bw))
      /\ p.bitrate # 0 => Resolved(p, bw) = p
      /\ p.bitrate = 0 /\ bw # 0 /\ ~standard /\ accepted
           => Resolved(p, bw).bitrate <= 4 * bw
  BY <1>1, ResolvedRated
<1>3. /\ pending' = Resolved(p, bw)
      /\ thread' \in {"started", thread}
      /\ UNCHANGED <<connection, wire, server>>
  BY DEF ResizeVideo
<1>4. Rated(pending')
  BY <1>2, <1>3
<1>5. ScalesWithin'
  BY <1>2, <1>3 DEF ScalesWithin
<1>6. InUse'
  BY DEF RateInv, InUse
<1>7. Rated(current') /\ Rated(wire') /\ Rated(server')
  BY <1>3 DEF RateInv
<1>8. /\ connection' \in {"none", "open", "lost"} /\ thread' \in {"idle", "started", "sent"}
      /\ asking' \in BOOLEAN /\ accepted' \in BOOLEAN
  BY <1>3 DEF RateInv
<1>9. events' \in 0 .. MaxEvents'[standard']
  OBVIOUS
<1> QED BY <1>4, <1>5, <1>6, <1>7, <1>8, <1>9 DEF RateInv

(* What onBandwidth decides, learning or not, for a bandwidth the channel  *)
(* may have.                                                               *)
LEMMA DecisionChosen ==
  ASSUME WindowInv, RateInv, NEW bw \in Bandwidths, bw = 0 \/ bw >= 5,
         NEW p \in {Learned(bw), Predicted(bw)}
  PROVE  Chosen(p) /\ (~standard /\ accepted => p.bitrate <= 4 * bw)
<1>1. bw \in Nat /\ Prediction(bw) \in Class /\ complexity \in Complexity
  BY FunctionsAssumption, PredictionIsClass DEF WindowInv, WindowTypeOK, Class
<1>2. CASE standard
  <2>1. p \in {MakeDecisionUsingBeta(bw, Prediction(bw), complexity),
               DefaultAdjustStandard(bw, complexity)}
    BY <1>2 DEF Learned, Predicted
  <2> QED BY <1>1, <1>2, <2>1, StandardChosen
<1>3. CASE ~standard
  <2>1. /\ Rated(current) /\ Rated(pending) /\ effective \in Nat \ {0}
        /\ 432 * effective <= 25 * current.bitrate * current.fps
        /\ accepted => 25 * current.bitrate * current.fps < 432 * (effective + 1)
    BY DEF RateInv, InUse
  <2>2. p \in {DefaultAdjustBitrate(bw, effective, current, pending),
               MakeDecision(bw, effective, Prediction(bw), current, pending)}
    BY <1>3 DEF Learned, Predicted
  <2>3. /\ Chosen(p)
        /\ 25 * current.bitrate * current.fps < 432 * (effective + 1) => p.bitrate <= 4 * bw
    BY <1>1, <2>1, <2>2, ScaledChosen
  <2> QED BY <2>1, <2>3
<1> QED BY <1>2, <1>3

-----------------------------------------------------------------------------
(* One case per action.                                                    *)
LEMMA RateStep ==
  ASSUME UserAsksRated, ChannelCarries
  PROVE  WindowInv /\ RateInv /\ [Next]_vars => RateInv'
<1> SUFFICES ASSUME WindowInv, RateInv, [Next]_vars PROVE RateInv'
  OBVIOUS
<1>0. /\ connection \in {"none", "open", "lost"} /\ thread \in {"idle", "started", "sent"}
      /\ events \in 0 .. MaxEvents[standard]
      /\ Rated(pending) /\ Rated(current) /\ Rated(wire) /\ Rated(server)
  BY DEF RateInv
<1>1. ASSUME NEW bw \in Bandwidths, OnBandwidth(bw) PROVE RateInv'
  <2> DEFINE p == IF learning THEN Learned(bw) ELSE Predicted(bw)
  <2>1. bw = 0 \/ bw >= 5
    BY DEF ChannelCarries
  <2>2. Chosen(p) /\ (~standard /\ accepted => p.bitrate <= 4 * bw)
    BY <2>1, DecisionChosen
  <2>3. /\ ResizeVideo(p, bw) /\ bandwidth' = bw
        /\ share' = IF standard \/ accepted THEN 850 ELSE 0
        /\ UNCHANGED <<standard, knownVars>>
        /\ IF bw = bandwidth THEN UNCHANGED events ELSE Disturbed
    BY <1>1 DEF OnBandwidth
  <2>4. events' \in 0 .. MaxEvents[standard]
    BY <1>0, <2>3, DisturbedBounded
  <2> HIDE DEF p
  <2> QED BY <2>1, <2>2, <2>3, <2>4, AskedKeeps
<1>2. ASSUME NEW p \in Requests, SendClicked(p) PROVE RateInv'
  <2>1. bandwidth \in Bandwidths \cup {0} /\ (bandwidth = 0 \/ bandwidth >= 5)
    BY DEF RateInv, ChannelCarries
  <2>2. Chosen(p)
    BY RequestsAssumption DEF UserAsksRated, Chosen, Choice, Sizes
  <2>3. /\ ResizeVideo(p, bandwidth) /\ bandwidth' = bandwidth /\ Disturbed
        /\ share' = IF p.bitrate = 0 /\ (standard \/ accepted) THEN 1000 ELSE 0
        /\ UNCHANGED <<standard, knownVars>>
    BY <1>2 DEF SendClicked
  <2>4. events' \in 0 .. MaxEvents[standard]
    BY <2>3, DisturbedBounded
  <2> QED BY <2>1, <2>2, <2>3, <2>4, AskedKeeps
<1>3. CASE LoadTrainingSet \/ ClickLearning
  <2>1. UNCHANGED <<rateVars, events, connection, thread, wire, server>>
    BY <1>3 DEF LoadTrainingSet, ClickLearning, rateVars
  <2> QED BY <1>0, <2>1, RateStutters
<1>4. CASE Connect
  <2>1. UNCHANGED <<rateVars, events, thread, wire, server>> /\ connection' = "open"
    BY <1>4 DEF Connect, rateVars
  <2> QED BY <1>0, <2>1, RateStutters
<1>5. CASE ProcRequest
  <2>1. /\ UNCHANGED <<rateVars, events, connection, server>>
        /\ wire' = pending /\ thread' = "sent"
    BY <1>5 DEF ProcRequest, rateVars
  <2> QED BY <1>0, <2>1, RateStutters
<1>6. Rated(Initial)
  BY SizesKnown DEF Initial, Parameters, Rated, AllParameters
<1>7. CASE Accepted
  <2>1. /\ current' = pending /\ effective' = Datarate(pending) /\ accepted' = TRUE
        /\ wire' = Initial /\ server' = wire /\ thread' = "idle"
        /\ asking' = (asking \/ learning)
        /\ UNCHANGED <<standard, connection, choiceVars, events>>
    BY <1>7 DEF Accepted
  <2>2. InUse'
    BY <1>0, <2>1, DatarateOf DEF InUse
  <2>3. Rated(pending') /\ Rated(current') /\ Rated(wire') /\ Rated(server')
    BY <1>0, <1>6, <2>1
  <2>4. ScalesWithin'
    BY <2>1 DEF RateInv, ScalesWithin
  <2>5. asking' \in BOOLEAN
    BY <2>1
  <2>6. events' \in 0 .. MaxEvents'[standard'] /\ connection' \in {"none", "open", "lost"}
    BY <1>0, <2>1
  <2>7. bandwidth' \in Bandwidths' \cup {0} /\ share' \in {0, 850, 1000}
    BY <2>1 DEF RateInv
  <2> QED BY <2>1, <2>2, <2>3, <2>4, <2>5, <2>6, <2>7 DEF RateInv
<1>8. CASE Already
  <2>1. UNCHANGED <<rateVars, events, connection, server>> /\ wire' = Initial /\ thread' = "idle"
    BY <1>8 DEF Already, rateVars
  <2> QED BY <1>0, <1>6, <2>1, RateStutters
<1>9. CASE NotAnswered \/ ServerDisconnected
  <2>1. /\ UNCHANGED rateVars /\ Disturbed /\ server' \in {server, wire}
        /\ connection' \in {connection, "lost"} /\ wire' = Initial /\ thread' = "idle"
    BY <1>9 DEF NotAnswered, ServerDisconnected, rateVars
  <2>2. events' \in 0 .. MaxEvents[standard]
    BY <2>1, DisturbedBounded
  <2>3. Rated(server') /\ Rated(wire')
    BY <1>0, <1>6, <2>1
  <2> QED BY <1>0, <2>1, <2>2, <2>3, RateStutters
<1>10. CASE AnswerQuestion
  <2>1. /\ UNCHANGED <<standard, bandwidth, accepted, share, pending, current, effective,
                       events, connection, thread, wire, server>>
        /\ asking' \in BOOLEAN
    BY <1>10 DEF AnswerQuestion
  <2> QED BY <2>1 DEF RateInv, Rated, InUse, ScalesWithin
<1>11. CASE PressDown
  <2>1. UNCHANGED <<rateVars, connection, thread, wire, server>> /\ Disturbed
    BY <1>11 DEF PressDown, rateVars
  <2> QED BY <1>0, <2>1, DisturbedBounded, RateStutters
<1>12. CASE UNCHANGED vars
  <2>1. UNCHANGED <<rateVars, events, connection, thread, wire, server>>
    BY <1>12 DEF vars, rateVars
  <2> QED BY <1>0, <2>1, RateStutters
<1> QED BY <1>1, <1>2, <1>3, <1>4, <1>5, <1>7, <1>8, <1>9, <1>10, <1>11, <1>12
        DEF Next, Answered

(* The invariants of every window on such a channel.                       *)
LEMMA RateAlways ==
  ASSUME UserAsksRated, ChannelCarries
  PROVE  Spec => [](WindowInv /\ RateInv)
BY WindowInit, RateInit, WindowStep, RateStep, PTL DEF Spec

-----------------------------------------------------------------------------
(* Every variable keeps to its type: no bit rate is 0, and neither is the  *)
(* data rate in use, by which the scaling method divides the next time.    *)
(* It is rounded down at every acceptance, so this takes a channel of 5    *)
(* kbit/s.                                                                 *)
THEOREM TypeCorrect ==
  ASSUME UserAsksRated, ChannelCarries
  PROVE  Spec => []TypeOK
<1>1. WindowInv /\ RateInv => TypeOK
  <2> SUFFICES ASSUME WindowInv, RateInv PROVE TypeOK
    OBVIOUS
  <2>1. {pending, current, wire, server} \subseteq AllParameters
    BY DEF RateInv, Rated
  <2>2. standard \in BOOLEAN /\ complexity \in Complexity
    BY DEF WindowInv, WindowTypeOK
  <2>3. LearningTypeOK /\ PlayerTypeOK
    BY DEF WindowInv, WindowTypeOK
  <2> QED BY <2>1, <2>2, <2>3 DEF RateInv, InUse, TypeOK
<1> QED BY <1>1, RateAlways, PTL

(* Whatever the class, the answers and the changes of the bandwidth, what  *)
(* the window decides fits the bandwidth it was last told, by either       *)
(* method.                                                                 *)
THEOREM ChoicesFit ==
  ASSUME UserAsksRated, ChannelCarries
  PROVE  Spec => []FitsChannel
<1>1. WindowInv /\ RateInv /\ (standard => FitsChannel) => FitsChannel
  <2> SUFFICES ASSUME WindowInv, RateInv, ~standard, share # 0, bandwidth # 0
               PROVE  Fits(pending, bandwidth, share)
    BY DEF WindowInv, WindowTypeOK, FitsChannel
  <2>1. /\ share \in {850, 1000} /\ bandwidth \in Nat
        /\ pending.bitrate \in Nat /\ pending.fps \in {15, 30}
        /\ pending.bitrate <= 4 * bandwidth
    BY FunctionsAssumption DEF RateInv, Rated, AllParameters, ScalesWithin
  <2>2. ASSUME NEW b \in Nat, NEW bw \in Nat, NEW fps \in {15, 30}, b <= 4 * bw,
               NEW part \in {850, 1000}
        PROVE  25 * b * fps <= 432 * part * bw
    BY <2>2, SMT
  <2> QED BY <2>1, <2>2 DEF Fits
<1> QED BY <1>1, RateAlways, StandardFits, PTL
=============================================================================

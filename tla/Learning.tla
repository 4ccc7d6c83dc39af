------------------------------ MODULE Learning ------------------------------
(***************************************************************************)
(* The desktop client's control center and its two learning modules: one   *)
(* learns whether the user prefers bit rate (1) to frame rate (-1), one    *)
(* whether she prefers quality (1) to size (-1).  The examples come first  *)
(* from a file and later from the video windows.  A feature set is the     *)
(* bandwidth: the content type of a camera stays.  Training is dlib's      *)
(* (external): it may come out with any function.                          *)
(***************************************************************************)
EXTENDS Integers

CONSTANTS
  Bandwidths,   (* in the file of bandwidths, in kbit/s                    *)
  Functions,    (* that training may come out with                         *)
  Batch,        (* examples between two trainings: 30 in the code          *)
  MaxExamples   (* bound: examples                                         *)

ASSUME BatchAssumption == Batch \in Nat \ {0} /\ MaxExamples \in Nat
ASSUME FunctionsAssumption ==
  /\ Bandwidths \subseteq Nat
  /\ Functions # {} /\ Functions \subseteq [Bandwidths -> {0, 1}]

VARIABLES
  examples,     (* m_num_training_samples, the same in both modules        *)
  oneClass,     (* per module: m_one_class_only                            *)
  single,       (* per module: m_single_class_val, -2 for none             *)
  function,     (* per module: m_decision_function                         *)
  labels,       (* history: per module, the example that first had a label *)
  learning,     (* the check box "Learning Mode": checked                  *)
  selectable    (* ... and enabled                                         *)

learners == <<examples, oneClass, single, function, labels>>
learningVars == <<learners, learning, selectable>>

Module == {"fpsBitrate", "sizeQuality"}
Label == {-1, 1}

(* A function that was never trained: its constructor leaves it without    *)
(* support vectors and with a bias of 0.                                   *)
Untrained == << >>

LearningInit ==
  /\ examples = 0
  /\ oneClass = [m \in Module |-> TRUE]
  /\ single = [m \in Module |-> -2]
  /\ function = [m \in Module |-> Untrained]
  /\ labels = [m \in Module |-> [l \in Label |-> 0]]
  /\ learning = TRUE
  /\ selectable = FALSE

-----------------------------------------------------------------------------
(* addTrainingSample, the same for both modules.                           *)
AddTrainingSample(label) ==
  /\ examples' = examples + 1
  /\ single' = [m \in Module |-> IF single[m] = -2 THEN label[m] ELSE single[m]]
  /\ oneClass' = [m \in Module |-> oneClass[m] /\ single[m] \in {-2, label[m]}]
  /\ labels' = [m \in Module |->
       [labels[m] EXCEPT ![label[m]] = IF @ = 0 THEN examples' ELSE @]]

(* Mutant: only the second module is trained.                              *)
TrainHalf ==
  \E trained \in Functions :
    function' = [function EXCEPT !["sizeQuality"] =
                   IF oneClass'["sizeQuality"] THEN @ ELSE trained]

(* trainCurrent of both modules: nothing for one that knows one label.     *)
Train ==
  \E trained \in [Module -> Functions] :
    function' = [m \in Module |-> IF oneClass'[m] THEN function[m] ELSE trained[m]]

(* addTrainingExample; the line written to a file is left out.             *)
AddTrainingExample(label) ==
  /\ examples < MaxExamples
  /\ AddTrainingSample(label)
  /\ IF examples' % Batch = 0
     THEN Train /\ selectable' = TRUE
     ELSE UNCHANGED <<function, selectable>>
  /\ UNCHANGED learning

(* The user clicks the check box.                                          *)
ToggleLearning ==
  /\ selectable
  /\ learning' = ~learning
  /\ UNCHANGED <<learners, selectable>>

(* LearningInterface::predict, as the bit that ControlCenter::predict      *)
(* makes of it.  An untrained function answers an empty sum less its bias, *)
(* which is 0 and makes a 1.                                               *)
Bit(m, bw) ==
  CASE oneClass[m] -> IF single[m] = 1 THEN 1 ELSE 0
    [] ~oneClass[m] /\ function[m] = Untrained -> 1
    [] OTHER -> function[m][bw]

(* ControlCenter::predict.                                                 *)
Prediction(bw) == Bit("sizeQuality", bw) + 2 * Bit("fpsBitrate", bw)

-----------------------------------------------------------------------------
LearningTypeOK ==
  /\ examples \in 0 .. MaxExamples
  /\ oneClass \in [Module -> BOOLEAN]
  /\ single \in [Module -> Label \cup {-2}]
  /\ function \in [Module -> Functions \cup {Untrained}]
  /\ labels \in [Module -> [Label -> 0 .. MaxExamples]]
  /\ learning \in BOOLEAN /\ selectable \in BOOLEAN

(* learninginterface.cpp: "If the user only has one label ever applied     *)
(* ... we can safely predict that this will be their label".  With both    *)
(* labels known, an untrained function is asked only until the next whole  *)
(* batch of examples: the second label may arrive long after the user was  *)
(* allowed to leave the learning mode.                                     *)
Seen(m) == {l \in Label : labels[m][l] # 0}
LastTraining == Batch * (examples \div Batch)

PredictsKnown ==
  \A m \in Module :
    /\ Seen(m) # Label => \A bw \in Bandwidths : Bit(m, bw) = IF Seen(m) = {1} THEN 1 ELSE 0
    /\ Seen(m) = Label /\ (\A l \in Label : labels[m][l] <= LastTraining)
         => function[m] \in Functions
=============================================================================

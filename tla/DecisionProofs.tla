--------------------------- MODULE DecisionProofs ---------------------------
(***************************************************************************)
(* For every bandwidth, every class and every complexity, the decisions of *)
(* the standard video experiment fit the channel.  The arithmetic is in    *)
(* EncodedFits: dividing a bit rate by the frame rate's factor, and        *)
(* rounding down, keeps the data rate below the bit rate.                  *)
(***************************************************************************)
EXTENDS Decision, TLAPS

(* A bit rate made for a frame rate of 15 or 30, from one that is within   *)
(* 850 per mille of the bandwidth, leaves the video within these.          *)
LEMMA EncodedFits ==
  ASSUME NEW bandwidth \in Nat, NEW rate \in Nat, rate <= 850 * bandwidth,
         NEW fps \in {15, 30}, NEW size
  PROVE  Fits(Parameters(size, fps, Encoded(rate, fps)), bandwidth, 850)
<1>1. CASE fps = 15
  <2> DEFINE e == (432 * rate) \div 375
  <2>1. e \in Nat /\ 375 * e <= 432 * rate
    BY SMT
  <2>2. Encoded(rate, fps) = e
    BY <1>1 DEF Encoded
  <2>3. 25 * e * 15 <= 432 * 850 * bandwidth
    <3> HIDE DEF e
    <3> QED BY <2>1, SMT
  <2> QED BY <2>2, <2>3, <1>1 DEF Fits, Parameters
<1>2. CASE fps = 30
  <2> DEFINE e == (432 * rate) \div 750
  <2>1. e \in Nat /\ 750 * e <= 432 * rate
    BY SMT
  <2>2. Encoded(rate, fps) = e
    BY <1>2 DEF Encoded
  <2>3. 25 * e * 30 <= 432 * 850 * bandwidth
    <3> HIDE DEF e
    <3> QED BY <2>1, SMT
  <2> QED BY <2>2, <2>3, <1>2 DEF Fits, Parameters
<1> QED BY <1>1, <1>2

(* The rate that the ceiling of 0.85 leaves of a bandwidth in kbit/s.      *)
LEMMA CeilingExact ==
  ASSUME NEW bandwidth \in Nat
  PROVE  Ceiling(1000 * bandwidth) = 850 * bandwidth
BY SMT DEF Ceiling

(* What the table chooses before it is scaled: a frame rate of 15 or 30,   *)
(* and no more than the channel allows.                                    *)
LEMMA UnscaledWithin ==
  ASSUME NEW max \in Nat, NEW class \in Class, NEW complexity \in Complexity
  PROVE  LET choice == Unscaled(class, max, Betas[complexity])
         IN  /\ choice = Parameters(choice.size, choice.fps, choice.bitrate)
             /\ choice.fps \in {15, 30}
             /\ choice.bitrate \in Nat /\ choice.bitrate <= max
<1> DEFINE beta == Betas[complexity]
<1>1. beta.q15 \in Nat /\ beta.c15 \in Nat /\ beta.q30 \in Nat /\ beta.c30 \in Nat
  BY DEF Betas, Complexity
<1> HIDE DEF beta
<1>2. CASE class = 0
  BY <1>1, <1>2 DEF Unscaled, MaximizeAll, Parameters, Least, beta
<1>3. CASE class = 1
  BY <1>1, <1>3 DEF Unscaled, FrameRateFirst, Parameters, beta
<1>4. CASE class = 2
  BY <1>1, <1>4 DEF Unscaled, FrameSizeFirst, Parameters, beta
<1>5. CASE class = 3
  BY <1>1, <1>5 DEF Unscaled, QualityFirst, Parameters, beta
<1> QED BY <1>2, <1>3, <1>4, <1>5 DEF Class

(* makeDecisionUsingBeta keeps the data rate within 85 percent of the      *)
(* bandwidth, whatever the class and the content.                          *)
THEOREM DecisionFits ==
  ASSUME NEW bandwidth \in Nat, NEW class \in Class, NEW complexity \in Complexity
  PROVE  Fits(MakeDecisionUsingBeta(bandwidth, class, complexity), bandwidth, 850)
<1> DEFINE choice == Unscaled(class, Ceiling(1000 * bandwidth), Betas[complexity])
<1>1. /\ choice = Parameters(choice.size, choice.fps, choice.bitrate)
      /\ choice.fps \in {15, 30}
      /\ choice.bitrate \in Nat /\ choice.bitrate <= 850 * bandwidth
  BY CeilingExact, UnscaledWithin, 850 * bandwidth \in Nat
<1>2. MakeDecisionUsingBeta(bandwidth, class, complexity)
        = [choice EXCEPT !.bitrate = Encoded(choice.bitrate, choice.fps)]
  BY DEF MakeDecisionUsingBeta
<1> HIDE DEF choice
<1>3. MakeDecisionUsingBeta(bandwidth, class, complexity)
        = Parameters(choice.size, choice.fps, Encoded(choice.bitrate, choice.fps))
  BY <1>1, <1>2 DEF Parameters
<1> QED BY <1>1, <1>3, EncodedFits

(* So does the choice of the learning mode.                                *)
THEOREM LearningDecisionFits ==
  ASSUME NEW bandwidth \in Nat, NEW complexity \in Complexity
  PROVE  Fits(DefaultAdjustStandard(bandwidth, complexity), bandwidth, 850)
<1> DEFINE rate == 850 * bandwidth
           e == Encoded(rate, 30)
           b == Least(e, Betas[complexity].c30)
<1>1. Fits(Parameters(Largest, 30, e), bandwidth, 850)
  BY EncodedFits, rate \in Nat
<1>2. e \in Nat /\ Betas[complexity].c30 \in Nat
  BY SMT DEF Encoded, Betas, Complexity
<1> HIDE DEF e
<1>3. b \in Nat /\ b <= e
  BY <1>2 DEF Least
<1>4. 25 * e * 30 <= 432 * 850 * bandwidth
  BY <1>1 DEF Fits, Parameters
<1>5. DefaultAdjustStandard(bandwidth, complexity) = Parameters(Largest, 30, b)
  BY DEF DefaultAdjustStandard, e
<1> HIDE DEF b
<1>6. 25 * b * 30 <= 432 * 850 * bandwidth
  BY <1>2, <1>3, <1>4, SMT
<1> QED BY <1>5, <1>6 DEF Fits, Parameters
=============================================================================

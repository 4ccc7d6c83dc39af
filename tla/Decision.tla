------------------------------ MODULE Decision ------------------------------
(***************************************************************************)
(* The decision module of the desktop client (DecisionInterface): which    *)
(* size, frame rate and bit rate to ask a camera server for, given the     *)
(* bandwidth of the channel in kbit/s and the class of the user.  Bit 1 of *)
(* the class says that the user prefers bit rate to frame rate, bit 0 that *)
(* she prefers quality to size.  The program has two methods: one for the  *)
(* standard video experiment, which looks the bit rate up in a table, and  *)
(* one that scales the bit rate in use.  Its floats are exact fractions    *)
(* here; a conversion to int rounds down.                                  *)
(***************************************************************************)
EXTENDS Integers, Sequences, FiniteSetsExt

CONSTANT Resolutions   (* m_possible_resolutions, the largest first        *)

Size(width, height) == [width |-> width, height |-> height]
CIF == Size(352, 288)
QCIF == Size(176, 144)

ASSUME ResolutionsAssumption ==
  /\ Resolutions \in Seq([width : Nat \ {0}, height : Nat \ {0}])
  /\ Resolutions # << >>

(* EncodingParameters.                                                     *)
Parameters(size, fps, bitrate) == [size |-> size, fps |-> fps, bitrate |-> bitrate]

Class == 0 .. 3
PrefersBitrate(class) == class \in {2, 3}
PrefersQuality(class) == class \in {1, 3}

Least(a, b) == IF a < b THEN a ELSE b

(* OPTIMUM_CEILING is 0.85.                                                *)
Ceiling(rate) == (17 * rate) \div 20

(* rate / (fps / 17.28): 17.28 is the frame rate, found by experiment, at  *)
(* which the encoder's bit rate is what it was told.                       *)
Encoded(rate, fps) == (432 * rate) \div (25 * fps)

(* The data rate of a video.                                               *)
Datarate(p) == (25 * p.bitrate * p.fps) \div 432

(* Whether the data rate of a video uses no more than the given part, in   *)
(* per mille, of a bandwidth.                                              *)
Fits(p, bandwidth, part) == 25 * p.bitrate * p.fps <= 432 * part * bandwidth

(* width * height * 3.5, above which a picture does not improve.           *)
Optimum(size) == (7 * size.width * size.height) \div 2

Largest == Resolutions[1]

-----------------------------------------------------------------------------
(* The standard video experiment: m_betas, by complexity.                  *)
Betas ==
  << [q15 |-> 150000, c15 |-> 200000, q30 |-> 100000, c30 |-> 400000],
     [q15 |-> 250000, c15 |-> 400000, q30 |-> 260000, c30 |-> 500000],
     [q15 |-> 500000, c15 |-> 800000, q30 |-> 500000, c30 |-> 850000] >>

Complexity == DOMAIN Betas

(* What makeDecisionUsingBeta chooses before it scales the bit rate, for   *)
(* each class, from the rate that the channel allows.  The height of 256   *)
(* is the program's.                                                       *)
MaximizeAll(max, beta) == Parameters(Largest, 30, Least(max, beta.c30))

FrameRateFirst(max, beta) ==
  CASE beta.q30 > max -> Parameters(QCIF, 30, max)
    [] beta.q30 <= max /\ beta.c30 > max -> Parameters(QCIF, 30, beta.q30)
    [] OTHER -> Parameters(Size(352, 256), 30, max)

(* Mutant: the tests of the table come in the opposite order.              *)
FrameSizeFirstSwapped(max, beta) ==
  CASE beta.c30 > max -> Parameters(Largest, 15, beta.c15)
    [] OTHER -> Parameters(Largest, 30, max)

FrameSizeFirst(max, beta) ==
  CASE beta.c15 > max -> Parameters(Largest, 15, max)
    [] beta.c15 <= max /\ beta.c30 > max -> Parameters(Largest, 15, beta.c15)
    [] OTHER -> Parameters(Largest, 30, max)

QualityFirst(max, beta) ==
  CASE beta.q15 > max \/ beta.q30 > max -> Parameters(QCIF, 15, max)
    [] beta.q15 <= max /\ beta.q30 <= max /\ beta.c15 > max -> Parameters(QCIF, 30, max)
    [] beta.c15 <= max /\ beta.c30 > max -> Parameters(CIF, 15, max)
    [] OTHER -> Parameters(CIF, 30, max)

Unscaled(class, max, beta) ==
  CASE class = 0 -> MaximizeAll(max, beta)
    [] class = 1 -> FrameRateFirst(max, beta)
    [] class = 2 -> FrameSizeFirst(max, beta)
    [] class = 3 -> QualityFirst(max, beta)

MakeDecisionUsingBeta(bandwidth, class, complexity) ==
  LET choice == Unscaled(class, Ceiling(1000 * bandwidth), Betas[complexity])
  IN  [choice EXCEPT !.bitrate = Encoded(@, choice.fps)]

(* defaultAdjustBitrate with a complexity: the mode of learning.           *)
DefaultAdjustStandard(bandwidth, complexity) ==
  Parameters(Largest, 30, Least(Encoded(850 * bandwidth, 30), Betas[complexity].c30))

GetOptimalBitrate(max, fps, size, complexity) ==
  LET beta == Betas[complexity]
  IN  Least(max, CASE fps = 30 /\ size.width = 352 -> beta.c30
                   [] fps = 30 /\ size.width # 352 -> beta.q30
                   [] fps # 30 /\ size.width = 352 -> beta.c15
                   [] OTHER -> beta.q15)

-----------------------------------------------------------------------------
(* The other method scales the bit rate in use by the ratio of data rate   *)
(* to bandwidth, here the fraction n / d.                                  *)

(* bitrate / (n / d) * 0.85, by a long division that stays small.          *)
Fit(bitrate, n, d) ==
  LET q == (bitrate * d) \div n
      r == (bitrate * d) % n
  IN  (17 * q + (17 * r) \div n) \div 20

DefaultAdjustBitrate(bandwidth, datarate, in, out) ==
  [out EXCEPT !.size = in.size,
              !.bitrate = Least(Fit(in.bitrate, datarate, bandwidth), Optimum(in.size))]

(* "Change size to smallest necessary to provide best quality": the first  *)
(* size that the bit rate can fill, or the last.                           *)
SmallestNecessary(bitrate) ==
  LET filled == {i \in DOMAIN Resolutions : bitrate > Optimum(Resolutions[i])}
  IN  Resolutions[Min(filled \cup {Len(Resolutions)})]

(* Both conversions first fix the frame rate, where the class calls for    *)
(* it, and the ratio with it.                                              *)
Raised(in, out) == IF in.fps < 30 THEN [out EXCEPT !.fps = 30] ELSE out
Lowered(in, out) == IF in.fps > 15 THEN [out EXCEPT !.fps = 15] ELSE out

(* upConvert.                                                              *)
UpConvert(class, n, d, in, out) ==
  LET paced == IF PrefersBitrate(class) THEN out ELSE Raised(in, out)
      ratio == IF ~PrefersBitrate(class) /\ in.fps < 30 THEN 2 * n ELSE n
      max == Fit(in.bitrate, ratio, d)
      bitrate == IF PrefersQuality(class) THEN max ELSE Least(max, Optimum(Largest))
      spare == class = 2 /\ 2 * bitrate < max
  IN  [paced EXCEPT
         !.bitrate = bitrate,
         !.size = IF PrefersQuality(class) THEN SmallestNecessary(bitrate) ELSE Largest,
         !.fps = IF spare /\ in.fps < 30 THEN 30 ELSE @]

(* downConvert.  For class 0 the bit rate it works out is not the one it   *)
(* sets, which is 0.                                                       *)
DownConvert(class, n, d, in, out) ==
  LET paced == IF PrefersBitrate(class) THEN Lowered(in, out) ELSE Raised(in, out)
      twice == IF PrefersBitrate(class) /\ in.fps > 15 THEN 2 ELSE 1
      ratio == IF ~PrefersBitrate(class) /\ in.fps < 30 THEN 2 * n ELSE n
      bitrate == Fit(in.bitrate, ratio, twice * d)
  IN  CASE class = 0 -> [paced EXCEPT !.bitrate = 0, !.size = in.size]
        [] class = 2 -> [paced EXCEPT !.bitrate = bitrate]
        [] OTHER -> [paced EXCEPT !.bitrate = bitrate, !.size = SmallestNecessary(bitrate)]

MakeDecision(bandwidth, datarate, class, in, out) ==
  IF datarate < bandwidth THEN UpConvert(class, datarate, bandwidth, in, out)
  ELSE DownConvert(class, datarate, bandwidth, in, out)
=============================================================================

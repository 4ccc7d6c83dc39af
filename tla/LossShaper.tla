----------------------------- MODULE LossShaper -----------------------------
(***************************************************************************)
(* The loss decision of the emulator's reader thread                       *)
(* (ReaderThread::isThisPacketToBeDropped): a counter compared with a      *)
(* threshold computed in floating point from the requested loss rate.  The *)
(* GUI changes the rate at any time; the counter survives that, and also   *)
(* Stop and Start, which reset only the statistics.                        *)
(***************************************************************************)
EXTENDS Integers

CONSTANTS
  Rates,      (* loss rates, in percent, the spin box lets the user choose *)
  RoundedUp,  (* rates at which 1/(100.0/rate - 1) is a whole number and   *)
              (* the double computed for it lies just above that number    *)
  IntMax      (* the largest int, packetCount's type                       *)

ASSUME RatesAssumption == Rates \subseteq 0 .. 100
ASSUME RoundedUpAssumption ==
  \A r \in RoundedUp : r \in 51 .. 99 /\ r % (100 - r) = 0
ASSUME IntMaxAssumption == IntMax \in Nat \ {0}

VARIABLES
  lossrate,     (* the rate set by the GUI                                 *)
  packetCount,  (* packets since the counter was last restarted            *)
  verdict,      (* the last decision                                       *)
  excess,       (* history: how far the losses exceed the rate, in         *)
                (* hundredths of a packet, in the worst window ending now   *)
  passes,       (* history: packets passed in a row at this rate           *)
  wrapped       (* history: "yes" while packetCount overflowed and is not   *)
                (* restarted; no window and no row counts meanwhile         *)

vars == <<lossrate, packetCount, verdict, excess, passes, wrapped>>

IntMin == -IntMax - 1

(* Mutant: a counter that does not fit an int.                             *)
IncrementWide(n) == n + 1

(* Mutant: only a counter that is not negative counts on.                  *)
IncrementNonNegative(n) ==
  IF n < 0 THEN n ELSE IF n = IntMax THEN IntMin ELSE n + 1

(* int arithmetic of the build: two's complement.                          *)
Increment(n) == IF n = IntMax THEN IntMin ELSE n + 1

CeilDiv(a, b) == (a + b - 1) \div b

-----------------------------------------------------------------------------
(* Mutant: the run of drops is one longer than the rounded quotient.       *)
DropRunLonger(rate) == CeilDiv(rate, 100 - rate) + 1

(* ceil(1/(100.0/rate - 1)): the drops in a row for a rate above 50.       *)
DropRun(rate) ==
  CeilDiv(rate, 100 - rate) + (IF rate \in RoundedUp THEN 1 ELSE 0)

(* Mutant: the threshold itself still counts as below it.                  *)
BelowThresholdInclusive(rate, count) ==
  IF rate > 50 THEN rate = 100 \/ count < DropRun(rate)
               ELSE count * rate <= 100

(* Mutant: the quotients by zero are cut off at 100.                       *)
BelowThresholdFinite(rate, count) ==
  IF rate > 50 THEN count < (IF rate = 100 THEN 100 ELSE DropRun(rate))
               ELSE count * (IF rate = 0 THEN 1 ELSE rate) < 100

(* packetCount < packetsToSend.  At rate 0 the quotient 100.0/0 is         *)
(* infinite, at rate 100 the quotient 1/0 is.                              *)
BelowThreshold(rate, count) ==
  IF rate > 50 THEN rate = 100 \/ count < DropRun(rate)
               ELSE count * rate < 100

(* Above 50 the short run is the passed packets, up to 50 the dropped ones.*)
Dropped(rate, count) == BelowThreshold(rate, count) <=> rate > 50

Init ==
  /\ lossrate = 0
  /\ packetCount = 0
  /\ verdict = "none"
  /\ excess = 0
  /\ passes = 0
  /\ wrapped = "no"

SetLossRate(r) ==
  /\ lossrate' = r
  /\ excess' = 0
  /\ passes' = 0
  /\ verdict' = "none"
  /\ UNCHANGED <<packetCount, wrapped>>

(* isThisPacketToBeDropped for the next captured packet.                   *)
Decide ==
  LET drop == Dropped(lossrate, packetCount)
      base == IF BelowThreshold(lossrate, packetCount) THEN packetCount ELSE 0
      gain == excess + (IF drop THEN 100 - lossrate ELSE -lossrate)
  IN  /\ packetCount' = Increment(base)
      /\ verdict' = IF drop THEN "drop" ELSE "pass"
      /\ wrapped' = IF base = packetCount /\ (wrapped = "yes" \/ base = IntMax)
                    THEN "yes" ELSE "no"
      /\ excess' = IF wrapped' = "yes" \/ gain < 0 THEN 0 ELSE gain
      (* passes are of no interest at rate 0 *)
      /\ passes' = IF wrapped' = "yes" \/ drop \/ lossrate = 0 THEN 0 ELSE passes + 1
      /\ UNCHANGED lossrate

Next == Decide \/ \E r \in Rates : SetLossRate(r)

Spec == Init /\ [][Next]_vars

FairSpec == Spec /\ WF_vars(Decide)

-----------------------------------------------------------------------------
(* Every variable keeps to its type; packetCount wraps within int.         *)
TypeOK ==
  /\ lossrate \in Rates \cup {0}
  /\ packetCount \in IntMin .. IntMax
  /\ verdict \in {"none", "pass", "drop"}
  /\ excess \in Nat
  /\ passes \in Nat
  /\ wrapped \in {"no", "yes"}

(* In every window of packets at one rate the losses exceed the requested  *)
(* rate by one packet at most, whatever count an earlier rate left behind;  *)
(* only while an overflowed counter climbs back does this not hold.        *)
NeverOverRate == excess <= 100

(* A positive rate does lose packets: up to 50 percent at least one in     *)
(* ceil(100/rate) + 1, above that every second packet or more.             *)
LosesOften ==
  lossrate > 0 => passes <= IF lossrate > 50 THEN 1 ELSE CeilDiv(100, lossrate)

(* Rate 0 loses nothing and rate 100 loses everything, even with a wrapped *)
(* counter; the code has no else after its test for rate 0.                *)
Extremes ==
  /\ lossrate = 0 => verdict # "drop"
  /\ lossrate = 100 => verdict # "pass"

(* A rate that stays set takes effect in the end even after an overflow of *)
(* the counter: packets are lost if it is positive and pass if it is not   *)
(* 100.                                                                    *)
TakesEffect ==
  <>[][UNCHANGED lossrate]_vars =>
    /\ []<>(lossrate > 0 => verdict = "drop")
    /\ []<>(lossrate < 100 => verdict = "pass")
=============================================================================

-------------------------- MODULE LossShaperProofs --------------------------
(***************************************************************************)
(* The loss bound of LossShaper for every set of rates, every rounding of  *)
(* the whole thresholds and every width of the counter.                    *)
(***************************************************************************)
EXTENDS LossShaper, TLAPS

(* Integer division by a positive number.                                  *)
LEMMA DivisionBounds ==
  ASSUME NEW a \in Nat, NEW b \in Nat, b > 0
  PROVE  /\ a \div b \in Nat
         /\ b * (a \div b) <= a
         /\ a < b * (a \div b) + b
OBVIOUS

USE IntMaxAssumption

(* The counter tells how much excess there can be: up to 50 percent it     *)
(* grows while the excess is paid back, above 50 while drops add to it.    *)
Paid ==
  lossrate <= 50 => (excess = 0 \/ excess + lossrate * packetCount <= 100)

Owed ==
  lossrate > 50 =>
    \/ excess = 0
    \/ /\ excess <= packetCount * (100 - lossrate)
       /\ lossrate < 100
       /\ packetCount <= DropRun(lossrate)

IInv ==
  /\ TypeOK
  /\ NeverOverRate
  /\ wrapped = "yes" => excess = 0
  /\ wrapped = "no" => packetCount >= 0
  /\ Paid
  /\ Owed

-----------------------------------------------------------------------------
(* A full run of drops costs at most the packet that follows it is worth:  *)
(* the rounded threshold exceeds rate/(100 - rate) by one at most.         *)
LEMMA DropRunBound ==
  ASSUME NEW r \in 51 .. 99
  PROVE  /\ DropRun(r) \in Nat
         /\ DropRun(r) * (100 - r) <= 100
<1> DEFINE b == 100 - r
<1>1. b \in 1 .. 49 /\ r = 100 - b
  OBVIOUS
<1> DEFINE q == 99 \div b
<1>2. q \in Nat /\ b * q <= 99 /\ 99 < b * q + b
  BY <1>1, DivisionBounds
<1>3. CeilDiv(r, b) = q
  BY <1>1 DEF CeilDiv
<1>4. CASE r \notin RoundedUp
  BY <1>1, <1>2, <1>3, <1>4 DEF DropRun
<1>5. CASE r \in RoundedUp
  <2>1. r % b = 0
    BY <1>5, RoundedUpAssumption
  <2>2. PICK k \in Nat : r = b * k
    BY <1>1, <2>1
  <2>3. b * (k + 1) = 100
    BY <1>1, <2>2
  <2>4. q = k
    BY <1>1, <1>2, <2>3
  <2>5. QED BY <1>1, <1>3, <1>5, <2>3, <2>4 DEF DropRun
<1>6. QED BY <1>4, <1>5

(* The initial state satisfies the inductive invariant.                    *)
LEMMA InitEstablishes == Init => IInv
BY DEF Init, IInv, TypeOK, NeverOverRate, Paid, Owed, IntMin

(* A change of the rate starts a new window.                               *)
LEMMA SetKeeps ==
  ASSUME IInv, NEW r \in Rates, SetLossRate(r)
  PROVE  IInv'
BY RatesAssumption DEF SetLossRate, IInv, TypeOK, NeverOverRate, Paid, Owed

(* A decision at a rate up to 50 percent.                                  *)
LEMMA DecideLow ==
  ASSUME IInv, Decide, lossrate <= 50
  PROVE  IInv'
<1> USE DEF IInv, TypeOK, NeverOverRate, Paid, Owed, IntMin
<1>1. lossrate \in 0 .. 50 /\ lossrate' = lossrate /\ packetCount \in Int /\ excess \in Nat
  BY RatesAssumption DEF Decide
<1>2. CASE BelowThreshold(lossrate, packetCount)
  <2>1. ~Dropped(lossrate, packetCount)
    BY <1>1, <1>2 DEF Dropped
  <2>2. /\ packetCount' = Increment(packetCount)
        /\ wrapped' = IF wrapped = "yes" \/ packetCount = IntMax THEN "yes" ELSE "no"
        /\ excess' = IF wrapped' = "yes" \/ excess + (-lossrate) < 0 THEN 0 ELSE excess + (-lossrate)
        /\ passes' \in Nat /\ verdict' = "pass"
    BY <1>1, <1>2, <2>1 DEF Decide
  <2>3. /\ packetCount' \in IntMin .. IntMax
        /\ wrapped' = "no" => packetCount' = packetCount + 1 /\ packetCount' >= 0
    BY <1>1, <2>2 DEF Increment
  <2>4. lossrate * (packetCount + 1) = lossrate * packetCount + lossrate
    BY <1>1
  <2>5. Paid'
    BY <1>1, <2>2, <2>3, <2>4
  <2>6. QED BY <1>1, <2>2, <2>3, <2>5
<1>3. CASE ~BelowThreshold(lossrate, packetCount)
  <2>1. Dropped(lossrate, packetCount)
    BY <1>1, <1>3 DEF Dropped
  <2>2. packetCount * lossrate >= 100
    BY <1>1, <1>3 DEF BelowThreshold
  <2>3. excess = 0
    BY <1>1, <2>2
  <2>4. /\ packetCount' = 1 /\ excess' \in {0, 100 - lossrate}
        /\ passes' = 0 /\ verdict' = "drop" /\ wrapped' \in {"no", "yes"}
        /\ wrapped' = "yes" => excess' = 0
    BY <1>1, <1>3, <2>1, <2>3 DEF Decide, Increment
  <2>5. lossrate' * packetCount' = lossrate
    BY <1>1, <2>4
  <2>6. excess' \in 0 .. 100 /\ 1 \in IntMin .. IntMax
    BY <1>1, <2>4
  <2>7. TypeOK'
    BY <1>1, <2>4, <2>6
  <2>8. Paid'
    <3>1. CASE excess' = 0
      BY <3>1
    <3>2. CASE excess' = 100 - lossrate
      <4>1. excess' + lossrate' * packetCount' = 100
        BY <1>1, <2>5, <3>2
      <4>2. QED BY <4>1
    <3>3. QED BY <2>4, <3>1, <3>2
  <2>9. Owed' /\ NeverOverRate'
    BY <1>1, <2>6
  <2>10. QED BY <2>4, <2>7, <2>8, <2>9
<1>4. QED BY <1>2, <1>3

(* A decision at a rate above 50 percent.                                  *)
LEMMA DecideHigh ==
  ASSUME IInv, Decide, lossrate > 50
  PROVE  IInv'
<1> USE DEF IInv, TypeOK, NeverOverRate, Paid, Owed, IntMin
<1>1. lossrate \in 51 .. 100 /\ lossrate' = lossrate /\ packetCount \in Int /\ excess \in Nat
  BY RatesAssumption DEF Decide
<1>2. CASE BelowThreshold(lossrate, packetCount)
  <2>1. Dropped(lossrate, packetCount)
    BY <1>1, <1>2 DEF Dropped
  <2>2. /\ packetCount' = Increment(packetCount)
        /\ wrapped' = IF wrapped = "yes" \/ packetCount = IntMax THEN "yes" ELSE "no"
        /\ excess' = IF wrapped' = "yes" \/ excess + (100 - lossrate) < 0 THEN 0 ELSE excess + (100 - lossrate)
        /\ passes' = 0 /\ verdict' = "drop"
    BY <1>1, <1>2, <2>1 DEF Decide
  <2>3. /\ packetCount' \in IntMin .. IntMax
        /\ wrapped' = "no" => packetCount' = packetCount + 1 /\ packetCount' >= 0
    BY <1>1, <2>2 DEF Increment
  <2>4. CASE lossrate = 100
    BY <1>1, <2>2, <2>3, <2>4
  <2>5. CASE lossrate < 100
    <3>1. lossrate \in 51 .. 99
      BY <1>1, <2>5
    <3>2. DropRun(lossrate) \in Nat /\ DropRun(lossrate) * (100 - lossrate) <= 100
      BY <3>1, DropRunBound
    <3>3. packetCount + 1 <= DropRun(lossrate)
      BY <1>1, <1>2, <2>5, <3>2 DEF BelowThreshold
    <3>4. (packetCount + 1) * (100 - lossrate) = packetCount * (100 - lossrate) + (100 - lossrate)
      BY <1>1
    <3>5. (packetCount + 1) * (100 - lossrate) <= DropRun(lossrate) * (100 - lossrate)
      BY <1>1, <3>1, <3>2, <3>3
    <3>6. wrapped' = "no" => excess' <= packetCount' * (100 - lossrate) /\ excess' <= 100
      <4>1. SUFFICES ASSUME wrapped' = "no"
                     PROVE  excess' <= packetCount' * (100 - lossrate) /\ excess' <= 100
        OBVIOUS
      <4>2. packetCount >= 0 /\ excess <= packetCount * (100 - lossrate)
        <5>1. packetCount >= 0
          BY <2>2, <4>1
        <5>2. packetCount * (100 - lossrate) >= 0
          BY <1>1, <5>1
        <5>3. QED BY <1>1, <5>1, <5>2
      <4>3. packetCount' = packetCount + 1 /\ excess' = excess + (100 - lossrate)
        BY <1>1, <2>2, <2>3, <4>1
      <4>4. QED BY <1>1, <3>2, <3>4, <3>5, <4>2, <4>3
    <3>7. Owed'
      BY <1>1, <2>2, <2>3, <2>5, <3>3, <3>6
    <3>8. QED BY <1>1, <2>2, <2>3, <3>6, <3>7
  <2>6. QED BY <1>1, <2>4, <2>5
<1>3. CASE ~BelowThreshold(lossrate, packetCount)
  <2>1. ~Dropped(lossrate, packetCount) /\ lossrate < 100 /\ packetCount >= DropRun(lossrate)
    <3>1. lossrate # 100 /\ ~(packetCount < DropRun(lossrate))
      BY <1>1, <1>3 DEF BelowThreshold
    <3>2. lossrate \in 51 .. 99
      BY <1>1, <3>1
    <3>3. QED BY <1>1, <1>3, <3>1, <3>2, DropRunBound DEF Dropped
  <2>2. DropRun(lossrate) \in Nat
    BY <1>1, <2>1, DropRunBound
  <2>3. DropRun(lossrate) >= 1
    <3>1. 100 - lossrate \in 1 .. 49 /\ lossrate \in 51 .. 99
      BY <1>1, <2>1
    <3>2. CeilDiv(lossrate, 100 - lossrate) \in Nat /\ CeilDiv(lossrate, 100 - lossrate) >= 1
      <4> DEFINE b == 100 - lossrate
      <4>1. b \in Nat /\ b > 0 /\ lossrate + b - 1 = 99
        BY <3>1
      <4>2. 99 \div b \in Nat /\ 99 < b * (99 \div b) + b
        BY <4>1, DivisionBounds
      <4>3. 99 \div b # 0
        BY <3>1, <4>1, <4>2
      <4>4. QED BY <4>1, <4>2, <4>3 DEF CeilDiv
    <3>3. QED BY <3>1, <3>2 DEF DropRun
  <2>4. /\ packetCount' = 1 /\ passes' \in Nat /\ verdict' = "pass" /\ wrapped' \in {"no", "yes"}
        /\ wrapped' = "yes" => excess' = 0
        /\ excess' = 0 \/ excess' = excess - lossrate
        /\ excess' \in Nat
    BY <1>1, <1>3, <2>1 DEF Decide, Increment
  <2>5. excess' <= 100 - lossrate
    BY <1>1, <2>4
  <2>6. packetCount' * (100 - lossrate') = 100 - lossrate
    BY <1>1, <2>4
  <2>7. 1 \in IntMin .. IntMax /\ DropRun(lossrate') >= packetCount' /\ lossrate' < 100
    BY <1>1, <2>1, <2>3, <2>4
  <2>8. TypeOK'
    BY <1>1, <2>4, <2>7
  <2>9. Paid'
    BY <1>1
  <2>10. Owed' /\ NeverOverRate'
    BY <1>1, <2>4, <2>5, <2>6, <2>7
  <2>11. QED BY <2>4, <2>8, <2>9, <2>10
<1>4. QED BY <1>2, <1>3

(* The inductive invariant holds in every reachable state.                 *)
THEOREM Inductive == Spec => []IInv
<1>1. IInv /\ [Next]_vars => IInv'
  <2> SUFFICES ASSUME IInv, [Next]_vars PROVE IInv'
    OBVIOUS
  <2>1. CASE Decide
    <3>1. lossrate \in Int
      BY RatesAssumption DEF IInv, TypeOK
    <3>2. QED BY <2>1, <3>1, DecideLow, DecideHigh
  <2>2. CASE \E r \in Rates : SetLossRate(r)
    BY <2>2, SetKeeps
  <2>3. CASE UNCHANGED vars
    BY <2>3 DEF vars, IInv, TypeOK, NeverOverRate, Paid, Owed
  <2>4. QED BY <2>1, <2>2, <2>3 DEF Next
<1>2. QED BY InitEstablishes, <1>1, PTL DEF Spec

(* Whatever the rates, the roundings and the width of int: in no window of *)
(* packets at one rate do the losses exceed the rate by more than a packet.*)
THEOREM LossBounded == Spec => []NeverOverRate
<1>1. IInv => NeverOverRate
  BY DEF IInv
<1>2. QED BY Inductive, <1>1, PTL

(* Every variable of the loss decision keeps to its type.                  *)
THEOREM TypeCorrect == Spec => []TypeOK
<1>1. IInv => TypeOK
  BY DEF IInv
<1>2. QED BY Inductive, <1>1, PTL
-----------------------------------------------------------------------------
(* The other half: how many packets can pass in a row.  Up to 50 percent   *)
(* they are counted, and the last of them was below the threshold; above,  *)
(* a packet that passes restarts the counter, and the next one is lost.    *)
PassesCounted ==
  lossrate <= 50 =>
    \/ passes = 0
    \/ /\ lossrate > 0
       /\ passes <= packetCount
       /\ (packetCount - 1) * lossrate < 100

PassesAlone ==
  lossrate > 50 => passes = 0 \/ (passes = 1 /\ packetCount = 1)

RowInv == PassesCounted /\ PassesAlone /\ Extremes

(* Above 50 percent at least two packets in a row are lost.                *)
LEMMA DropRunAtLeastTwo ==
  ASSUME NEW r \in 51 .. 99
  PROVE  DropRun(r) \in Nat /\ DropRun(r) >= 2
<1> DEFINE b == 100 - r
           q == 99 \div b
<1>1. b \in 1 .. 49 /\ r + b - 1 = 99
  OBVIOUS
<1>2. q \in Nat /\ 99 < b * q + b
  BY <1>1, DivisionBounds
<1>3. q # 0 /\ q # 1
  BY <1>1, <1>2
<1>4. CeilDiv(r, b) = q /\ q >= 2
  BY <1>1, <1>2, <1>3 DEF CeilDiv
<1>5. QED BY <1>4, <1>2 DEF DropRun

(* A decision keeps to the row of passed packets.                          *)
LEMMA DecideKeepsRow ==
  ASSUME IInv, RowInv, Decide
  PROVE  RowInv'
<1> USE DEF RowInv, PassesCounted, PassesAlone, Extremes
<1>1. /\ lossrate \in 0 .. 100 /\ lossrate' = lossrate
      /\ packetCount \in Int /\ passes \in Nat /\ wrapped \in {"no", "yes"}
  BY RatesAssumption DEF Decide, IInv, TypeOK, IntMin
<1>2. CASE Dropped(lossrate, packetCount)
  <2>1. passes' = 0 /\ verdict' = "drop"
    BY <1>2 DEF Decide
  <2>2. lossrate # 0
    BY <1>1, <1>2 DEF Dropped, BelowThreshold
  <2>3. QED BY <1>1, <2>1, <2>2
<1>3. CASE ~Dropped(lossrate, packetCount)
  <2>1. verdict' = "pass" /\ lossrate # 100
    BY <1>1, <1>3 DEF Decide, Dropped, BelowThreshold
  <2>2. Extremes'
    BY <1>1, <2>1
  <2>3. CASE lossrate <= 50
    <3>1. packetCount * lossrate < 100 /\ BelowThreshold(lossrate, packetCount)
      BY <1>1, <1>3, <2>3 DEF Dropped, BelowThreshold
    <3>2. /\ packetCount' = Increment(packetCount)
          /\ wrapped' = IF wrapped = "yes" \/ packetCount = IntMax THEN "yes" ELSE "no"
          /\ passes' = IF wrapped' = "yes" \/ lossrate = 0 THEN 0 ELSE passes + 1
      BY <1>1, <1>3, <3>1 DEF Decide
    <3>3. CASE passes' = 0
      BY <1>1, <2>2, <2>3, <3>3
    <3>4. CASE passes' # 0
      <4>1. wrapped' = "no" /\ wrapped = "no" /\ lossrate > 0 /\ passes' = passes + 1
        BY <1>1, <3>2, <3>4
      <4>2. packetCount' = packetCount + 1 /\ packetCount >= 0
        BY <3>2, <4>1 DEF Increment, IInv
      <4>3. passes <= packetCount
        BY <1>1, <2>3, <4>2
      <4>4. packetCount' - 1 = packetCount
        BY <1>1, <4>2
      <4>5. QED BY <1>1, <2>2, <2>3, <3>1, <4>1, <4>2, <4>3, <4>4
    <3>5. QED BY <3>3, <3>4
  <2>4. CASE lossrate > 50
    <3>1. ~BelowThreshold(lossrate, packetCount)
      BY <1>1, <1>3, <2>4 DEF Dropped
    <3>2. lossrate \in 51 .. 99 /\ ~(packetCount < DropRun(lossrate))
      BY <1>1, <2>1, <2>4, <3>1 DEF BelowThreshold
    <3>3. packetCount >= 2
      BY <1>1, <3>2, DropRunAtLeastTwo
    <3>4. passes = 0
      BY <1>1, <2>4, <3>3
    <3>5. packetCount' = 1 /\ passes' \in {0, 1}
      BY <1>1, <1>3, <3>1, <3>4 DEF Decide, Increment
    <3>6. QED BY <1>1, <2>2, <2>4, <3>5
  <2>5. QED BY <1>1, <2>3, <2>4
<1>4. QED BY <1>2, <1>3

(* The row invariant holds in every reachable state.                       *)
THEOREM RowInductive == Spec => []RowInv
<1> USE DEF RowInv, PassesCounted, PassesAlone, Extremes
<1>1. Init => RowInv
  BY DEF Init
<1>2. IInv /\ RowInv /\ [Next]_vars => RowInv'
  <2> SUFFICES ASSUME IInv, RowInv, [Next]_vars PROVE RowInv'
    OBVIOUS
  <2>1. CASE Decide
    BY <2>1, DecideKeepsRow
  <2>2. CASE \E r \in Rates : SetLossRate(r)
    BY <2>2 DEF SetLossRate
  <2>3. CASE UNCHANGED vars
    BY <2>3 DEF vars
  <2>4. QED BY <2>1, <2>2, <2>3 DEF Next
<1>3. QED BY Inductive, <1>1, <1>2, PTL DEF Spec

(* Rate 0 never loses a packet and rate 100 never passes one, whatever the *)
(* counter holds, an overflowed count among them.                          *)
THEOREM ExtremesExact == Spec => []Extremes
<1>1. RowInv => Extremes
  BY DEF RowInv
<1>2. QED BY RowInductive, <1>1, PTL

(* A row of passed packets ends: at a rate up to 50 percent one packet in  *)
(* ceil(100/rate) + 1 is lost, above that every second one or more.        *)
THEOREM LossesHappen == Spec => []LosesOften
<1>1. IInv /\ RowInv => LosesOften
  <2> SUFFICES ASSUME IInv, RowInv, lossrate > 0, lossrate <= 50, passes # 0
               PROVE  passes <= CeilDiv(100, lossrate)
    BY RatesAssumption DEF IInv, TypeOK, RowInv, PassesAlone, LosesOften, CeilDiv
  <2>1. lossrate \in 1 .. 50 /\ packetCount \in Int /\ passes \in Nat
    BY RatesAssumption DEF IInv, TypeOK, IntMin
  <2>2. passes <= packetCount /\ (packetCount - 1) * lossrate < 100
    BY <2>1 DEF RowInv, PassesCounted
  <2> DEFINE q == (100 + lossrate - 1) \div lossrate
  <2>3. q \in Nat /\ 100 + lossrate - 1 < lossrate * q + lossrate
    BY <2>1, DivisionBounds
  <2>4. lossrate * q >= 100
    <3> HIDE DEF q
    <3>1. lossrate * q \in Int
      BY <2>1, <2>3
    <3>2. QED BY <2>1, <2>3, <3>1
  <2>5. packetCount - 1 < q
    <3> HIDE DEF q
    <3> SUFFICES ASSUME packetCount - 1 >= q PROVE FALSE
      BY <2>1, <2>3
    <3>1. (packetCount - 1) * lossrate >= q * lossrate
      BY <2>1, <2>3
    <3>2. QED BY <2>1, <2>2, <2>3, <2>4, <3>1
  <2>6. passes <= q
    <3> HIDE DEF q
    <3>1. QED BY <2>1, <2>2, <2>3, <2>5
  <2>7. QED BY <2>6 DEF CeilDiv
<1>2. QED BY Inductive, RowInductive, <1>1, PTL
=============================================================================

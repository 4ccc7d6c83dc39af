------------------------- MODULE RateLimiterProofs -------------------------
(***************************************************************************)
(* What the bandwidth limit guarantees in real time for every set of       *)
(* limits and packet sizes, every resolution of the clock, every range of  *)
(* the timer's int and any length of the run.                              *)
(***************************************************************************)
EXTENDS RateLimiter, FiniteSetTheorems, WellFoundedInduction, TLAPS

(* What a window carries at most: the last packet may exceed the limit.    *)
Full == MostLimit + MostBits - 1

(* A window has begun at a time the timer showed, or after its overflow;   *)
(* it restarts only once a second is over.                                 *)
Window ==
  /\ bandConsumed <= Full
  /\ pc = "remove" => bandConsumed < limit
  /\ early = IntMin \/ early \in 0 .. clock
  /\ early = IntMin => clock > IntMax
  /\ pc = "restart" => early # IntMin /\ clock - early >= Second

(* All that was sent since the window began is counted, and what was sent  *)
(* before, in a second that began in the last window, is one window more.  *)
Rate ==
  \A k \in 1 .. Second :
    /\ recent[k] <= bandConsumed + Full
    /\ early # IntMin /\ k <= clock - early => recent[k] <= bandConsumed

(* Under a limit of 0 a packet is sent only when a second has passed since *)
(* the last one, or since the limit was set.                               *)
Trickle ==
  /\ zeroFor > 0 => bandWidthLimit = 0
  /\ \A k \in 1 .. Second : k <= zeroFor =>
       /\ recent[k] <= MostBits
       /\ pc \in {"copy", "window", "restart", "remove"} => recent[k] = 0
  /\ pc = "sleep" =>
       /\ wakeAt - Second <= clock
       /\ \A k \in 1 .. Second : k <= clock - (wakeAt - Second) => recent[k] = 0

(* Every tick but those asleep or waiting for a packet sees the loop look  *)
(* at the timer: once a second is over the next tick restarts the window.  *)
Renewal ==
  clock <= IntMax =>
    /\ starved <= Second + 1
    /\ starved > Second => pc = "restart" /\ ~iterated
    /\ iterated /\ pc # "restart" => starved < Second
    /\ starved <= clock - early
    /\ pc = "remove" /\ ~iterated => starved = 0
    /\ pc = "sleep" /\ clock > wakeAt - Second => starved = 0

(* After the overflow the window that was open may end, and the next one   *)
(* does not.                                                               *)
Overflow ==
  /\ clock <= IntMax => late = 0
  /\ early # IntMin => late <= bandConsumed
  /\ late <= bandConsumed + Full

IInv == TypeOK /\ Window /\ Rate /\ Trickle /\ Renewal /\ Overflow

-----------------------------------------------------------------------------
(* A finite set of naturals that is not empty has a greatest element.      *)
LEMMA MaxOfFinite ==
  ASSUME NEW S, S \subseteq Nat, S # {}, IsFiniteSet(S)
  PROVE  Max(S) \in S /\ \A x \in S : x <= Max(S)
<1>1. PICK n \in Nat : ExistsSurjection(1 .. n, S)
  BY FS_NatSurjection
<1>2. PICK f \in [1 .. n -> S] : \A x \in S : \E i \in 1 .. n : f[i] = x
  BY <1>1 DEF ExistsSurjection, Surjection
<1>3. \A i \in 1 .. n : f[i] \in S /\ f[i] \in Nat
  BY <1>2
<1> DEFINE Bound(b, m) == \A i \in 1 .. m : f[i] <= b
           Unbounded == {m \in 0 .. n : \A b \in Nat : ~Bound(b, m)}
           Bounds == {b \in Nat : Bound(b, n)}
<1> HIDE DEF Bound, Unbounded, Bounds
<1>4. Unbounded = {}
  <2> SUFFICES ASSUME Unbounded # {} PROVE FALSE
    OBVIOUS
  <2>1. PICK m \in Unbounded : \A p \in Unbounded : ~(<<p, m>> \in OpToRel(<, Nat))
    <3>1. Unbounded \subseteq Nat
      BY DEF Unbounded
    <3> QED BY <3>1, WFMin, NatLessThanWellFounded
  <2>2. m \in 0 .. n /\ \A c \in Nat : ~Bound(c, m)
    BY DEF Unbounded
  <2>3. m # 0
    <3>1. Bound(0, 0)
      BY DEF Bound
    <3> QED BY <2>2, <3>1
  <2>4. m \in 1 .. n /\ m - 1 \in 0 .. n /\ m \in Nat /\ m - 1 \in Nat
    BY <2>2, <2>3
  <2>5. PICK c \in Nat : Bound(c, m - 1)
    <3>1. <<m - 1, m>> \in OpToRel(<, Nat)
      <4>1. m - 1 < m
        BY <2>4
      <4> QED BY <2>4, <4>1 DEF OpToRel
    <3>2. m - 1 \notin Unbounded
      BY <2>1, <3>1
    <3> QED BY <2>4, <3>2 DEF Unbounded
  <2>6. f[m] \in Nat
    BY <1>3, <2>4
  <2>7. ASSUME NEW i \in 1 .. m PROVE f[i] <= c + f[m]
    <3>1. CASE i = m
      BY <2>6, <3>1
    <3>2. CASE i # m
      <4>1. i \in 1 .. m - 1 /\ i \in 1 .. n
        BY <2>4, <3>2
      <4>2. f[i] <= c /\ f[i] \in Nat
        BY <1>3, <2>5, <4>1 DEF Bound
      <4> QED BY <2>6, <4>2
    <3> QED BY <3>1, <3>2
  <2>8. c + f[m] \in Nat /\ Bound(c + f[m], m)
    BY <2>6, <2>7 DEF Bound
  <2> QED BY <2>2, <2>8
<1>5. PICK b \in Bounds : \A c \in Bounds : ~(<<c, b>> \in OpToRel(<, Nat))
  <2>1. n \in 0 .. n
    OBVIOUS
  <2>2. \E c \in Nat : Bound(c, n)
    BY <1>4, <2>1 DEF Unbounded
  <2>3. Bounds # {} /\ Bounds \subseteq Nat
    BY <2>2 DEF Bounds
  <2> QED BY <2>3, WFMin, NatLessThanWellFounded
<1>6. b \in Nat /\ \A i \in 1 .. n : f[i] <= b
  BY DEF Bounds, Bound
<1>7. \A x \in S : x <= b
  BY <1>2, <1>6
<1>8. b \in S
  <2> SUFFICES ASSUME b \notin S PROVE FALSE
    OBVIOUS
  <2>1. PICK x \in S : TRUE
    OBVIOUS
  <2>2. x \in Nat /\ x <= b /\ x # b
    BY <1>7, <2>1
  <2>3. b - 1 \in Nat
    BY <1>6, <2>2
  <2>4. ASSUME NEW i \in 1 .. n PROVE f[i] <= b - 1
    BY <1>3, <1>6, <2>4
  <2>5. b - 1 \in Bounds
    BY <2>3, <2>4 DEF Bounds, Bound
  <2>6. <<b - 1, b>> \in OpToRel(<, Nat)
    BY <1>6, <2>3 DEF OpToRel
  <2> QED BY <1>5, <2>5, <2>6
<1>9. \E x \in S : \A y \in S : x >= y
  BY <1>6, <1>7, <1>8
<1>10. Max(S) \in S /\ \A y \in S : Max(S) >= y
  BY <1>9 DEF Max
<1>11. \A y \in S : y \in Nat
  OBVIOUS
<1> QED BY <1>10, <1>11

(* The largest limit and the largest packet.                               *)
LEMMA Largest ==
  /\ MostLimit \in Limits /\ MostLimit \in Nat /\ \A b \in Limits : b \in Nat /\ b <= MostLimit
  /\ MostBits \in PacketBits /\ MostBits \in Nat \ {0}
  /\ \A b \in PacketBits : b \in Nat \ {0} /\ b <= MostBits
  /\ Full \in Nat
<1>1. MostLimit \in Limits /\ \A b \in Limits : b <= MostLimit
  BY LimitsAssumption, MaxOfFinite DEF MostLimit
<1>2. MostBits \in PacketBits /\ \A b \in PacketBits : b <= MostBits
  <2>1. PacketBits \subseteq Nat
    BY PacketBitsAssumption
  <2> QED BY <2>1, PacketBitsAssumption, MaxOfFinite DEF MostBits
<1> QED BY <1>1, <1>2, LimitsAssumption, PacketBitsAssumption DEF Full

-----------------------------------------------------------------------------
(* Remainders of one width.                                                *)
LEMMA Wrap ==
  ASSUME NEW a \in Int, NEW w \in Nat \ {0}, a \in -w .. w - 1
  PROVE  a % w = IF a >= 0 THEN a ELSE a + w
<1> DEFINE q == a \div w
           r == a % w
<1>1. q \in Int /\ r \in 0 .. w - 1 /\ a = w * q + r
  BY Z3
<1> HIDE DEF q, r
<1>2. q \in {-1, 0}
  <2>1. w * q > -2 * w /\ w * q < w
    BY <1>1, SMT
  <2>2. q > -2 /\ q < 1
    BY <1>1, <2>1, SMT
  <2> QED BY <1>1, <2>2
<1>3. r = IF a >= 0 THEN a ELSE a + w
  BY <1>1, <1>2, SMT
<1> QED BY <1>3 DEF r

(* What the window test sees.  While the int lasts it is the time since    *)
(* the window began; afterwards the test fails only for a window that      *)
(* began before, and is over.                                              *)
LEMMA WindowTest ==
  ASSUME TypeOK, Window
  PROVE  /\ clock <= IntMax => (WindowOpen <=> clock - early < Second)
         /\ ~WindowOpen => early # IntMin /\ clock - early >= Second
<1> DEFINE now == GetMicrosecondsElapsed(clock)
           a == now - early - IntMin
           w == 2 * (IntMax + 1)
<1>1. /\ clock \in Nat /\ early \in Int /\ early >= IntMin /\ early <= IntMax
      /\ IntMax \in Nat /\ IntMin = -IntMax - 1 /\ Second \in Nat /\ Second > 0
      /\ w \in Nat \ {0} /\ now \in Int
  BY TimeAssumption DEF TypeOK, IntMin, GetMicrosecondsElapsed
<1>2. a \in Int /\ a \in -w .. w - 1
  BY <1>1 DEF Window, GetMicrosecondsElapsed
<1>3. IntMinus(now, early) = (IF a >= 0 THEN a ELSE a + w) + IntMin
  BY <1>1, <1>2, Wrap DEF IntMinus
<1>4. CASE clock <= IntMax
  <2>1. IntMinus(now, early) = clock - early /\ early # IntMin
    BY <1>1, <1>3, <1>4 DEF Window, GetMicrosecondsElapsed
  <2> QED BY <1>1, <1>4, <2>1 DEF WindowOpen
<1>5. CASE clock > IntMax
  <2>1. now = IntMin /\ a = -early
    BY <1>1, <1>5 DEF GetMicrosecondsElapsed
  <2>2. CASE early = IntMin
    BY <1>1, <1>3, <1>5, <2>1, <2>2 DEF WindowOpen
  <2>3. CASE early = 0
    BY <1>1, <1>3, <1>5, <2>1, <2>3 DEF WindowOpen
  <2>4. CASE early > 0
    <3>1. IntMinus(now, early) = IntMax + 1 - early
      BY <1>1, <1>3, <2>1, <2>4
    <3> QED BY <1>1, <1>5, <2>4, <3>1 DEF WindowOpen
  <2> QED BY <1>1, <2>2, <2>3, <2>4 DEF Window
<1> QED BY <1>1, <1>4, <1>5

-----------------------------------------------------------------------------
(* The invariant is what the run checks.                                   *)
LEMMA IInvImplies ==
  IInv => AnySecond /\ ZeroTrickles /\ Renewed /\ OverflowStalls
<1> SUFFICES ASSUME IInv PROVE AnySecond /\ ZeroTrickles /\ Renewed /\ OverflowStalls
  OBVIOUS
<1>1. /\ Second \in 1 .. Second /\ Second \in Nat /\ Full \in Nat
      /\ bandConsumed \in Nat /\ bandConsumed <= Full /\ late \in Nat /\ zeroFor \in Nat
  BY TimeAssumption, Largest DEF IInv, TypeOK, Window
<1>2. recent[Second] \in Nat /\ recent[Second] <= bandConsumed + Full
  BY <1>1 DEF IInv, TypeOK, Rate
<1>3. AnySecond /\ OverflowStalls
  BY <1>1, <1>2, Largest DEF IInv, Overflow, AnySecond, OverflowStalls, Full
<1>4. ZeroTrickles
  BY <1>1 DEF IInv, Trickle, ZeroTrickles
<1>5. Renewed
  BY DEF IInv, Renewal, Renewed
<1> QED BY <1>3, <1>4, <1>5

(* A run starts with an empty window.                                      *)
LEMMA LimiterInit ==
  Init => IInv
<1> SUFFICES ASSUME Init PROVE IInv
  OBVIOUS
<1>1. TypeOK
  BY LimitsAssumption, TimeAssumption, Largest DEF Init, TypeOK, IntMin
<1>2. Window /\ Overflow
  BY TimeAssumption, Largest DEF Init, Window, Overflow, IntMin
<1>3. Rate /\ Trickle
  BY TimeAssumption, Largest DEF Init, Rate, Trickle
<1>4. Renewal
  BY TimeAssumption DEF Init, Renewal
<1> QED BY <1>1, <1>2, <1>3, <1>4 DEF IInv

-----------------------------------------------------------------------------
(* The steps.  What each does to the counts is stated first; the parts of  *)
(* the invariant follow one by one.                                        *)
LEMMA TypeStep ==
  ASSUME IInv, Next
  PROVE  TypeOK'
<1> USE TimeAssumption DEF TypeOK
<1>1. CASE LoopTop \/ CopyLimit \/ EndSleep \/ CheckWindow
  <2>1. wakeAt' \in 0 .. MaxClock + Second /\ limit' \in Limits
    BY <1>1 DEF IInv, LoopTop, CopyLimit, EndSleep, CheckWindow
  <2>4. iterated' \in BOOLEAN
    BY <1>1 DEF IInv, LoopTop, CopyLimit, EndSleep, CheckWindow
  <2>2. pc' \in {"top", "copy", "sleep", "window", "restart", "remove"}
    BY <1>1 DEF LoopTop, CopyLimit, EndSleep, CheckWindow
  <2>3. UNCHANGED <<clock, bandWidthLimit, early, bandConsumed, recent, zeroFor, starved, late>>
    BY <1>1 DEF LoopTop, CopyLimit, EndSleep, CheckWindow
  <2> QED BY <2>1, <2>2, <2>3, <2>4 DEF IInv
<1>2. CASE RestartWindow
  <2>1. early' \in IntMin .. IntMax /\ bandConsumed' \in 0 .. MostLimit + MostBits
    BY <1>2, Largest DEF IInv, RestartWindow, GetMicrosecondsElapsed, IntMin
  <2> QED BY <1>2, <2>1 DEF IInv, RestartWindow
<1>3. ASSUME NEW bits \in PacketBits, SendPacket(bits) PROVE TypeOK'
  <2>1. bits \in Nat /\ bits <= MostBits /\ MostBits \in Nat /\ MostLimit \in Nat
    BY Largest
  <2>2. bandConsumed < limit /\ limit \in Nat /\ limit <= MostLimit
    BY <1>3, Largest DEF IInv, Window, SendPacket
  <2>3. bandConsumed' \in 0 .. MostLimit + MostBits
    BY <1>3, <2>1, <2>2 DEF IInv, SendPacket
  <2>4. recent' \in [1 .. Second -> Nat] /\ late' \in Nat
    BY <1>3, <2>1 DEF IInv, SendPacket
  <2> QED BY <1>3, <2>3, <2>4 DEF IInv, SendPacket
<1>4. ASSUME NEW b \in Limits, SetBandwidthLimit(b) PROVE TypeOK'
  BY <1>4 DEF IInv, SetBandwidthLimit
<1>5. CASE Tick
  <2>1. recent' \in [1 .. Second -> Nat]
    BY <1>5 DEF IInv, Tick
  <2>2. zeroFor' \in 0 .. Second + 1 /\ starved' \in 0 .. 2 * Second + 2
    BY <1>5 DEF IInv, Tick, Capped
  <2>3. clock' \in 0 .. MaxClock
    BY <1>5 DEF IInv, Tick
  <2>5. iterated' \in BOOLEAN
    BY <1>5 DEF Tick
  <2>4. UNCHANGED <<bandWidthLimit, limit, early, bandConsumed, pc, wakeAt, late>>
    BY <1>5 DEF Tick
  <2> QED BY <2>1, <2>2, <2>3, <2>4, <2>5 DEF IInv
<1> QED BY <1>1, <1>2, <1>3, <1>4, <1>5 DEF Next, Loop

(* The window test admits a packet below the limit only.                   *)
LEMMA WindowStep ==
  ASSUME IInv, Next
  PROVE  Window'
<1> USE TimeAssumption DEF Window
<1>1. CASE LoopTop \/ CopyLimit \/ EndSleep
  BY <1>1 DEF IInv, LoopTop, CopyLimit, EndSleep
<1>2. CASE CheckWindow
  BY <1>2, WindowTest DEF IInv, CheckWindow
<1>3. CASE RestartWindow
  BY <1>3, Largest DEF IInv, TypeOK, RestartWindow, GetMicrosecondsElapsed, IntMin
<1>4. ASSUME NEW bits \in PacketBits, SendPacket(bits) PROVE Window'
  <2>1. bits \in Nat /\ bits <= MostBits /\ MostBits \in Nat /\ MostLimit \in Nat
    BY Largest
  <2>2. bandConsumed \in Nat /\ bandConsumed < limit /\ limit \in Nat /\ limit <= MostLimit
    BY <1>4, Largest DEF IInv, TypeOK, SendPacket
  <2>3. bandConsumed' <= Full
    BY <1>4, <2>1, <2>2 DEF SendPacket, Full
  <2> QED BY <1>4, <2>3 DEF IInv, SendPacket
<1>5. ASSUME NEW b \in Limits, SetBandwidthLimit(b) PROVE Window'
  BY <1>5 DEF IInv, SetBandwidthLimit
<1>6. CASE Tick
  BY <1>6 DEF IInv, TypeOK, Tick
<1> QED BY <1>1, <1>2, <1>3, <1>4, <1>5, <1>6 DEF Next, Loop

(* A packet is counted in its window, and a window is a second at least.   *)
LEMMA RateStep ==
  ASSUME IInv, Next
  PROVE  Rate'
<1> SUFFICES ASSUME NEW k \in 1 .. Second
             PROVE  /\ recent'[k] <= bandConsumed' + Full
                    /\ early' # IntMin /\ k <= clock' - early' => recent'[k] <= bandConsumed'
  BY DEF Rate
<1>1. /\ Second \in Nat /\ k \in Nat /\ 1 <= k /\ k <= Second /\ Full \in Nat
      /\ clock \in Nat /\ early \in Int /\ bandConsumed \in Nat /\ recent[k] \in Nat
  BY TimeAssumption, Largest DEF IInv, TypeOK
<1>2. /\ recent[k] <= bandConsumed + Full
      /\ early # IntMin /\ k <= clock - early => recent[k] <= bandConsumed
  BY DEF IInv, Rate
<1>3. CASE LoopTop \/ CopyLimit \/ EndSleep \/ CheckWindow \/ \E b \in Limits : SetBandwidthLimit(b)
  BY <1>2, <1>3 DEF LoopTop, CopyLimit, EndSleep, CheckWindow, SetBandwidthLimit
<1>4. CASE RestartWindow
  <2>1. recent[k] <= bandConsumed /\ bandConsumed <= Full
    BY <1>1, <1>2, <1>4 DEF IInv, Window, RestartWindow
  <2>2. early' # IntMin => early' = clock
    BY <1>4 DEF RestartWindow, GetMicrosecondsElapsed
  <2> QED BY <1>1, <1>4, <2>1, <2>2 DEF RestartWindow
<1>5. ASSUME NEW bits \in PacketBits, SendPacket(bits)
      PROVE  /\ recent'[k] <= bandConsumed' + Full
             /\ early' # IntMin /\ k <= clock' - early' => recent'[k] <= bandConsumed'
  <2>1. bits \in Nat
    BY Largest
  <2> QED BY <1>1, <1>2, <1>5, <2>1 DEF SendPacket
<1>6. CASE Tick
  <2>1. /\ recent'[k] = IF k = 1 THEN 0 ELSE recent[k - 1]
        /\ clock' = clock + 1 /\ UNCHANGED <<early, bandConsumed>>
    BY <1>6 DEF Tick
  <2>2. CASE k = 1
    BY <1>1, <2>1, <2>2
  <2>3. CASE k # 1
    <3>1. k - 1 \in 1 .. Second
      BY <1>1, <2>3
    <3>2. /\ recent[k - 1] <= bandConsumed + Full
          /\ early # IntMin /\ k - 1 <= clock - early => recent[k - 1] <= bandConsumed
      BY <3>1 DEF IInv, Rate
    <3> QED BY <1>1, <2>1, <2>3, <3>2
  <2> QED BY <2>2, <2>3
<1> QED BY <1>3, <1>4, <1>5, <1>6 DEF Next, Loop

(* A limit of 0 sleeps a second after each packet.                         *)
LEMMA TrickleStep ==
  ASSUME IInv, Next
  PROVE  Trickle'
<1> USE TimeAssumption
<1>1. CASE LoopTop
  BY <1>1 DEF IInv, TypeOK, Trickle, LoopTop
<1>2. CASE CopyLimit \/ CheckWindow \/ RestartWindow
  <2>1. \A k \in 1 .. Second : k <= zeroFor => recent[k] = 0 /\ recent[k] <= MostBits
    BY <1>2 DEF IInv, Trickle, CopyLimit, CheckWindow, RestartWindow
  <2>2. pc' # "sleep" /\ UNCHANGED <<zeroFor, bandWidthLimit, recent>>
    BY <1>2 DEF CopyLimit, CheckWindow, RestartWindow
  <2> QED BY <2>1, <2>2 DEF IInv, Trickle
<1>3. CASE EndSleep
  <2>1. \A k \in 1 .. Second : recent[k] = 0
    BY <1>3 DEF IInv, TypeOK, Trickle, EndSleep
  <2> QED BY <1>3, <2>1, Largest DEF IInv, Trickle, EndSleep
<1>4. ASSUME NEW bits \in PacketBits, SendPacket(bits) PROVE Trickle'
  <2>1. bits \in Nat /\ bits <= MostBits
    BY Largest
  <2>2. \A k \in 1 .. Second : k <= zeroFor => recent'[k] = bits
    BY <1>4, <2>1 DEF IInv, Trickle, SendPacket
  <2> QED BY <1>4, <2>1, <2>2 DEF IInv, Trickle, SendPacket
<1>5. ASSUME NEW b \in Limits, SetBandwidthLimit(b) PROVE Trickle'
  BY <1>5 DEF IInv, TypeOK, Trickle, SetBandwidthLimit
<1>6. CASE Tick
  <2>1. /\ zeroFor' > 0 => bandWidthLimit' = 0 /\ bandWidthLimit = 0
        /\ zeroFor \in Nat /\ \A k \in 1 .. Second : k <= zeroFor' => k - 1 <= zeroFor
        /\ UNCHANGED <<pc, wakeAt>> /\ clock' = clock + 1
        /\ clock \in Nat /\ wakeAt \in Nat
    BY <1>6 DEF IInv, TypeOK, Tick, Capped
  <2>2. ASSUME NEW k \in 1 .. Second
        PROVE  \/ recent'[k] = 0
               \/ k - 1 \in 1 .. Second /\ recent'[k] = recent[k - 1]
    BY <1>6 DEF Tick
  <2>3. MostBits \in Nat
    BY Largest
  <2>4. ASSUME NEW k \in 1 .. Second, k <= zeroFor'
        PROVE  /\ recent'[k] <= MostBits
               /\ pc' \in {"copy", "window", "restart", "remove"} => recent'[k] = 0
    BY <2>1, <2>2, <2>3, <2>4 DEF IInv, Trickle
  <2>5. ASSUME pc' = "sleep"
        PROVE  /\ wakeAt' - Second <= clock'
               /\ \A k \in 1 .. Second : k <= clock' - (wakeAt' - Second) => recent'[k] = 0
    BY <2>1, <2>2, <2>5 DEF IInv, Trickle
  <2> QED BY <2>1, <2>4, <2>5 DEF Trickle
<1> QED BY <1>1, <1>2, <1>3, <1>4, <1>5, <1>6 DEF Next, Loop

(* A loop that looks at the timer sees the second over.                    *)
LEMMA RenewalStep ==
  ASSUME IInv, Next
  PROVE  Renewal'
<1> SUFFICES ASSUME clock <= IntMax, clock' <= IntMax
             PROVE  /\ starved' <= Second + 1
                    /\ starved' > Second => pc' = "restart" /\ ~iterated'
                    /\ iterated' /\ pc' # "restart" => starved' < Second
                    /\ starved' <= clock' - early'
                    /\ pc' = "remove" /\ ~iterated' => starved' = 0
                    /\ pc' = "sleep" /\ clock' > wakeAt' - Second => starved' = 0
  <2>1. clock' <= IntMax => clock <= IntMax
    BY TimeAssumption DEF IInv, TypeOK, Next, Loop, LoopTop, CopyLimit, EndSleep, CheckWindow,
          RestartWindow, SendPacket, SetBandwidthLimit, Tick
  <2> QED BY <2>1 DEF Renewal
<1>1. /\ Second \in Nat /\ Second > 0 /\ IntMax \in Nat
      /\ clock \in Nat /\ starved \in Nat /\ wakeAt \in Nat /\ limit \in Nat
      /\ iterated \in BOOLEAN /\ early \in 0 .. clock /\ bandConsumed \in Nat
  BY TimeAssumption, Largest DEF IInv, TypeOK, Window
<1>2. /\ starved <= Second + 1
      /\ starved > Second => pc = "restart" /\ ~iterated
      /\ iterated /\ pc # "restart" => starved < Second
      /\ starved <= clock - early
      /\ pc = "remove" /\ ~iterated => starved = 0
      /\ pc = "sleep" /\ clock > wakeAt - Second => starved = 0
  BY DEF IInv, Renewal
<1>3. CASE LoopTop \/ CopyLimit \/ EndSleep
  BY <1>1, <1>2, <1>3 DEF LoopTop, CopyLimit, EndSleep
<1>4. CASE CheckWindow
  <2>1. WindowOpen <=> clock - early < Second
    BY WindowTest DEF IInv
  <2> QED BY <1>1, <1>2, <1>4, <2>1 DEF CheckWindow
<1>5. CASE RestartWindow
  BY <1>1, <1>5 DEF RestartWindow, GetMicrosecondsElapsed
<1>6. ASSUME NEW bits \in PacketBits, SendPacket(bits)
      PROVE  /\ UNCHANGED <<clock, early, starved, iterated, wakeAt>>
             /\ pc = "remove" /\ pc' = "top"
  BY <1>6 DEF SendPacket
<1>7. ASSUME NEW b \in Limits, SetBandwidthLimit(b)
      PROVE  UNCHANGED <<clock, early, starved, iterated, wakeAt, pc>>
  BY <1>7 DEF SetBandwidthLimit
<1>8. CASE Tick
  <2>1. /\ clock' = clock + 1 /\ ~iterated' /\ UNCHANGED <<early, wakeAt, pc>>
        /\ starved' \in {0, starved + 1}
        /\ starved' = 0 \/ (UsedUp /\ starved' = starved + 1)
    BY <1>1, <1>2, <1>8 DEF Tick, Capped
  <2>2. UsedUp => pc \notin {"sleep", "remove"}
    BY <1>1 DEF UsedUp, IInv, Window
  <2>3. UsedUp => iterated
    BY <1>8, <2>2 DEF Tick
  <2> QED BY <1>1, <1>2, <2>1, <2>2, <2>3
<1>9. CASE \E bits \in PacketBits : SendPacket(bits)
  BY <1>1, <1>2, <1>6, <1>9
<1>10. CASE \E b \in Limits : SetBandwidthLimit(b)
  BY <1>1, <1>2, <1>7, <1>10
<1> QED BY <1>3, <1>4, <1>5, <1>8, <1>9, <1>10 DEF Next, Loop

(* One window may end after the overflow, and no second one.               *)
LEMMA OverflowStep ==
  ASSUME IInv, Next
  PROVE  Overflow'
<1>1. /\ clock \in Nat /\ late \in Nat /\ bandConsumed \in Nat /\ Full \in Nat
      /\ IntMax \in Nat /\ early \in Int
  BY TimeAssumption, Largest DEF IInv, TypeOK
<1>2. CASE LoopTop \/ CopyLimit \/ EndSleep \/ CheckWindow \/ \E b \in Limits : SetBandwidthLimit(b)
  BY <1>2 DEF IInv, Overflow, LoopTop, CopyLimit, EndSleep, CheckWindow, SetBandwidthLimit
<1>3. CASE RestartWindow
  <2>1. late <= bandConsumed /\ bandConsumed <= Full
    BY <1>3 DEF IInv, Window, Overflow, RestartWindow
  <2>2. early' # IntMin => clock <= IntMax
    BY <1>1, <1>3 DEF RestartWindow, GetMicrosecondsElapsed
  <2> QED BY <1>1, <1>3, <2>1, <2>2 DEF IInv, Overflow, RestartWindow
<1>4. ASSUME NEW bits \in PacketBits, SendPacket(bits) PROVE Overflow'
  <2>1. bits \in Nat
    BY Largest
  <2> QED BY <1>1, <1>4, <2>1 DEF IInv, Overflow, SendPacket
<1>5. CASE Tick
  BY <1>1, <1>5 DEF IInv, Overflow, Tick
<1> QED BY <1>2, <1>3, <1>4, <1>5 DEF Next, Loop

(* The invariant holds of every behaviour.                                 *)
LEMMA LimiterAlways ==
  Spec => []IInv
<1>1. Init => IInv
  BY LimiterInit
<1>2. IInv /\ [Next]_vars => IInv'
  <2> SUFFICES ASSUME IInv, [Next]_vars PROVE IInv'
    OBVIOUS
  <2>1. CASE Next
    BY <2>1, TypeStep, WindowStep, RateStep, TrickleStep, RenewalStep, OverflowStep DEF IInv
  <2>2. CASE UNCHANGED vars
    <3>1. TypeOK' /\ Window' /\ Rate'
      BY <2>2 DEF vars, IInv, TypeOK, Window, Rate
    <3>2. Trickle' /\ Renewal' /\ Overflow'
      BY <2>2 DEF vars, IInv, Trickle, Renewal, Overflow
    <3> QED BY <3>1, <3>2 DEF IInv
  <2> QED BY <2>1, <2>2
<1> QED BY <1>1, <1>2, PTL DEF Spec

-----------------------------------------------------------------------------
(* The writer's variables keep to their types; no window carries more than *)
(* the largest limit and a packet.                                         *)
THEOREM TypeCorrect ==
  Spec => []TypeOK
<1>1. IInv => TypeOK
  BY DEF IInv
<1> QED BY <1>1, LimiterAlways, PTL

(* In no second of real time does the link carry more than two full        *)
(* windows, even when the timer's int overflows in the meantime.           *)
THEOREM TwoWindows ==
  Spec => []AnySecond
<1>1. IInv => AnySecond
  BY IInvImplies
<1> QED BY <1>1, LimiterAlways, PTL

(* A limit of 0 lets through one packet in any second, once it has been    *)
(* set for a second.                                                       *)
THEOREM ZeroIsOnePacket ==
  Spec => []ZeroTrickles
<1>1. IInv => ZeroTrickles
  BY IInvImplies
<1> QED BY <1>1, LimiterAlways, PTL

(* A used-up limit is renewed within a second and a tick, as long as the   *)
(* timer's int lasts.                                                      *)
THEOREM LimitRenewed ==
  Spec => []Renewed
<1>1. IInv => Renewed
  BY IInvImplies
<1> QED BY <1>1, LimiterAlways, PTL

(* After the overflow of the timer's int the link carries two full windows *)
(* and no bit more, however long it runs.                                  *)
THEOREM OverflowStops ==
  Spec => []OverflowStalls
<1>1. IInv => OverflowStalls
  BY IInvImplies
<1> QED BY <1>1, LimiterAlways, PTL
=============================================================================

---------------------------- MODULE RateLimiter ----------------------------
(***************************************************************************)
(* The bandwidth limit of the emulator's writer thread (WriterThread::run) *)
(* against a real-time clock.  The loop counts the bits it sent since the  *)
(* window began and takes no packet out of the buffer once the limit is    *)
(* used up; a window ends when the timer shows that a second is over.  The *)
(* timer returns int microseconds.  Time is counted in ticks, Second ticks *)
(* being ONE_MILLION_USEC; sizes and limits in a unit of bits.             *)
(***************************************************************************)
EXTENDS Integers, FiniteSets, FiniteSetsExt

CONSTANTS
  Limits,     (* values of the bandwidth spin box, 0 among them            *)
  PacketBits, (* sizes in bits of the packets the buffer may yield         *)
  Second,     (* ticks in a second                                         *)
  IntMax,     (* the largest int, in ticks                                 *)
  MaxClock    (* bound: how long the model follows the clock               *)

ASSUME LimitsAssumption == Limits \subseteq Nat /\ 0 \in Limits /\ IsFiniteSet(Limits)
ASSUME PacketBitsAssumption ==
  PacketBits \subseteq Nat \ {0} /\ PacketBits # {} /\ IsFiniteSet(PacketBits)
ASSUME TimeAssumption ==
  Second \in Nat \ {0} /\ IntMax \in Nat /\ IntMax > Second /\ MaxClock \in Nat

VARIABLES
  clock,          (* ticks since StartTimer                                *)
  bandWidthLimit, (* set by the GUI thread, read without its mutex         *)
  limit,          (* the loop's own copy                                   *)
  early,          (* the timer value at which the window began             *)
  bandConsumed,   (* bits sent in this window (totalBytes * 8)             *)
  pc,             (* position in the loop                                  *)
  wakeAt,         (* when the msleep ends                                  *)
  iterated,       (* history: the loop looked at the timer in this tick    *)
  recent,         (* history: recent[k] bits were sent in the last k ticks *)
  zeroFor,        (* history: ticks since the limit was set to 0, capped   *)
  starved,        (* history: ticks the limit has been used up, capped     *)
  late            (* history: bits sent after the timer's int ran out      *)

vars == <<clock, bandWidthLimit, limit, early, bandConsumed, pc, wakeAt,
          iterated, recent, zeroFor, starved, late>>

IntMin == -IntMax - 1
Capped(n, cap) == IF n > cap THEN cap ELSE n

-----------------------------------------------------------------------------
(* Mutant: the conversion keeps every value.                               *)
GetMicrosecondsElapsedWide(now) == now

(* (int) of the double microseconds: out of range, x86 yields the smallest *)
(* int.                                                                    *)
GetMicrosecondsElapsed(now) == IF now <= IntMax THEN now ELSE IntMin

(* Mutant: the elapsed time is compared with the wrong sign.               *)
IntMinusReversed(a, b) == b - a

(* int subtraction as the build computes it.                               *)
IntMinus(a, b) ==
  LET width == 2 * (IntMax + 1)
  IN  ((a - b - IntMin) % width) + IntMin

Init ==
  /\ clock = 0
  /\ bandWidthLimit \in Limits
  /\ limit = 0
  /\ early = 0
  /\ bandConsumed = 0
  /\ pc = "top"
  /\ wakeAt = 0
  /\ iterated = TRUE
  /\ recent = [k \in 1 .. Second |-> 0]
  /\ zeroFor = 0
  /\ starved = 0
  /\ late = 0

(* The GUI thread changes the limit at any time.                           *)
SetBandwidthLimit(b) ==
  /\ b # bandWidthLimit
  /\ bandWidthLimit' = b
  /\ zeroFor' = 0
  /\ UNCHANGED <<clock, limit, early, bandConsumed, pc, wakeAt, iterated, recent, starved, late>>

(* Mutant: the loop does not sleep for a limit of 0.                       *)
LoopTopNoSleep ==
  /\ pc = "top"
  /\ pc' = IF bandWidthLimit = 0 THEN "window" ELSE "copy"
  /\ UNCHANGED <<clock, bandWidthLimit, limit, early, bandConsumed, wakeAt, iterated,
                 recent, zeroFor, starved, late>>

(* A limit of 0 makes the loop sleep for a second and keep the limit it    *)
(* had; the variable is read a second time for any other.                  *)
LoopTop ==
  /\ pc = "top"
  /\ \/ /\ bandWidthLimit = 0
        /\ pc' = "sleep"
        /\ wakeAt' = clock + Second
     \/ /\ bandWidthLimit # 0
        /\ pc' = "copy"
        /\ UNCHANGED wakeAt
  /\ UNCHANGED <<clock, bandWidthLimit, limit, early, bandConsumed, iterated,
                 recent, zeroFor, starved, late>>

CopyLimit ==
  /\ pc = "copy"
  /\ limit' = bandWidthLimit
  /\ pc' = "window"
  /\ UNCHANGED <<clock, bandWidthLimit, early, bandConsumed, wakeAt, iterated,
                 recent, zeroFor, starved, late>>

EndSleep ==
  /\ pc = "sleep"
  /\ clock >= wakeAt
  /\ pc' = "window"
  /\ UNCHANGED <<clock, bandWidthLimit, limit, early, bandConsumed, wakeAt, iterated,
                 recent, zeroFor, starved, late>>

WindowOpen == IntMinus(GetMicrosecondsElapsed(clock), early) < Second

(* Mutant: the window test admits a packet whatever was sent.              *)
CheckWindowUnlimited ==
  /\ pc = "window"
  /\ pc' = IF ~WindowOpen THEN "restart" ELSE "remove"
  /\ iterated' = TRUE
  /\ UNCHANGED <<clock, bandWidthLimit, limit, early, bandConsumed, wakeAt,
                 recent, zeroFor, starved, late>>

CheckWindow ==
  /\ pc = "window"
  /\ pc' = IF ~WindowOpen THEN "restart"
           ELSE IF bandConsumed < limit THEN "remove" ELSE "top"
  /\ iterated' = TRUE
  /\ UNCHANGED <<clock, bandWidthLimit, limit, early, bandConsumed, wakeAt,
                 recent, zeroFor, starved, late>>

(* Mutant: the new window begins where it was, only the count restarts.    *)
RestartWindowInPlace ==
  /\ pc = "restart"
  /\ bandConsumed' = 0
  /\ starved' = 0
  /\ pc' = "top"
  /\ UNCHANGED <<clock, bandWidthLimit, limit, early, wakeAt, iterated, recent,
                 zeroFor, late>>

RestartWindow ==
  /\ pc = "restart"
  /\ early' = GetMicrosecondsElapsed(clock)
  /\ bandConsumed' = 0
  /\ starved' = 0
  /\ pc' = "top"
  /\ UNCHANGED <<clock, bandWidthLimit, limit, wakeAt, iterated, recent, zeroFor, late>>

(* removePacket returned a packet, however long that took, and it is sent. *)
SendPacket(bits) ==
  /\ pc = "remove"
  /\ bandConsumed' = bandConsumed + bits
  /\ recent' = [k \in 1 .. Second |-> recent[k] + bits]
  /\ late' = IF clock > IntMax THEN late + bits ELSE late
  /\ pc' = "top"
  /\ UNCHANGED <<clock, bandWidthLimit, limit, early, wakeAt, iterated, zeroFor, starved>>

UsedUp ==
  pc # "sleep" /\ limit > 0 /\ bandWidthLimit > 0 /\ bandConsumed >= limit

(* A tick passes once the loop had its turn, unless it sleeps or waits for *)
(* a packet: an iteration takes far less than a tick.                      *)
Tick ==
  /\ clock < MaxClock
  /\ \/ iterated
     \/ pc = "remove"
     \/ pc = "sleep" /\ clock < wakeAt
  /\ clock' = clock + 1
  /\ recent' = [k \in 1 .. Second |-> IF k = 1 THEN 0 ELSE recent[k - 1]]
  /\ zeroFor' = IF bandWidthLimit = 0 THEN Capped(zeroFor + 1, Second + 1) ELSE 0
  /\ starved' = IF UsedUp THEN Capped(starved + 1, 2 * Second + 2) ELSE 0
  /\ iterated' = FALSE
  /\ UNCHANGED <<bandWidthLimit, limit, early, bandConsumed, pc, wakeAt, late>>

Loop ==
  \/ LoopTop \/ CopyLimit \/ EndSleep \/ CheckWindow \/ RestartWindow
  \/ \E bits \in PacketBits : SendPacket(bits)

Next ==
  \/ Loop
  \/ \E b \in Limits : SetBandwidthLimit(b)
  \/ Tick

Spec == Init /\ [][Next]_vars

-----------------------------------------------------------------------------
MostBits == Max(PacketBits)
MostLimit == Max(Limits)

(* Every variable keeps to its type: the timer's values are ints, and no   *)
(* window carries more than the limit and a packet.                        *)
TypeOK ==
  /\ clock \in 0 .. MaxClock
  /\ bandWidthLimit \in Limits
  /\ limit \in Limits
  /\ early \in IntMin .. IntMax
  /\ bandConsumed \in 0 .. MostLimit + MostBits
  /\ pc \in {"top", "copy", "sleep", "window", "restart", "remove"}
  /\ wakeAt \in 0 .. MaxClock + Second
  /\ iterated \in BOOLEAN
  /\ recent \in [1 .. Second -> Nat]
  /\ zeroFor \in 0 .. Second + 1
  /\ starved \in 0 .. 2 * Second + 2
  /\ late \in Nat

(* In no second of real time, wherever it begins, does the link carry more *)
(* than two full windows: the limit is exceeded by one packet per window,  *)
(* and a burst may straddle the end of one.                                *)
AnySecond == recent[Second] <= 2 * (MostLimit + MostBits - 1)

(* A limit of 0 does not stop the link: the loop goes on under the limit   *)
(* it had before, but a second of sleep after each packet leaves no more   *)
(* than one packet per second, once the limit has been 0 for a second.     *)
ZeroTrickles == zeroFor > Second => recent[Second] <= MostBits

(* While the timer's int lasts, a used-up limit is renewed within a second *)
(* and a tick, not counting the sleep that a limit of 0 left behind.       *)
Renewed == clock <= IntMax => starved <= Second + 1

(* Once the timer's int has run out no window ends any more: whatever the  *)
(* length of the run, the link carries no more than two windows from then  *)
(* on.                                                                     *)
OverflowStalls == late <= 2 * (MostLimit + MostBits - 1)
=============================================================================

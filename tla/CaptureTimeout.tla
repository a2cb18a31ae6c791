--------------------------- MODULE CaptureTimeout --------------------------
(***************************************************************************)
(* The waiting loops of OV5640_Snapshot2RAM_RGB and OV5640_Snapshot2RAM    *)
(* (ov5640.c) against the 32-bit system clock.  Both compute the deadline  *)
(* once and poll with a sleep until the frame is complete or the clock is  *)
(* past the deadline; the RGB loop then reads the clock once more to tell  *)
(* which it was, the JPEG loop keeps what it last saw of the frame.        *)
(***************************************************************************)
EXTENDS Integers

CONSTANTS
  ClockModulus,  \* 2^32: systime_t wraps around
  WaitTicks,     \* ticks to the deadline (1 s or 5 s)
  MaxSleep,      \* bound: ticks one sleep may take until the thread runs
  Modes          \* which loops are run: "rgb", "jpeg"

ASSUME TimesAssumption ==
  /\ ClockModulus \in Nat \ {0}
  /\ WaitTicks \in 1 .. ClockModulus - 1
  /\ MaxSleep \in Nat \ {0}
  /\ Modes \subseteq {"rgb", "jpeg"}

Times == 0 .. ClockModulus - 1

VARIABLES
  mode, pc,
  now, timeout,
  finished,   \* the frame is complete (samplingFinished, or CAPTURE clear)
  sampled,    \* what the loop saw of it when it stopped
  result,     \* what the snapshot returned
  elapsed     \* history: ticks since the deadline was computed, capped

vars == <<mode, pc, now, timeout, finished, sampled, result, elapsed>>

ElapsedCap == WaitTicks + 2 * MaxSleep
Cap(n) == IF n > ElapsedCap THEN ElapsedCap ELSE n

\* systime_t timeout = chVTGetSystemTimeX() + TIME_MS2I(...)
Deadline == (now + WaitTicks) % ClockModulus

\* Slip: one tick early.
ExpiredEarly == now + 1 >= timeout

Expired == now >= timeout

Advance(ticks) ==
  /\ now' = (now + ticks) % ClockModulus
  /\ elapsed' = Cap(elapsed + ticks)

ComputeDeadline ==
  /\ pc = "start"
  /\ timeout' = Deadline
  /\ pc' = "check"
  /\ UNCHANGED <<mode, now, finished, sampled, result, elapsed>>

\* The frame completes at any time while the snapshot waits.
Complete ==
  /\ pc \in {"check", "sleep", "decide"} /\ ~finished
  /\ finished' = TRUE
  /\ UNCHANGED <<mode, pc, now, timeout, sampled, result, elapsed>>

\* Slip: the loop does not look at the clock.
CheckLoopNoClock ==
  /\ pc = "check"
  /\ sampled' = finished
  /\ pc' = IF ~finished THEN "sleep" ELSE "decide"
  /\ UNCHANGED <<mode, now, timeout, finished, result, elapsed>>

CheckLoop ==
  /\ pc = "check"
  /\ sampled' = finished
  /\ pc' = IF ~finished /\ ~Expired THEN "sleep" ELSE "decide"
  /\ UNCHANGED <<mode, now, timeout, finished, result, elapsed>>

Sleep ==
  /\ pc = "sleep"
  /\ \E ticks \in 1 .. MaxSleep : Advance(ticks)
  /\ pc' = "check"
  /\ UNCHANGED <<mode, timeout, finished, sampled, result>>

\* The clock ticks while the thread runs, too.
Tick ==
  /\ pc \in {"check", "decide"} /\ elapsed < ElapsedCap
  /\ Advance(1)
  /\ UNCHANGED <<mode, pc, timeout, finished, sampled, result>>

\* Slip: the CAPTURE bit is not negated.
DecideInverted ==
  /\ pc = "decide"
  /\ pc' = "done"
  /\ \/ mode = "rgb" /\ result' = IF Expired THEN "timeout" ELSE "captured"
     \/ mode = "jpeg" /\ result' = IF sampled THEN "timeout" ELSE "captured"
  /\ UNCHANGED <<mode, now, timeout, finished, sampled, elapsed>>

Decide ==
  /\ pc = "decide"
  /\ pc' = "done"
  /\ \/ mode = "rgb" /\ result' = IF Expired THEN "timeout" ELSE "captured"
     \/ mode = "jpeg" /\ result' = IF sampled THEN "captured" ELSE "timeout"
  /\ UNCHANGED <<mode, now, timeout, finished, sampled, elapsed>>

\* The next snapshot starts at another time.
NextSnapshot ==
  /\ pc = "done"
  /\ pc' = "start"
  /\ now' \in Times
  /\ finished' = FALSE /\ sampled' = FALSE
  /\ result' = "none"
  /\ elapsed' = 0
  /\ UNCHANGED <<mode, timeout>>

Init ==
  /\ mode \in Modes /\ pc = "start"
  /\ now \in Times /\ timeout = 0
  /\ finished = FALSE /\ sampled = FALSE /\ result = "none"
  /\ elapsed = 0

Loop == ComputeDeadline \/ CheckLoop \/ Sleep \/ Decide

Next == Loop \/ Complete \/ Tick \/ NextSnapshot

\* The sleeping thread is woken and runs on.
Spec == Init /\ [][Next]_vars /\ WF_vars(Loop)

(***************************************************************************)
(* Properties.                                                             *)
(***************************************************************************)

\* The clock wraps before the deadline, or a sleep that starts before the
\* deadline may step over it and the wrap.
NearWrap == timeout < WaitTicks \/ timeout > ClockModulus - 1 - 2 * MaxSleep

\* "Timeout 1sec", "Timeout 5sec" (ov5640.c 1694, 1745): away from the wrap a
\* frame is given up no earlier than the deadline, and no sleep begins after it.
TimesOutInTime ==
  NearWrap \/ /\ result = "timeout" => elapsed >= WaitTicks
              /\ pc = "sleep" => elapsed < WaitTicks

\* Away from the wrap a snapshot that reports an image has one, although the
\* RGB loop decides by a second look at the clock (ov5640.c 1697-1705,
\* 1757-1778).
CapturedMeansFinished == NearWrap \/ (result = "captured" => finished)

\* Away from the wrap every wait ends, with or without a frame
\* (ov5640.c 1694-1697, 1745-1752).
WaitEnds == pc = "check" /\ ~NearWrap ~> pc = "done"
=============================================================================

------------------------ MODULE CaptureTimeoutProofs -----------------------
(***************************************************************************)
(* Proofs about the waiting loops of the snapshots, for every clock width, *)
(* deadline and length of a sleep: away from the wrap of the clock the     *)
(* loops neither give up early nor report a frame that is not there.       *)
(***************************************************************************)
EXTENDS CaptureTimeout, TLAPS

TypeInv ==
  /\ mode \in {"rgb", "jpeg"}
  /\ pc \in {"start", "check", "sleep", "decide", "done"}
  /\ now \in Times /\ timeout \in Times
  /\ finished \in BOOLEAN /\ sampled \in BOOLEAN
  /\ result \in {"none", "captured", "timeout"}
  /\ elapsed \in 0 .. ElapsedCap

\* A snapshot starts with nothing seen and nothing decided.
FreshStart ==
  /\ pc = "start" => elapsed = 0 /\ ~finished /\ ~sampled
  /\ pc # "done" => result = "none"

\* What the loop saw of the frame is not taken back.
SeenIsFinished == sampled => finished

\* The clock stands at the elapsed time behind the start of the wait.
OnTime == now = timeout - WaitTicks + elapsed

\* Where a wait away from the wrap stands.
InTime ==
  NearWrap \/
    /\ pc # "start" => OnTime
    /\ pc = "sleep" => elapsed < WaitTicks
    /\ pc = "decide" => sampled \/ elapsed >= WaitTicks
    /\ result = "timeout" => elapsed >= WaitTicks
    /\ result = "captured" => finished

IInv == TypeInv /\ FreshStart /\ SeenIsFinished /\ InTime

(***************************************************************************)
(* The clock.                                                              *)
(***************************************************************************)

\* The clock wraps at most once in the sum of two times.
LEMMA ClockSum ==
  ASSUME NEW a \in Times, NEW b \in 0 .. ClockModulus - 1
  PROVE  /\ a + b < ClockModulus => (a + b) % ClockModulus = a + b
         /\ a + b >= ClockModulus =>
              (a + b) % ClockModulus = a + b - ClockModulus
         /\ (a + b) % ClockModulus \in Times
BY TimesAssumption DEF Times

\* A time that has wrapped is a time.
LEMMA ClockType ==
  ASSUME NEW a \in Nat
  PROVE  a % ClockModulus \in Times
BY TimesAssumption DEF Times

\* Away from the wrap the clock moves by the ticks that pass, as long as they
\* fit below the cap.
LEMMA AdvanceOnTime ==
  ASSUME TypeInv, OnTime, ~NearWrap, NEW ticks \in Nat,
         elapsed + ticks <= ElapsedCap, Advance(ticks), timeout' = timeout
  PROVE  OnTime' /\ elapsed' = elapsed + ticks
<1> USE TimesAssumption
<1>1. elapsed' = elapsed + ticks
  BY DEF Advance, Cap, TypeInv, ElapsedCap
<1>2. now + ticks \in Times /\ now + ticks < ClockModulus
  BY DEF OnTime, NearWrap, TypeInv, ElapsedCap, Times
<1>3. (now + ticks) % ClockModulus = now + ticks
  <2>1. 0 \in 0 .. ClockModulus - 1 /\ now + ticks + 0 = now + ticks
    BY <1>2 DEF Times
  <2> QED
    BY <1>2, <2>1, ClockSum
<1>4. now' = now + ticks
  BY <1>3 DEF Advance
<1> QED
  BY <1>1, <1>4 DEF OnTime, TypeInv, Times, ElapsedCap

\* An advance keeps the types.
LEMMA AdvanceType ==
  ASSUME TypeInv, NEW ticks \in Nat, Advance(ticks)
  PROVE  now' \in Times /\ elapsed' \in 0 .. ElapsedCap
<1>1. now + ticks \in Nat
  BY TimesAssumption DEF TypeInv, Times
<1>2. now' \in Times
  BY <1>1, ClockType DEF Advance
<1>3. elapsed' \in 0 .. ElapsedCap
  BY TimesAssumption DEF Advance, Cap, TypeInv, ElapsedCap
<1> QED
  BY <1>2, <1>3

(***************************************************************************)
(* The invariant is inductive.                                             *)
(***************************************************************************)

\* The deadline is computed from the clock of this moment.
LEMMA DeadlineStep == IInv /\ ComputeDeadline => IInv'
<1> SUFFICES ASSUME IInv, ComputeDeadline PROVE IInv'
  OBVIOUS
<1> USE TimesAssumption
<1>1. /\ pc = "start" /\ pc' = "check" /\ timeout' = (now + WaitTicks) % ClockModulus
      /\ UNCHANGED <<mode, now, finished, sampled, result, elapsed>>
  BY DEF ComputeDeadline, Deadline
<1>2. now \in Times /\ WaitTicks \in 0 .. ClockModulus - 1
  BY DEF IInv, TypeInv
<1>3. timeout' \in Times
  BY <1>1, <1>2, ClockSum
<1>4. TypeInv' /\ FreshStart' /\ SeenIsFinished'
  BY <1>1, <1>3 DEF IInv, TypeInv, FreshStart, SeenIsFinished
<1>5. ASSUME ~NearWrap' PROVE OnTime'
  <2>1. now + WaitTicks < ClockModulus
    <3> SUFFICES ASSUME now + WaitTicks >= ClockModulus PROVE FALSE
      BY <1>2 DEF Times
    <3>1. timeout' = now + WaitTicks - ClockModulus
      BY <1>1, <1>2, ClockSum
    <3> QED
      BY <1>2, <1>5, <3>1 DEF NearWrap, Times
  <2>2. timeout' = now + WaitTicks
    BY <1>1, <1>2, <2>1, ClockSum
  <2>3. elapsed' = 0 /\ now' = now
    BY <1>1 DEF IInv, FreshStart
  <2> QED
    BY <1>2, <2>2, <2>3 DEF OnTime, Times
<1>6. InTime'
  BY <1>1, <1>5 DEF IInv, FreshStart, InTime
<1> QED
  BY <1>4, <1>6 DEF IInv

\* A look at the clock and at the frame.
LEMMA CheckStep == IInv /\ CheckLoop => IInv'
<1> SUFFICES ASSUME IInv, CheckLoop PROVE IInv'
  OBVIOUS
<1> USE TimesAssumption
<1>1. /\ pc = "check" /\ sampled' = finished
      /\ UNCHANGED <<mode, now, timeout, finished, result, elapsed>>
  BY DEF CheckLoop
<1>2. \/ pc' = "sleep" /\ ~finished /\ now < timeout
      \/ pc' = "decide" /\ (finished \/ now >= timeout)
  BY DEF CheckLoop, Expired, IInv, TypeInv, Times
<1>3. TypeInv' /\ FreshStart' /\ SeenIsFinished'
  BY <1>1, <1>2, Zenon DEF IInv, TypeInv, FreshStart, SeenIsFinished
<1>4. ASSUME ~NearWrap' PROVE InTime'
  <2>1. ~NearWrap /\ OnTime
    BY <1>1, <1>4 DEF NearWrap, IInv, InTime
  <2>2. OnTime' /\ result' = "none"
    BY <1>1, <2>1 DEF OnTime, IInv, FreshStart
  <2>3. now < timeout <=> elapsed < WaitTicks
    BY <2>1 DEF OnTime, IInv, TypeInv, Times, ElapsedCap
  <2>4. now >= timeout <=> elapsed >= WaitTicks
    BY <2>1 DEF OnTime, IInv, TypeInv, Times, ElapsedCap
  <2> QED
    BY <1>1, <1>2, <2>2, <2>3, <2>4 DEF InTime
<1>5. InTime'
  BY <1>4 DEF InTime
<1> QED
  BY <1>3, <1>5 DEF IInv

\* A sleep that began before the deadline ends within MaxSleep of it.
LEMMA SleepStep == IInv /\ Sleep => IInv'
<1> SUFFICES ASSUME IInv, Sleep PROVE IInv'
  OBVIOUS
<1> USE TimesAssumption
<1>1. /\ pc = "sleep" /\ pc' = "check"
      /\ UNCHANGED <<mode, timeout, finished, sampled, result>>
  BY DEF Sleep
<1>2. PICK ticks \in 1 .. MaxSleep : Advance(ticks)
  BY DEF Sleep
<1>3. now' \in Times /\ elapsed' \in 0 .. ElapsedCap
  BY <1>2, AdvanceType DEF IInv
<1>4. TypeInv' /\ FreshStart' /\ SeenIsFinished'
  BY <1>1, <1>3 DEF IInv, TypeInv, FreshStart, SeenIsFinished
<1>5. ASSUME ~NearWrap' PROVE OnTime'
  <2>1. ~NearWrap /\ OnTime /\ elapsed < WaitTicks
    BY <1>1, <1>5 DEF NearWrap, IInv, InTime
  <2>2. elapsed + ticks <= ElapsedCap
    BY <2>1 DEF ElapsedCap, IInv, TypeInv
  <2> QED
    BY <1>1, <1>2, <2>1, <2>2, AdvanceOnTime DEF IInv
<1>6. InTime'
  BY <1>1, <1>5 DEF IInv, FreshStart, InTime
<1> QED
  BY <1>4, <1>6 DEF IInv

\* The clock ticks between two steps of the thread.
LEMMA TickStep == IInv /\ Tick => IInv'
<1> SUFFICES ASSUME IInv, Tick PROVE IInv'
  OBVIOUS
<1> USE TimesAssumption
<1>1. /\ pc \in {"check", "decide"} /\ elapsed < ElapsedCap /\ Advance(1)
      /\ UNCHANGED <<mode, pc, timeout, finished, sampled, result>>
  BY DEF Tick
<1>2. now' \in Times /\ elapsed' \in 0 .. ElapsedCap
  BY <1>1, AdvanceType DEF IInv
<1>3. TypeInv' /\ FreshStart' /\ SeenIsFinished'
  BY <1>1, <1>2 DEF IInv, TypeInv, FreshStart, SeenIsFinished
<1>4. ASSUME ~NearWrap' PROVE OnTime' /\ elapsed' = elapsed + 1
  <2>1. ~NearWrap /\ OnTime
    BY <1>1, <1>4 DEF NearWrap, IInv, InTime
  <2>2. elapsed + 1 <= ElapsedCap
    BY <1>1 DEF ElapsedCap, IInv, TypeInv
  <2> QED
    BY <1>1, <2>1, <2>2, AdvanceOnTime DEF IInv
<1>5. ASSUME ~NearWrap' PROVE InTime'
  <2>1. elapsed >= WaitTicks => elapsed' >= WaitTicks
    BY <1>4, <1>5 DEF IInv, TypeInv, ElapsedCap
  <2>2. ~NearWrap /\ result = "none"
    BY <1>1, <1>5 DEF NearWrap, IInv, FreshStart
  <2> QED
    BY <1>1, <1>4, <1>5, <2>1, <2>2 DEF IInv, InTime
<1>6. InTime'
  BY <1>5 DEF InTime
<1> QED
  BY <1>3, <1>6 DEF IInv

\* The two ways to decide.  The RGB loop reads the clock again: before the
\* deadline the frame was the reason to stop.
LEMMA DecideStep == IInv /\ Decide => IInv'
<1> SUFFICES ASSUME IInv, Decide PROVE IInv'
  OBVIOUS
<1> USE TimesAssumption
<1>1. /\ pc = "decide" /\ pc' = "done"
      /\ UNCHANGED <<mode, now, timeout, finished, sampled, elapsed>>
  BY DEF Decide
<1>2. \/ result' = "timeout" /\ (now >= timeout \/ ~sampled)
      \/ result' = "captured" /\ (now < timeout \/ sampled)
  BY DEF Decide, Expired, IInv, TypeInv, Times
<1>3. TypeInv' /\ FreshStart' /\ SeenIsFinished'
  BY <1>1, <1>2 DEF IInv, TypeInv, FreshStart, SeenIsFinished
<1>4. ASSUME ~NearWrap' PROVE InTime'
  <2>1. ~NearWrap /\ OnTime /\ (sampled \/ elapsed >= WaitTicks)
    BY <1>1, <1>4 DEF NearWrap, IInv, InTime
  <2>2. OnTime'
    BY <1>1, <2>1 DEF OnTime
  <2>3. now < timeout <=> ~(elapsed >= WaitTicks)
    BY <2>1 DEF OnTime, IInv, TypeInv, Times, ElapsedCap
  <2>4. now >= timeout <=> elapsed >= WaitTicks
    BY <2>1 DEF OnTime, IInv, TypeInv, Times, ElapsedCap
  <2>5. sampled => finished
    BY DEF IInv, SeenIsFinished
  <2> QED
    BY <1>1, <1>2, <2>1, <2>2, <2>3, <2>4, <2>5 DEF InTime
<1>5. InTime'
  BY <1>4 DEF InTime
<1> QED
  BY <1>3, <1>5 DEF IInv

\* Every step keeps the invariant.
LEMMA Inductive == IInv /\ [Next]_vars => IInv'
<1> SUFFICES ASSUME IInv, [Next]_vars PROVE IInv'
  OBVIOUS
<1>1. CASE Complete
  <2>1. /\ pc \in {"check", "sleep", "decide"} /\ finished' = TRUE
        /\ UNCHANGED <<mode, pc, now, timeout, sampled, result, elapsed>>
    BY <1>1 DEF Complete
  <2>2. TypeInv' /\ FreshStart' /\ SeenIsFinished'
    BY <2>1, Zenon DEF IInv, TypeInv, FreshStart, SeenIsFinished
  <2>3. InTime'
    BY <2>1 DEF IInv, InTime, NearWrap, OnTime
  <2> QED
    BY <2>2, <2>3 DEF IInv
<1>2. CASE NextSnapshot
  <2>1. /\ pc' = "start" /\ now' \in Times /\ finished' = FALSE /\ sampled' = FALSE
        /\ result' = "none" /\ elapsed' = 0 /\ UNCHANGED <<mode, timeout>>
    BY <1>2 DEF NextSnapshot
  <2>2. 0 \in 0 .. ElapsedCap
    BY TimesAssumption DEF ElapsedCap
  <2>3. TypeInv' /\ FreshStart' /\ SeenIsFinished'
    BY <2>1, <2>2, Zenon DEF IInv, TypeInv, FreshStart, SeenIsFinished
  <2>4. InTime'
    BY <2>1 DEF InTime
  <2> QED
    BY <2>3, <2>4 DEF IInv
<1>3. CASE UNCHANGED vars
  BY <1>3
  DEF vars, IInv, TypeInv, FreshStart, SeenIsFinished, InTime, NearWrap, OnTime
<1> QED
  BY <1>1, <1>2, <1>3, DeadlineStep, CheckStep, SleepStep, TickStep, DecideStep
  DEF Next, Loop

\* The invariant holds throughout.
THEOREM Invariance == Spec => []IInv
<1>1. Init => IInv
  <2> SUFFICES ASSUME Init PROVE IInv
    OBVIOUS
  <2>1. 0 \in Times /\ 0 \in 0 .. ElapsedCap /\ mode \in {"rgb", "jpeg"}
    BY TimesAssumption DEF Init, Times, ElapsedCap
  <2>2. TypeInv /\ FreshStart /\ SeenIsFinished
    BY <2>1, Zenon DEF Init, TypeInv, FreshStart, SeenIsFinished
  <2>3. InTime
    BY DEF Init, InTime
  <2> QED
    BY <2>2, <2>3 DEF IInv
<1> QED
  BY <1>1, Inductive, PTL DEF Spec

\* "Timeout 1sec", "Timeout 5sec" (ov5640.c 1694, 1745): no snapshot is given
\* up before its deadline and none sleeps on behind it.
THEOREM DeadlineIsKept == Spec => []TimesOutInTime
<1>1. IInv => TimesOutInTime
  BY DEF IInv, InTime, TimesOutInTime
<1> QED
  BY <1>1, Invariance, PTL

\* A snapshot that reports an image has one, although the RGB loop decides by
\* a second look at the clock (ov5640.c 1697-1705, 1757-1778).
THEOREM CapturedIsFinished == Spec => []CapturedMeansFinished
<1>1. IInv => CapturedMeansFinished
  BY DEF IInv, InTime, CapturedMeansFinished
<1> QED
  BY <1>1, Invariance, PTL
=============================================================================

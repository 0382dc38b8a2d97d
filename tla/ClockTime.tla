----------------------------- MODULE ClockTime -----------------------------
(***************************************************************************)
(* Points in time that wrap around: the kernel's tick count, which         *)
(* Thread::delayUntil() subtracts from (thread.inl), and the user's clock, *)
(* which Timeline and Duration read (timeline.hpp).  All of them are       *)
(* unsigned numbers with ClockMax values.                                  *)
(***************************************************************************)
EXTENDS Integers

CONSTANTS ClockMax,  \* 2^w for a tick count or a BaseTimePoint of w bits
          PerMilli   \* clock steps in a millisecond: 1000

ASSUME ClockAssumption ==
  /\ ClockMax \in Nat \ {0} /\ ClockMax % 2 = 0
  /\ PerMilli \in Nat \ {0}

\* The clock at a true time.
Clock(time) == time % ClockMax

Invalid == 0

\* Faulty form of DelayUntil: the future is not told from the past.
DelayUntilAnything(ticks, tcnt) == Clock(ticks - tcnt)

\* delayUntil(ticks) at the tick count tcnt: how long it sleeps, or
\* InvalidArgument if the difference is zero or has its top bit set.
DelayUntil(ticks, tcnt) ==
  LET delay == Clock(ticks - tcnt)
  IN  IF delay # 0 /\ delay < ClockMax \div 2 THEN delay ELSE Invalid

\* The loop condition of pauseDelayUs(delay) begun at begin.
PauseGoesOn(now, begin, delay) == Clock(now - begin) < delay

\* What pauseDelayMs() hands to pauseDelayUs().
MilliDelay(delay) == Clock(delay * PerMilli)

\* Duration::getMicroDuration(), which then makes now its last time point;
\* getMilliDuration() and getSecondsDuration() for an integer ConvertType.
MicroDuration(now, last) == Clock(now - last)
MilliDuration(now, last) == MicroDuration(now, last) \div PerMilli
SecondsDuration(now, last) == MilliDuration(now, last) \div 1000
=============================================================================

----------------------------- MODULE CyclicTimer -----------------------------
(***************************************************************************)
(* How one cyclictest thread waits and measures (timerthread in            *)
(* src/src/cyclictest/cyclictest.c): the next wakeup time it computes, the *)
(* POSIX timer that wakes it in MODE_CYCLIC, and the latency it gets.      *)
(* Time is the integer clock; it passes between any two steps, which is    *)
(* what a preemption of the thread is.                                     *)
(***************************************************************************)
EXTENDS Integers

CONSTANTS
  Interval,    \* par->interval
  MaxTime      \* bound: the clock stops here

ASSUME TimerAssumption == Interval \in Nat \ {0} /\ MaxTime \in Nat

VARIABLES
  mode,           \* par->mode: "cyclic" or "nanosleep"
  abstime,        \* par->timermode is TIMER_ABSTIME (not -r)
  clock,          \* the time
  tpc,            \* where the thread is
  now, next,      \* its locals
  start,          \* history: the first now
  expiry,         \* the timer's next expiration (MODE_CYCLIC)
  overrun,        \* timer_getoverrun of the signal accepted last
  act,            \* stat->act, the last latency
  preempted       \* history: a thread with a timer was kept from arming it after it
                  \*   read the clock, or the timer expired again between sigwait
                  \*   and clock_gettime

parVars == <<mode, abstime>>
timerVars == <<mode, abstime, clock, tpc, now, next, start, expiry, overrun, act, preempted>>

TimerInit ==
  /\ mode \in {"cyclic", "nanosleep"} /\ abstime \in BOOLEAN
  /\ clock = 0 /\ tpc = "start"
  /\ now = 0 /\ next = 0 /\ start = 0
  /\ expiry = 0 /\ overrun = 0 /\ act = 0 /\ preempted = FALSE

\* Time passes.
Tick ==
  /\ clock < MaxTime
  /\ clock' = clock + 1
  /\ preempted' = \/ preempted \/ tpc = "arm"
                  \/ mode = "cyclic" /\ tpc = "read" /\ clock + 1 >= expiry
  /\ UNCHANGED <<parVars, tpc, now, next, start, expiry, overrun, act>>

\* now is read, next = now + interval.
ReadStart ==
  /\ tpc = "start"
  /\ now' = clock /\ start' = clock
  /\ next' = clock + Interval
  /\ tpc' = IF mode = "cyclic" THEN "arm" ELSE "wait"
  /\ UNCHANGED <<parVars, clock, expiry, overrun, act, preempted>>

\* timer_settime: at next, or an interval from now on.
ArmTimer ==
  /\ tpc = "arm"
  /\ expiry' = IF abstime THEN next ELSE clock + Interval
  /\ tpc' = "wait"
  /\ UNCHANGED <<parVars, clock, now, next, start, overrun, act, preempted>>

\* sigwait accepts the signal of the expired timer.  Expirations since then are
\* its overruns; the timer goes on at the first one that is not over.
Sigwait ==
  /\ tpc = "wait" /\ mode = "cyclic" /\ clock >= expiry
  /\ overrun' = (clock - expiry) \div Interval
  /\ expiry' = expiry + (overrun' + 1) * Interval
  /\ tpc' = "read"
  /\ UNCHANGED <<parVars, clock, now, next, start, act, preempted>>

\* Mutant: clock_nanosleep(TIMER_ABSTIME, &now).
SleepUntilNext_Now ==
  /\ tpc = "wait" /\ mode = "nanosleep" /\ abstime /\ clock >= now
  /\ tpc' = "read"
  /\ UNCHANGED <<parVars, clock, now, next, start, expiry, overrun, act, preempted>>

\* clock_nanosleep(TIMER_ABSTIME, &next)
SleepUntilNext ==
  /\ tpc = "wait" /\ mode = "nanosleep" /\ abstime /\ clock >= next
  /\ tpc' = "read"
  /\ UNCHANGED <<parVars, clock, now, next, start, expiry, overrun, act, preempted>>

\* The relative sleep: the clock is read first, next follows from it.
BeginRelative ==
  /\ tpc = "wait" /\ mode = "nanosleep" /\ ~abstime
  /\ now' = clock
  /\ tpc' = "enter"
  /\ UNCHANGED <<parVars, clock, next, start, expiry, overrun, act, preempted>>

\* The sleep starts: it ends an interval later (expiry serves as its end).
EnterRelative ==
  /\ tpc = "enter"
  /\ expiry' = clock + Interval
  /\ next' = now + Interval
  /\ tpc' = "sleep"
  /\ UNCHANGED <<parVars, clock, now, start, overrun, act, preempted>>

EndRelative ==
  /\ tpc = "sleep" /\ clock >= expiry
  /\ tpc' = "read"
  /\ UNCHANGED <<parVars, clock, now, next, start, expiry, overrun, act, preempted>>

\* clock_gettime(&now), diff = now - next
ReadClock ==
  /\ tpc = "read"
  /\ now' = clock
  /\ act' = clock - next
  /\ tpc' = "update"
  /\ UNCHANGED <<parVars, clock, next, start, expiry, overrun, preempted>>

\* while (tsgreater(&now, &next)) next += interval
SkipTo(n) == IF now > n THEN n + ((now - n + Interval - 1) \div Interval) * Interval
             ELSE n

\* Mutant: periods that are over are not skipped.
Advance_NoSkip ==
  /\ tpc = "update"
  /\ next' = next + Interval + (IF mode = "cyclic" THEN overrun * Interval ELSE 0)
  /\ tpc' = "wait"
  /\ UNCHANGED <<parVars, clock, now, start, expiry, overrun, act, preempted>>

\* Mutant: the overruns of the timer are not added.
Advance_NoOverrun ==
  /\ tpc = "update"
  /\ next' = SkipTo(next + Interval)
  /\ tpc' = "wait"
  /\ UNCHANGED <<parVars, clock, now, start, expiry, overrun, act, preempted>>

\* The next period: interval, the overruns of the timer, and what is over.
Advance ==
  /\ tpc = "update"
  /\ next' = SkipTo(next + Interval
                      + (IF mode = "cyclic" THEN overrun * Interval ELSE 0))
  /\ tpc' = "wait"
  /\ UNCHANGED <<parVars, clock, now, start, expiry, overrun, act, preempted>>

\* The bound on the clock is reached.
OutOfTime == clock = MaxTime /\ UNCHANGED timerVars

TimerNext ==
  \/ Tick \/ ReadStart \/ ArmTimer \/ Sigwait \/ SleepUntilNext \/ BeginRelative
  \/ EnterRelative \/ EndRelative \/ ReadClock \/ Advance \/ OutOfTime

TimerSpec == TimerInit /\ [][TimerNext]_timerVars

-----------------------------------------------------------------------------
(* Properties *)

\* No sleeping mode measures a wakeup before its time; diff is unsigned, and would
\* be enormous.  A preempted thread with a timer is the exception: the period it
\* skipped because it was over is added once more by timer_getoverrun().
NeverEarly == ~preempted => act >= 0

\* Except with relative sleeps, the wakeups keep the phase of the first one, however
\* late the thread runs; and before it waits the thread has skipped the periods that
\* are over and none that lies in the future, so that latencies neither drift nor
\* pile up.
NextIsNearest ==
  /\ tpc # "start" /\ (mode = "cyclic" \/ abstime) => (next - start) % Interval = 0
  /\ tpc = "wait" => now <= next /\ (~preempted => next <= now + Interval)

\* With a cyclic timer, the time the thread measures against is the time the
\* timer expires next, whatever the overruns, unless the thread was preempted where
\* it compares the two.
InStepWithTimer == mode = "cyclic" /\ tpc = "wait" /\ ~preempted => next = expiry
=============================================================================

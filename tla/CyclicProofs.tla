---------------------------- MODULE CyclicProofs ----------------------------
(***************************************************************************)
(* Proofs about one cyclictest thread: the arithmetic on time stamps       *)
(* (TimeSpec), the waiting (CyclicTimer) and the statistics (CyclicStats). *)
(***************************************************************************)
EXTENDS TimeSpec, CyclicTimer, CyclicStats, FiniteSetTheorems, TLAPS

-----------------------------------------------------------------------------
(***************************************************************************)
(* TimeSpec: the arithmetic is right for all stamps and all intervals, not *)
(* only for the boundary values TLC enumerates.                            *)
(***************************************************************************)

\* A second count and a nanosecond count below a second make a normalised stamp.
LEMMA MakeTimespec ==
  ASSUME NEW a \in Nat, NEW b \in Below(NSEC_PER_SEC)
  PROVE  [tv_sec |-> a, tv_nsec |-> b] \in Timespec
BY SMT DEF Timespec

\* tsnorm returns a normalised stamp when two normalised nanosecond counts were
\* added before it.
LEMMA TsnormNormalises ==
  ASSUME NEW ts \in Timespec, NEW n \in Below(NSEC_PER_SEC)
  PROVE  tsnorm([tv_sec |-> ts.tv_sec, tv_nsec |-> ts.tv_nsec + n]) \in Timespec
<1> DEFINE sum == [tv_sec |-> ts.tv_sec, tv_nsec |-> ts.tv_nsec + n]
<1>1. sum.tv_sec = ts.tv_sec /\ sum.tv_nsec = ts.tv_nsec + n
  BY SMT DEF Timespec
<1>2. /\ ts.tv_sec \in Nat /\ ts.tv_nsec \in Below(1000000000) /\ n \in Below(1000000000)
  BY SMT DEF Timespec, NSEC_PER_SEC, Below
<1>3. CASE sum.tv_nsec >= NSEC_PER_SEC
  <2>1. tsnorm(sum) = [tv_sec |-> sum.tv_sec + 1, tv_nsec |-> sum.tv_nsec - NSEC_PER_SEC]
    BY ONLY <1>3, SMT DEF tsnorm
  <2>2. sum.tv_sec + 1 \in Nat /\ sum.tv_nsec - NSEC_PER_SEC \in Below(NSEC_PER_SEC)
    BY <1>1, <1>2, <1>3, SMT DEF NSEC_PER_SEC, Below
  <2>3. tsnorm(sum) \in Timespec
    BY <2>1, <2>2, MakeTimespec, Zenon
  <2> QED BY <2>3
<1>4. CASE ~(sum.tv_nsec >= NSEC_PER_SEC)
  <2>1. tsnorm(sum) = sum
    BY <1>4, SMT DEF tsnorm
  <2>2. ts.tv_nsec + n \in Below(NSEC_PER_SEC)
    BY <1>1, <1>2, <1>4, SMT DEF NSEC_PER_SEC, Below
  <2> QED BY <1>1, <1>2, <2>1, <2>2, SMT DEF Timespec
<1> QED BY <1>3, <1>4, SMT

\* tsgreater decides the sign of calcdiff_ns on normalised stamps.
LEMMA GreaterIsPositive ==
  ASSUME NEW a \in Timespec, NEW b \in Timespec
  PROVE  tsgreater(a, b) <=> calcdiff_ns(a, b) > 0
<1>1. /\ a.tv_sec \in Nat /\ a.tv_nsec \in Below(1000000000)
      /\ b.tv_sec \in Nat /\ b.tv_nsec \in Below(1000000000)
  BY SMT DEF Timespec, NSEC_PER_SEC, Below
<1> QED BY <1>1, SMT DEF Below, tsgreater, calcdiff_ns, NSEC_PER_SEC

\* C's division by a thousand is off by less than one, toward zero.
LEMMA CDivThousand ==
  ASSUME NEW d \in Int
  PROVE  /\ CDiv(d, 1000) \in Int
         /\ -1000 < 1000 * CDiv(d, 1000) - d /\ 1000 * CDiv(d, 1000) - d < 1000
         /\ d >= 0 => CDiv(d, 1000) >= 0 /\ 1000 * CDiv(d, 1000) <= d
         /\ d < 0  => CDiv(d, 1000) <= 0 /\ 1000 * CDiv(d, 1000) >= d
<1>1. CASE d >= 0
  BY <1>1, SMT DEF CDiv
<1>2. CASE d < 0
  <2> DEFINE e == -d
  <2>1. e \in Int /\ e > 0
    BY <1>2, SMT
  <2>2. /\ e \div 1000 \in Int /\ e \div 1000 >= 0
        /\ 1000 * (e \div 1000) <= e /\ e - 1000 * (e \div 1000) <= 999
    BY <2>1, SMT
  <2>3. CDiv(d, 1000) = -(e \div 1000)
    BY <1>2, SMT DEF CDiv
  <2> QED BY <1>2, <2>1, <2>2, <2>3, SMT
<1> QED BY <1>1, <1>2, SMT

\* The differences calcdiff takes its microseconds from are monotone: more
\* nanoseconds never give fewer microseconds.
LEMMA CDivMonotone ==
  ASSUME NEW d \in Int, NEW e \in Int, d <= e
  PROVE  CDiv(d, 1000) <= CDiv(e, 1000)
<1>1. CASE d >= 0
  BY <1>1, SMT DEF CDiv
<1>2. CASE d < 0 /\ e >= 0
  BY <1>2, CDivThousand, SMT
<1>3. CASE d < 0 /\ e < 0
  BY <1>3, SMT DEF CDiv
<1> QED BY <1>1, <1>2, <1>3, SMT

\* calcdiff is monotone in its first argument, across the end of a second too.
LEMMA CalcdiffMonotone ==
  ASSUME NEW a \in Timespec, NEW b \in Timespec, NEW c \in Timespec,
         ~tsgreater(a, b)
  PROVE  calcdiff(a, c) <= calcdiff(b, c)
<1> DEFINE d == a.tv_nsec - c.tv_nsec
           e == b.tv_nsec - c.tv_nsec
<1>1. /\ a.tv_sec \in Nat /\ b.tv_sec \in Nat /\ c.tv_sec \in Nat
      /\ a.tv_nsec \in Below(1000000000) /\ b.tv_nsec \in Below(1000000000)
      /\ c.tv_nsec \in Below(1000000000)
  BY SMT DEF Timespec, NSEC_PER_SEC, Below
<1>2. d \in Int /\ e \in Int
  BY <1>1, SMT DEF Below
<1>3. CASE a.tv_sec = b.tv_sec
  <2>1. d <= e
    BY <1>1, <1>3, SMT DEF Below, tsgreater
  <2>2. CDiv(d, 1000) <= CDiv(e, 1000) /\ CDiv(d, 1000) \in Int /\ CDiv(e, 1000) \in Int
    BY <1>2, <2>1, CDivMonotone, CDivThousand, SMT
  <2> QED BY <1>1, <1>3, <2>2, SMT DEF calcdiff, USEC_PER_SEC
<1>4. CASE a.tv_sec # b.tv_sec
  <2>1. a.tv_sec + 1 <= b.tv_sec
    BY <1>1, <1>4, SMT DEF Below, tsgreater
  <2>3. CDiv(d, 1000) - CDiv(e, 1000) <= 1000000
    <3>1. d - e <= 999999999 /\ d <= 999999999 /\ e >= -999999999
      BY <1>1, SMT DEF Below
    <3>2. CASE d >= 0 /\ e >= 0
      BY <1>2, <3>1, <3>2, SMT DEF CDiv
    <3>3. CASE d < 0
      BY <1>2, <3>1, <3>3, CDivThousand, SMT
    <3>4. CASE d >= 0 /\ e < 0
      BY <1>2, <3>1, <3>4, CDivThousand, SMT
    <3> QED BY <1>2, <3>2, <3>3, <3>4, SMT
  <2>4. CDiv(d, 1000) \in Int /\ CDiv(e, 1000) \in Int
    BY <1>2, CDivThousand, SMT
  <2> QED BY <1>1, <2>1, <2>3, <2>4, SMT DEF calcdiff, USEC_PER_SEC
<1> QED BY <1>3, <1>4, SMT

-----------------------------------------------------------------------------
\* The stamps of the measuring loops stay normalised (tsnorm after each sum).
THEOREM NormalisedHolds == StampSpec => []Normalised
<1>1. StampInit => Normalised
  <2>1. ASSUME NEW s \in Stamps PROVE s \in Timespec
    <3>0. /\ s = [tv_sec |-> s.tv_sec, tv_nsec |-> s.tv_nsec]
          /\ s.tv_sec \in Secs /\ s.tv_nsec \in Nsecs
      BY <2>1, SMT DEF Stamps
    <3>1. /\ s = [tv_sec |-> s.tv_sec, tv_nsec |-> s.tv_nsec]
          /\ s.tv_sec \in Nat /\ s.tv_nsec \in Below(NSEC_PER_SEC)
      BY <3>0, StampAssumption, Zenon
    <3> QED BY ONLY <3>1, SMT DEF Timespec
  <2> QED BY <2>1, SMT DEF StampInit, Normalised
<1>2. Normalised /\ [StampNext]_stampVars => Normalised'
  <2> SUFFICES ASSUME Normalised, [StampNext]_stampVars PROVE Normalised'
    OBVIOUS
  <2>1. CASE AddInterval
    <3>1. PICK n \in Intervals : ts_next' = tsnorm([tv_sec |-> ts_next.tv_sec, tv_nsec |-> ts_next.tv_nsec + n])
      BY <2>1, SMT DEF AddInterval
    <3>2. ts_next' \in Timespec
      BY <3>1, StampAssumption, TsnormNormalises, SMT DEF Normalised
    <3> QED BY <2>1, <3>2, SMT DEF AddInterval, Normalised
  <2>2. CASE UNCHANGED stampVars
    BY <2>2, SMT DEF stampVars, Normalised
  <2> QED BY <2>1, <2>2, SMT DEF StampNext
<1> QED BY <1>1, <1>2, PTL DEF StampSpec

\* tsgreater and calcdiff_ns agree about lateness at every point of the loop.
THEOREM OrderAgreesHolds == StampSpec => []OrderAgrees
<1>1. Normalised => OrderAgrees
  BY GreaterIsPositive, SMT DEF Normalised, OrderAgrees
<1> QED BY <1>1, NormalisedHolds, PTL

\* calcdiff loses less than a microsecond.
THEOREM WithinAMicrosecondHolds == StampSpec => []WithinAMicrosecond
<1>1. Normalised => WithinAMicrosecond
  <2> SUFFICES ASSUME Normalised PROVE WithinAMicrosecond
    OBVIOUS
  <2> DEFINE d == ts_now.tv_nsec - ts_next.tv_nsec
  <2>1. ts_now.tv_sec \in Int /\ ts_next.tv_sec \in Int /\ d \in Int
    BY SMT DEF Normalised, Timespec, Below, NSEC_PER_SEC
  <2>2. CDiv(d, 1000) \in Int /\ -1000 < 1000 * CDiv(d, 1000) - d /\ 1000 * CDiv(d, 1000) - d < 1000
    BY <2>1, CDivThousand, SMT
  <2>3. calcdiff(ts_now, ts_next) - USEC_PER_SEC * (ts_now.tv_sec - ts_next.tv_sec) = CDiv(d, 1000)
    BY <2>1, <2>2, SMT DEF calcdiff, USEC_PER_SEC
  <2> QED BY <2>2, <2>3, SMT DEF WithinAMicrosecond
<1> QED BY <1>1, NormalisedHolds, PTL

\* A later time stamp never gives a smaller latency.
THEOREM MonotoneLatencyHolds == StampSpec => []MonotoneLatency
<1>1. Normalised => MonotoneLatency
  BY CalcdiffMonotone, SMT DEF Normalised, MonotoneLatency
<1> QED BY <1>1, NormalisedHolds, PTL

-----------------------------------------------------------------------------
(***************************************************************************)
(* CyclicTimer, for every interval, every waiting mode and every pattern   *)
(* of preemption, however long the clock runs.                             *)
(***************************************************************************)

(* The inductive invariant *)

\* The types of the variables of CyclicTimer.
TimerTypeInv ==
  /\ mode \in {"cyclic", "nanosleep"} /\ abstime \in BOOLEAN
  /\ tpc \in {"start", "arm", "wait", "enter", "sleep", "read", "update"}
  /\ clock \in Nat /\ now \in Nat /\ start \in Nat /\ expiry \in Nat
  /\ next \in Int /\ overrun \in Nat /\ act \in Int
  /\ preempted \in BOOLEAN

\* n lies a whole number of intervals from the first reading of the clock.
OnGrid(n) == \E k \in Int : n = start + k * Interval

\* The thread keeps the phase of its first wakeup, except with relative sleeps.
Phase ==
  /\ tpc # "start" /\ (mode = "cyclic" \/ abstime) => OnGrid(next)
  /\ mode = "cyclic" => tpc \notin {"enter", "sleep"}
  /\ mode = "nanosleep" => tpc # "arm"
  /\ tpc \in {"enter", "sleep"} => ~abstime

\* What the thread knows about the clock wherever it is.
Clocks ==
  /\ now <= clock
  /\ tpc = "wait" => now <= next
  /\ tpc = "arm" => next = now + Interval
  /\ tpc = "sleep" => next = now + Interval /\ next <= expiry
  /\ mode = "nanosleep" /\ tpc = "read" => next <= clock
  /\ mode = "nanosleep" /\ tpc = "update" => next <= now

\* A thread with a timer that is not preempted: while it works on a signal the timer
\* is one interval and the overruns ahead of next, and has not expired again.
Timer ==
  ~preempted =>
    /\ act >= 0
    /\ tpc = "wait" => next <= now + Interval
    /\ mode = "cyclic" =>
         /\ tpc = "arm" => now = clock
         /\ tpc = "wait" => next = expiry
         /\ tpc \in {"read", "update"} => expiry = next + (overrun + 1) * Interval
         /\ tpc = "read" => expiry - Interval <= clock /\ clock < expiry
         /\ tpc = "update" => expiry - Interval <= now /\ now < expiry

TimerInd == TimerTypeInv /\ Phase /\ Clocks /\ Timer

-----------------------------------------------------------------------------
(* Arithmetic *)

\* What C's loop over missed periods relies on: an interval is positive.
LEMMA IntervalPositive == Interval \in Int /\ Interval >= 1
  BY TimerAssumption

\* Multiples of the interval, in the forms the proofs need.
LEMMA MultiplesOfInterval ==
  ASSUME NEW k \in Int
  PROVE  /\ k * Interval \in Int
         /\ (k + 1) * Interval = k * Interval + Interval
         /\ k >= 0 => k * Interval >= 0
         /\ k >= 1 => k * Interval >= Interval
         /\ k <= -1 => k * Interval <= -Interval
  BY IntervalPositive, SMT

\* Multiples of the interval add up to multiples.
LEMMA SumOfMultiples ==
  ASSUME NEW j \in Int, NEW k \in Int
  PROVE  /\ (j + k) * Interval = j * Interval + k * Interval
         /\ (j - k) * Interval = j * Interval - k * Interval
  BY IntervalPositive, SMT

\* Division by the interval leaves a remainder below it.
LEMMA DivisionByInterval ==
  ASSUME NEW a \in Int
  PROVE  /\ a \div Interval \in Int
         /\ a % Interval \in Int
         /\ a = ((a \div Interval) * Interval) + (a % Interval)
         /\ 0 <= a % Interval /\ a % Interval < Interval
  BY IntervalPositive, SMT

\* A number of intervals divides without remainder.
LEMMA WholeIntervals ==
  ASSUME NEW k \in Int
  PROVE  (k * Interval) % Interval = 0
<1>1. PICK a \in Int : a = k * Interval
  BY MultiplesOfInterval
<1>2. PICK q \in Int : q = a \div Interval
  BY DivisionByInterval
<1>3. PICK r \in Int : r = a % Interval
  BY DivisionByInterval
<1>4. a = (q * Interval) + r /\ 0 <= r /\ r < Interval
  BY <1>2, <1>3, DivisionByInterval
<1>a. (k - q) * Interval = (k * Interval) - (q * Interval) /\ q * Interval \in Int
  BY SumOfMultiples, MultiplesOfInterval
<1>5. (k - q) * Interval = r
  BY <1>1, <1>4, <1>a, SMT
<1>6. k - q \in Int
  OBVIOUS
<1>7. /\ k - q >= 1 => (k - q) * Interval >= Interval
      /\ k - q <= -1 => (k - q) * Interval <= -Interval
  BY <1>6, MultiplesOfInterval
<1>8. k - q = 0
  BY <1>4, <1>5, <1>6, <1>7, IntervalPositive, SMT
<1>9. r = 0
  BY <1>4, <1>5, <1>8, IntervalPositive, SMT
<1> QED
  BY <1>1, <1>3, <1>9

\* The loop over the missed periods leaves a time that is not over alone, and takes
\* one that is over to the first multiple of the interval that is not.
LEMMA Skip ==
  ASSUME now \in Int, NEW n \in Int
  PROVE  /\ SkipTo(n) \in Int
         /\ now <= SkipTo(n)
         /\ now <= n => SkipTo(n) = n
         /\ now > n => SkipTo(n) < now + Interval
         /\ \E j \in Int : SkipTo(n) = n + j * Interval
<1>1. CASE now <= n
  <2>1. SkipTo(n) = n
    BY <1>1 DEF SkipTo
  <2>2. n = n + 0 * Interval
    BY IntervalPositive, SMT
  <2> QED
    BY <1>1, <2>1, <2>2, SMT
<1>2. CASE now > n
  <2>1. PICK a \in Int : a = now - n + Interval - 1
    BY IntervalPositive
  <2>2. PICK q \in Int : q = a \div Interval
    BY DivisionByInterval
  <2>3. PICK r \in Int : r = a % Interval
    BY DivisionByInterval
  <2>4. PICK m \in Int : m = q * Interval
    BY MultiplesOfInterval
  <2>5. a = m + r /\ 0 <= r /\ r < Interval
    BY <2>2, <2>3, <2>4, DivisionByInterval
  <2>6. SkipTo(n) = n + q * Interval
    BY <1>2, <2>1, <2>2 DEF SkipTo
  <2>7. SkipTo(n) = n + m
    BY <2>4, <2>6
  <2>8. SkipTo(n) \in Int /\ now <= SkipTo(n) /\ SkipTo(n) < now + Interval
    BY <2>1, <2>5, <2>7, IntervalPositive, SMT
  <2> QED
    BY <1>2, <2>6, <2>8, SMT
<1> QED
  BY <1>1, <1>2, SMT

\* A time on the grid stays on it by whole intervals.
LEMMA GridStep ==
  ASSUME start \in Int, NEW n \in Int, OnGrid(n), NEW j \in Int
  PROVE  OnGrid(n + j * Interval)
<1>1. PICK k \in Int : n = start + k * Interval
  BY DEF OnGrid
<1>2. /\ k * Interval \in Int /\ j * Interval \in Int
      /\ (k + j) * Interval = (k * Interval) + (j * Interval)
  BY MultiplesOfInterval, SumOfMultiples
<1>3. n + j * Interval = start + (k + j) * Interval
  BY <1>1, <1>2, SMT
<1>4. k + j \in Int
  OBVIOUS
<1> QED
  BY <1>3, <1>4 DEF OnGrid

-----------------------------------------------------------------------------
(* The steps *)

\* The invariant holds before the thread reads its start.
LEMMA TimerIndInit == TimerInit => TimerInd
<1> SUFFICES ASSUME TimerInit
             PROVE  TimerInd
  OBVIOUS
<1>a. abstime \in BOOLEAN /\ preempted \in BOOLEAN
  BY Zenon DEF TimerInit
<1>b. 0 \in Nat /\ 0 \in Int
  OBVIOUS
<1>1. TimerTypeInv
  BY <1>a, <1>b, Zenon DEF TimerInit, TimerTypeInv
<1>2. Phase
  BY DEF TimerInit, Phase
<1>3. Clocks
  BY DEF TimerInit, Clocks
<1>4. Timer
  BY DEF TimerInit, Timer
<1> QED
  BY <1>1, <1>2, <1>3, <1>4 DEF TimerInd

\* Time passes; the thread may have been preempted where that matters.
LEMMA TickStep ==
  ASSUME TimerInd, Tick
  PROVE  TimerInd'
<1>1. TimerTypeInv'
  BY DEF TimerInd, TimerTypeInv, Tick, parVars
<1>2. Phase'
  BY DEF TimerInd, Phase, OnGrid, Tick, parVars
<1>3. Clocks'
  BY DEF TimerInd, TimerTypeInv, Clocks, Tick, parVars
<1>4. Timer'
  BY IntervalPositive DEF TimerInd, TimerTypeInv, Timer, Tick, parVars
<1> QED
  BY <1>1, <1>2, <1>3, <1>4 DEF TimerInd

\* now, start and the first next are set.
LEMMA ReadStartStep ==
  ASSUME TimerInd, ReadStart
  PROVE  TimerInd'
<1>1. TimerTypeInv'
  BY IntervalPositive DEF TimerInd, TimerTypeInv, ReadStart, parVars
<1>2. OnGrid(next)'
  <2>1. next' = start' + 1 * Interval
    BY IntervalPositive DEF TimerInd, TimerTypeInv, ReadStart
  <2> QED
    BY <2>1 DEF OnGrid
<1>3. Phase'
  BY <1>2 DEF TimerInd, TimerTypeInv, Phase, ReadStart, parVars
<1>4. Clocks'
  BY IntervalPositive DEF TimerInd, TimerTypeInv, Clocks, ReadStart, parVars
<1>5. Timer'
  BY IntervalPositive DEF TimerInd, TimerTypeInv, Timer, ReadStart, parVars
<1> QED
  BY <1>1, <1>3, <1>4, <1>5 DEF TimerInd

\* The timer is armed for next, or for an interval from now.
LEMMA ArmTimerStep ==
  ASSUME TimerInd, ArmTimer
  PROVE  TimerInd'
<1>1. TimerTypeInv'
  <2>1. next \in Nat
    BY IntervalPositive DEF TimerInd, TimerTypeInv, Clocks, ArmTimer
  <2> QED
    BY <2>1, IntervalPositive DEF TimerInd, TimerTypeInv, ArmTimer, parVars
<1>2. Phase'
  BY DEF TimerInd, TimerTypeInv, Phase, OnGrid, ArmTimer, parVars
<1>3. Clocks'
  BY IntervalPositive DEF TimerInd, TimerTypeInv, Phase, Clocks, ArmTimer, parVars
<1>4. Timer'
  BY IntervalPositive DEF TimerInd, TimerTypeInv, Clocks, Timer, ArmTimer, parVars
<1> QED
  BY <1>1, <1>2, <1>3, <1>4 DEF TimerInd

\* sigwait accepts the expired timer, which goes on at the first expiry not over.
LEMMA SigwaitStep ==
  ASSUME TimerInd, Sigwait
  PROVE  TimerInd'
<1>0. clock \in Int /\ expiry \in Int /\ clock - expiry \in Int /\ clock >= expiry
  BY DEF TimerInd, TimerTypeInv, Sigwait
<1>1. PICK d \in Int : d = clock - expiry
  BY <1>0
<1>2. PICK r \in Int : r = d % Interval
  BY DivisionByInterval
<1>3. PICK m \in Int : m = overrun' * Interval
  BY <1>1, DivisionByInterval, MultiplesOfInterval DEF Sigwait
<1>4. overrun' \in Int /\ d = m + r /\ 0 <= r /\ r < Interval
  BY <1>1, <1>2, <1>3, DivisionByInterval DEF Sigwait
<1>5. overrun' >= 0 /\ m >= 0
  <2>1. overrun' <= -1 => m <= -Interval
    BY <1>3, <1>4, MultiplesOfInterval
  <2>2. overrun' >= 0
    BY <1>0, <1>1, <1>4, <2>1, IntervalPositive, SMT
  <2> QED
    BY <1>3, <1>4, <2>2, MultiplesOfInterval
<1>6. expiry' = expiry + m + Interval
  <2>1. (overrun' + 1) * Interval = m + Interval
    BY <1>3, <1>4, MultiplesOfInterval
  <2> QED
    BY <1>0, <2>1, IntervalPositive, SMT DEF Sigwait
<1>7. expiry' \in Nat /\ expiry' - Interval <= clock /\ clock < expiry'
  BY <1>0, <1>1, <1>4, <1>5, <1>6, IntervalPositive, SMT DEF TimerInd, TimerTypeInv
<1>8. TimerTypeInv'
  BY <1>4, <1>5, <1>7 DEF TimerInd, TimerTypeInv, Sigwait, parVars
<1>9. Phase'
  BY DEF TimerInd, TimerTypeInv, Phase, OnGrid, Sigwait, parVars
<1>10. Clocks'
  BY DEF TimerInd, TimerTypeInv, Clocks, Sigwait, parVars
<1>11. Timer'
  BY <1>7 DEF TimerInd, TimerTypeInv, Timer, Sigwait, parVars
<1> QED
  BY <1>8, <1>9, <1>10, <1>11 DEF TimerInd

\* The absolute sleep ends at next or later.
LEMMA SleepUntilNextStep ==
  ASSUME TimerInd, SleepUntilNext
  PROVE  TimerInd'
<1>1. TimerTypeInv'
  BY DEF TimerInd, TimerTypeInv, SleepUntilNext, parVars
<1>2. Phase'
  BY DEF TimerInd, TimerTypeInv, Phase, OnGrid, SleepUntilNext, parVars
<1>3. Clocks'
  BY DEF TimerInd, TimerTypeInv, Clocks, SleepUntilNext, parVars
<1>4. Timer'
  BY DEF TimerInd, TimerTypeInv, Timer, SleepUntilNext, parVars
<1> QED
  BY <1>1, <1>2, <1>3, <1>4 DEF TimerInd

\* The relative sleep starts with a clock reading.
LEMMA BeginRelativeStep ==
  ASSUME TimerInd, BeginRelative
  PROVE  TimerInd'
<1>1. TimerTypeInv'
  BY DEF TimerInd, TimerTypeInv, BeginRelative, parVars
<1>2. Phase'
  BY DEF TimerInd, TimerTypeInv, Phase, OnGrid, BeginRelative, parVars
<1>3. Clocks'
  BY DEF TimerInd, TimerTypeInv, Clocks, BeginRelative, parVars
<1>4. Timer'
  BY DEF TimerInd, TimerTypeInv, Timer, BeginRelative, parVars
<1> QED
  BY <1>1, <1>2, <1>3, <1>4 DEF TimerInd

\* The relative sleep starts: next follows from the clock that was read.
LEMMA EnterRelativeStep ==
  ASSUME TimerInd, EnterRelative
  PROVE  TimerInd'
<1>1. TimerTypeInv'
  BY IntervalPositive DEF TimerInd, TimerTypeInv, EnterRelative, parVars
<1>2. Phase'
  BY DEF TimerInd, TimerTypeInv, Phase, EnterRelative, parVars
<1>3. Clocks'
  BY IntervalPositive DEF TimerInd, TimerTypeInv, Phase, Clocks, EnterRelative, parVars
<1>4. Timer'
  BY DEF TimerInd, TimerTypeInv, Phase, Timer, EnterRelative, parVars
<1> QED
  BY <1>1, <1>2, <1>3, <1>4 DEF TimerInd

\* The relative sleep ends an interval after it was entered, or later.
LEMMA EndRelativeStep ==
  ASSUME TimerInd, EndRelative
  PROVE  TimerInd'
<1>1. TimerTypeInv'
  BY DEF TimerInd, TimerTypeInv, EndRelative, parVars
<1>2. Phase'
  BY DEF TimerInd, TimerTypeInv, Phase, OnGrid, EndRelative, parVars
<1>3. Clocks'
  BY DEF TimerInd, TimerTypeInv, Clocks, EndRelative, parVars
<1>4. Timer'
  BY DEF TimerInd, TimerTypeInv, Phase, Timer, EndRelative, parVars
<1> QED
  BY <1>1, <1>2, <1>3, <1>4 DEF TimerInd

\* The thread reads the clock and measures.
LEMMA ReadClockStep ==
  ASSUME TimerInd, ReadClock
  PROVE  TimerInd'
<1>1. TimerTypeInv'
  BY DEF TimerInd, TimerTypeInv, ReadClock, parVars
<1>2. Phase'
  BY DEF TimerInd, TimerTypeInv, Phase, OnGrid, ReadClock, parVars
<1>3. Clocks'
  BY DEF TimerInd, TimerTypeInv, Clocks, ReadClock, parVars
<1>4. ~preempted => clock >= next
  <2>1. PICK m \in Int : m = overrun * Interval
    BY MultiplesOfInterval DEF TimerInd, TimerTypeInv
  <2>2. m >= 0 /\ (overrun + 1) * Interval = m + Interval
    BY <2>1, MultiplesOfInterval DEF TimerInd, TimerTypeInv
  <2>3. CASE mode = "cyclic" /\ ~preempted
    <3>1. expiry = next + m + Interval /\ expiry - Interval <= clock
      BY <2>2, <2>3, IntervalPositive DEF TimerInd, TimerTypeInv, Timer, ReadClock
    <3> QED
      BY <2>2, <3>1, IntervalPositive, SMT DEF TimerInd, TimerTypeInv
  <2>4. CASE mode = "nanosleep"
    BY <2>4 DEF TimerInd, TimerTypeInv, Clocks, ReadClock
  <2> QED
    BY <2>3, <2>4 DEF TimerInd, TimerTypeInv
<1>5. Timer'
  BY <1>4 DEF TimerInd, TimerTypeInv, Timer, ReadClock, parVars
<1> QED
  BY <1>1, <1>2, <1>3, <1>5 DEF TimerInd

\* An unpreempted thread with a timer has nothing to skip: the timer's overruns have
\* taken next beyond now.
LEMMA AdvanceStep ==
  ASSUME TimerInd, Advance
  PROVE  TimerInd'
<1> DEFINE j == 1 + (IF mode = "cyclic" THEN overrun ELSE 0)
<1>1. PICK m \in Int : m = overrun * Interval
  BY MultiplesOfInterval DEF TimerInd, TimerTypeInv
<1>2. PICK b \in Int : b = next + Interval + (IF mode = "cyclic" THEN m ELSE 0)
  BY IntervalPositive DEF TimerInd, TimerTypeInv
<1>3. next' = SkipTo(b)
  BY <1>1, <1>2 DEF Advance
<1>4. now \in Int /\ next \in Int /\ start \in Int
  BY DEF TimerInd, TimerTypeInv
<1>5. /\ next' \in Int /\ now <= next'
      /\ now <= b => next' = b
      /\ now > b => next' < now + Interval
      /\ \E i \in Int : next' = b + i * Interval
  BY <1>3, <1>4, Skip
<1>6. TimerTypeInv'
  BY <1>5 DEF TimerInd, TimerTypeInv, Advance, parVars
<1>7. Phase'
  <2>1. mode = "cyclic" \/ abstime => OnGrid(next')
    <3> SUFFICES ASSUME mode = "cyclic" \/ abstime
                 PROVE  OnGrid(next')
      OBVIOUS
    <3>1. OnGrid(next)
      BY DEF TimerInd, Phase, Advance
    <3>2. \E i \in Int : b = next + i * Interval
      <4>1. CASE mode = "cyclic"
        <5>1. b = next + (overrun + 1) * Interval
          BY <1>1, <1>2, <1>4, <4>1, MultiplesOfInterval, IntervalPositive DEF TimerInd, TimerTypeInv
        <5> QED
          BY <5>1 DEF TimerInd, TimerTypeInv
      <4>2. CASE mode # "cyclic"
        <5>1. b = next + 1 * Interval
          BY <1>2, <1>4, <4>2, IntervalPositive
        <5> QED
          BY <5>1
      <4> QED
        BY <4>1, <4>2
    <3>3. OnGrid(b)
      BY <1>4, <3>1, <3>2, GridStep
    <3> QED
      BY <1>4, <1>5, <3>3, GridStep
  <2>2. OnGrid(next)' <=> OnGrid(next')
    BY DEF OnGrid, Advance
  <2> QED
    BY <2>1, <2>2 DEF TimerInd, TimerTypeInv, Phase, Advance, parVars
<1>8. Clocks'
  BY <1>5 DEF TimerInd, TimerTypeInv, Clocks, Advance, parVars
<1>9. Timer'
  <2>1. CASE mode = "nanosleep"
    <3>1. b <= now + Interval
      BY <1>2, <2>1, IntervalPositive DEF TimerInd, TimerTypeInv, Clocks, Advance
    <3>2. next' <= now + Interval
      BY <1>4, <1>5, <3>1, IntervalPositive, SMT
    <3> QED
      BY <2>1, <3>2 DEF TimerInd, TimerTypeInv, Timer, Advance, parVars
  <2>2. CASE mode = "cyclic" /\ ~preempted
    <3>1. (overrun + 1) * Interval = m + Interval
      BY <1>1, MultiplesOfInterval DEF TimerInd, TimerTypeInv
    <3>2. b = expiry
      BY <1>2, <1>4, <2>2, <3>1, IntervalPositive DEF TimerInd, TimerTypeInv, Timer, Advance
    <3>3. next' = expiry /\ next' <= now + Interval
      BY <1>5, <2>2, <3>2, IntervalPositive DEF TimerInd, TimerTypeInv, Timer, Advance
    <3> QED
      BY <2>2, <3>3 DEF TimerInd, TimerTypeInv, Timer, Advance, parVars
  <2>3. CASE preempted
    BY <2>3 DEF Timer, Advance
  <2> QED
    BY <2>1, <2>2, <2>3 DEF TimerInd, TimerTypeInv
<1> QED
  BY <1>6, <1>7, <1>8, <1>9 DEF TimerInd

\* Nothing happens.
LEMMA StutterStep ==
  ASSUME TimerInd, UNCHANGED timerVars
  PROVE  TimerInd'
  BY DEF TimerInd, TimerTypeInv, Phase, OnGrid, Clocks, Timer, timerVars

\* The invariant is inductive: it holds in every state of every run.
THEOREM TimerInvariance == TimerSpec => []TimerInd
<1>1. TimerInd /\ [TimerNext]_timerVars => TimerInd'
  <2> SUFFICES ASSUME TimerInd, [TimerNext]_timerVars
               PROVE  TimerInd'
    OBVIOUS
  <2> QED
    BY TickStep, ReadStartStep, ArmTimerStep, SigwaitStep, SleepUntilNextStep,
       BeginRelativeStep, EnterRelativeStep, EndRelativeStep, ReadClockStep,
       AdvanceStep, StutterStep DEF TimerNext, OutOfTime
<1> QED
  BY <1>1, TimerIndInit, PTL DEF TimerSpec

-----------------------------------------------------------------------------
(* The properties *)

\* No sleeping mode measures a wakeup before its time (the unsigned diff would be
\* enormous), whatever the interval and the clock, unless the timer's thread was
\* preempted where it compares the two.
THEOREM NoEarlyWakeup == TimerSpec => []NeverEarly
<1>1. TimerInd => NeverEarly
  BY DEF TimerInd, TimerTypeInv, Timer, NeverEarly
<1> QED
  BY <1>1, TimerInvariance, PTL

\* next keeps the phase of the first wakeup and, when the thread waits, is the first
\* such time that is not over: latencies neither drift nor pile up.
THEOREM NoDrift == TimerSpec => []NextIsNearest
<1>1. TimerInd => NextIsNearest
  <2> SUFFICES ASSUME TimerInd
               PROVE  NextIsNearest
    OBVIOUS
  <2>1. tpc # "start" /\ (mode = "cyclic" \/ abstime) => (next - start) % Interval = 0
    <3> SUFFICES ASSUME OnGrid(next)
                 PROVE  (next - start) % Interval = 0
      BY DEF TimerInd, Phase
    <3>1. PICK k \in Int : next = start + k * Interval
      BY DEF OnGrid
    <3>2. k * Interval \in Int
      BY MultiplesOfInterval
    <3>3. next - start = k * Interval
      BY <3>1, <3>2 DEF TimerInd, TimerTypeInv
    <3> QED
      BY <3>3, WholeIntervals
  <2> QED
    BY <2>1 DEF TimerInd, TimerTypeInv, Clocks, Timer, NextIsNearest
<1> QED
  BY <1>1, TimerInvariance, PTL

\* With a cyclic timer the time the thread measures against is the time the timer
\* expires next, whatever timer_getoverrun() returned, unless it was preempted.
THEOREM InStep == TimerSpec => []InStepWithTimer
<1>1. TimerInd => InStepWithTimer
  BY DEF TimerInd, TimerTypeInv, Timer, InStepWithTimer
<1> QED
  BY <1>1, TimerInvariance, PTL

-----------------------------------------------------------------------------
(***************************************************************************)
(* CyclicStats, for any latencies that are not negative, any histogram,    *)
(* reduction and size of the ring, and any interleaving of the measuring   *)
(* thread with main's print_stat.                                          *)
(***************************************************************************)

\* What the unsigned comparisons of timerthread need: no latency is negative, which is
\* NoEarlyWakeup (and excludes the preempted thread that it excludes), and 64 bits hold
\* a second of microseconds.
NonNegative == Latencies \subseteq Nat /\ InitialMin < Width

-----------------------------------------------------------------------------
(* The inductive invariant *)

\* The types of the variables of CyclicStats.
TypeInv ==
  /\ histogram \in Nat /\ oscope_reduction \in Nat /\ oscope_reduction >= 1
  /\ wpc \in {"wait", "store", "hist", "count"} /\ rpc \in {"sleep", "print"}
  /\ diff \in Nat /\ diff < Width /\ cycles \in Nat
  /\ min \in Nat /\ min < Width /\ max \in Nat /\ max < Width
  /\ values \in [Slots -> Nat]
  /\ cyclesread \in Nat /\ reduce \in Nat /\ redmax \in Nat /\ cycleofmax \in Nat
  /\ output \in Seq(Nat \X Nat) /\ samples \in Seq(Nat) /\ lapped \in BOOLEAN

\* Every cycle has its sample, and print_stat follows the cycles.
Progress ==
  /\ Len(samples) = cycles + (IF wpc = "wait" THEN 0 ELSE 1)
  /\ wpc # "wait" => samples[Len(samples)] = diff
  /\ cyclesread <= cycles

\* min and max bound the samples, and are samples or what they started with.
Bounds ==
  /\ min <= InitialMin /\ \A n \in DOMAIN samples : min <= samples[n]
  /\ min = InitialMin \/ \E n \in DOMAIN samples : min = samples[n]
  /\ \A n \in DOMAIN samples : samples[n] <= max
  /\ max = 0 \/ \E n \in DOMAIN samples : max = samples[n]

\* The samples that are in the ring: StoreValue runs before the cycle is counted.
Stored == cycles + (IF wpc \in {"hist", "count"} THEN 1 ELSE 0)

\* What print_stat has not read yet is still in its slot.
Ring ==
  ~lapped =>
    /\ Stored - cyclesread <= BufSize
    /\ \A c \in Nat :
         cyclesread <= c /\ c < Stored => values[c % BufSize] = samples[c + 1]

\* The first cycle after the last line printed.
Printed == Len(output) * oscope_reduction

\* redmax and cycleofmax describe the window that is being collected.
Partial ==
  /\ cyclesread = Printed + reduce /\ reduce < oscope_reduction
  /\ ~lapped =>
       /\ \A c \in Nat : Printed <= c /\ c < cyclesread => samples[c + 1] <= redmax
       /\ redmax > 0 => /\ Printed <= cycleofmax /\ cycleofmax < cyclesread
                        /\ samples[cycleofmax + 1] = redmax

\* A printed line bounds the samples of its window, and has one of them or is 0.
Line(j) ==
  /\ \A c \in Window(j) : c \in Nat /\ c < cyclesread /\ samples[c + 1] <= output[j][2]
  /\ output[j][2] > 0 => /\ output[j][1] \in Window(j)
                         /\ output[j][2] = samples[output[j][1] + 1]

Lines == ~lapped => \A j \in DOMAIN output : Line(j)

\* The samples that are in the histogram, and of the first m those of bin k and those
\* above all bins.
Binned     == Len(samples) - (IF wpc \in {"store", "hist"} THEN 1 ELSE 0)
InBin(k, m) == {n \in 1 .. m : samples[n] = k}
Above(m)    == {n \in 1 .. m : U(samples[n]) >= histogram}

\* The bins and the overflow count, and how many outliers are listed: all of them
\* until the list is full.
Counted ==
  /\ hist_array \in [Bins -> Nat] /\ hist_overflow \in Nat /\ outliers \in Seq(Nat)
  /\ \A k \in Bins : hist_array[k] = Cardinality(InBin(k, Binned))
  /\ histogram > 0 =>
       /\ hist_overflow = Cardinality(Above(Binned))
       /\ Len(outliers) = IF hist_overflow < histogram THEN hist_overflow ELSE histogram
  /\ histogram = 0 => Len(outliers) = 0
  /\ \A j \in 1 .. Len(outliers) :
       /\ outliers[j] + 1 <= Binned /\ U(samples[outliers[j] + 1]) >= histogram
       /\ Cardinality(Above(outliers[j] + 1)) = j

Ind == NonNegative /\ TypeInv /\ Progress /\ Bounds /\ Ring /\ Partial /\ Lines /\ Counted

-----------------------------------------------------------------------------
(* Arithmetic and sequences *)

\* The initial min is a number of microseconds.
LEMMA SecondIsNat == InitialMin \in Nat
  BY SMT DEF InitialMin

\* A number is a multiple of the divisor and its remainder.
LEMMA Division ==
  ASSUME NEW v \in Nat, v >= 1, NEW a \in Int
  PROVE  \E q \in Int, r \in Int : r = a % v /\ a = (q * v) + r
<1>1. a \div v \in Int /\ a % v \in Int
  BY SMT
<1>2. a = ((a \div v) * v) + (a % v)
  BY SMT
<1> QED
  BY <1>1, <1>2

\* Two cycles less than a ring apart have different slots.
LEMMA SlotsDiffer ==
  ASSUME NEW a \in Int, NEW b \in Int, a < b, b - a < BufSize
  PROVE  a % BufSize # b % BufSize
<1>0. BufSize \in Nat /\ BufSize >= 1
  BY ConstantsAssumption
<1>1. PICK p \in Int, r \in Int : r = a % BufSize /\ a = (p * BufSize) + r
  BY <1>0, Division, Zenon
<1>2. PICK q \in Int, s \in Int : s = b % BufSize /\ b = (q * BufSize) + s
  BY <1>0, Division, Zenon
<1> SUFFICES ASSUME s = r
             PROVE  FALSE
  BY <1>1, <1>2, Zenon
<1>3. PICK x \in Int : x = p * BufSize
  BY <1>0, SMT
<1>4. PICK y \in Int : y = q * BufSize
  BY <1>0, SMT
<1>5. PICK d \in Int : d = q - p
  BY SMT
<1>6. d * BufSize = y - x
  BY <1>0, <1>3, <1>4, <1>5, SMT
<1>7. (d >= 1 => d * BufSize >= BufSize) /\ (d <= 0 => d * BufSize <= 0)
  BY <1>0, SMT
<1>8. y - x > 0 /\ y - x < BufSize
  <2>1. a = x + r /\ b = y + r
    BY <1>1, <1>2, <1>3, <1>4, Zenon
  <2> QED
    BY <1>0, <2>1, SMT
<1> QED
  BY <1>0, <1>6, <1>7, <1>8, SMT

\* cycles & bufmsk is an index of values.
LEMMA SlotInRing ==
  ASSUME NEW c \in Nat
  PROVE  c % BufSize \in Slots
  BY ConstantsAssumption, SMT DEF Slots

\* A number below 2^64 that is not negative is its own conversion to uint64_t.
LEMMA ConversionIsIdentity ==
  ASSUME NEW x \in Nat, x < Width
  PROVE  U(x) = x
  BY ConstantsAssumption, SMT DEF U

\* What Append does to the length, the old elements and the new one.
LEMMA AppendFacts ==
  ASSUME NEW S, NEW s \in Seq(S), NEW e \in S
  PROVE  /\ Append(s, e) \in Seq(S) /\ Len(Append(s, e)) = Len(s) + 1
         /\ Append(s, e)[Len(s) + 1] = e
         /\ \A n \in 1 .. Len(s) : Append(s, e)[n] = s[n]
         /\ DOMAIN s = 1 .. Len(s) /\ DOMAIN Append(s, e) = 1 .. (Len(s) + 1)
         /\ Len(s) \in Nat
  OBVIOUS

\* The first m + 1 positions are the first m and one more.
LEMMA OneMore ==
  ASSUME NEW m \in Nat
  PROVE  1 .. (m + 1) = (1 .. m) \cup {m + 1}
  OBVIOUS

\* One more position makes the count of a set of positions one larger.
LEMMA CountOneMore ==
  ASSUME NEW m \in Nat, NEW T \in SUBSET (1 .. m)
  PROVE  Cardinality(T \cup {m + 1}) = Cardinality(T) + 1
<1>1. IsFiniteSet(T)
  <2>1. 1 \in Int /\ m \in Int
    OBVIOUS
  <2>2. IsFiniteSet(1 .. m)
    BY <2>1, FS_Interval, Zenon
  <2> QED
    BY <2>2, FS_Subset, Zenon
<1>2. m + 1 \notin T
  OBVIOUS
<1> QED
  BY <1>1, <1>2, FS_AddElement

\* The windows of successive lines follow each other, and none is empty.
LEMMA WindowFacts ==
  ASSUME NEW j \in Nat, j >= 1, oscope_reduction \in Nat, oscope_reduction >= 1
  PROVE  /\ (j - 1) * oscope_reduction \in Nat
         /\ j * oscope_reduction = ((j - 1) * oscope_reduction) + oscope_reduction
         /\ j * oscope_reduction \in Nat
<1>1. PICK x \in Nat : x = (j - 1) * oscope_reduction
  BY SMT
<1>2. j * oscope_reduction = x + oscope_reduction
  BY <1>1, SMT
<1> QED
  BY <1>1, <1>2, SMT

\* A bound of a set that is a member of it is its extreme.
LEMMA MaxIs ==
  ASSUME NEW S \in SUBSET Int, NEW m \in S, \A y \in S : y <= m
  PROVE  Max(S) = m
<1>1. \A y \in S : m >= y
  OBVIOUS
<1>2. Max(S) \in S /\ \A y \in S : Max(S) >= y
  BY <1>1 DEF Max
<1>3. PICK w \in S : w = Max(S)
  BY <1>2, Zenon
<1>4. w >= m /\ w <= m /\ w \in Int
  BY <1>2, <1>3
<1>5. w = m
  BY <1>4, SMT
<1> QED
  BY <1>3, <1>5, Zenon

\* The same for the smallest.
LEMMA MinIs ==
  ASSUME NEW S \in SUBSET Int, NEW m \in S, \A y \in S : m <= y
  PROVE  Min(S) = m
<1>1. Min(S) \in S /\ \A y \in S : Min(S) <= y
  BY DEF Min
<1>2. PICK w \in S : w = Min(S)
  BY <1>1, Zenon
<1>3. w >= m /\ w <= m /\ w \in Int
  BY <1>1, <1>2
<1>4. w = m
  BY <1>3, SMT
<1> QED
  BY <1>2, <1>4, Zenon

-----------------------------------------------------------------------------
(* The steps *)

\* The invariant holds before the first cycle.
LEMMA IndInit == NonNegative /\ Init => Ind
<1> SUFFICES ASSUME NonNegative, Init
             PROVE  Ind
  OBVIOUS
<1>0. Len(samples) = 0 /\ DOMAIN samples = {} /\ Len(output) = 0 /\ DOMAIN output = {}
  BY DEF Init
<1>1. TypeInv
  <2>1. histogram \in Nat /\ oscope_reduction \in Nat /\ oscope_reduction >= 1
    BY ConstantsAssumption DEF Init
  <2>2. min \in Nat /\ min < Width /\ max \in Nat /\ max < Width
    BY ConstantsAssumption, SecondIsNat DEF Init, NonNegative
  <2>3. values \in [Slots -> Nat]
    BY DEF Init
  <2>4. output \in Seq(Nat \X Nat) /\ samples \in Seq(Nat)
    BY DEF Init
  <2> QED
    BY <2>1, <2>2, <2>3, <2>4 DEF Init, TypeInv
<1>2. Progress
  BY <1>0 DEF Init, Progress
<1>3. Bounds
  BY <1>0, SecondIsNat DEF Init, Bounds
<1>4. Ring
  BY ConstantsAssumption DEF Init, Ring, Stored
<1>5. Partial
  BY <1>0, <1>1 DEF Init, Partial, Printed, TypeInv
<1>6. Lines
  BY <1>0 DEF Lines
<1>7. Counted
  <2>1. Binned = 0 /\ Len(outliers) = 0 /\ outliers \in Seq(Nat) /\ hist_overflow = 0
    BY <1>0 DEF Init, Binned
  <2>2. Above(0) = {} /\ \A k : InBin(k, 0) = {}
    BY DEF Above, InBin
  <2>3. hist_array \in [Bins -> Nat] /\ \A k \in Bins : hist_array[k] = 0
    BY DEF Init
  <2> QED
    <3>1. /\ Cardinality(Above(Binned)) = 0
          /\ \A k \in Bins : Cardinality(InBin(k, Binned)) = 0
      BY <2>1, <2>2, FS_EmptySet, Zenon
    <3>2. histogram \in Nat
      BY <1>1 DEF TypeInv
    <3> QED
      BY <2>1, <2>3, <3>1, <3>2 DEF Counted
<1> QED
  BY <1>1, <1>2, <1>3, <1>4, <1>5, <1>6, <1>7 DEF Ind

\* A step that leaves the histogram and the samples in it alone keeps Counted.
LEMMA CountedFrame ==
  ASSUME Ind, UNCHANGED <<histogram, hist_array, hist_overflow, outliers>>,
         Binned' = Binned, \A n \in 1 .. Binned : samples'[n] = samples[n]
  PROVE  Counted'
<1>0. Binned \in Nat
  BY DEF Ind, TypeInv, Progress, Binned
<1>1. \A k : InBin(k, Binned)' = InBin(k, Binned)
  BY DEF InBin
<1>2. ASSUME NEW m \in Nat, m <= Binned
      PROVE  {n \in 1 .. m : U(samples'[n]) >= histogram'} = Above(m)
  <2>1. \A n \in 1 .. m : samples'[n] = samples[n]
    BY <1>0, <1>2
  <2> QED
    BY <2>1 DEF Above
<1>3. Above(Binned)' = Above(Binned)
  BY <1>0, <1>2 DEF Above
<1>4. ASSUME NEW j \in 1 .. Len(outliers')
      PROVE  /\ outliers'[j] + 1 <= Binned' /\ U(samples'[outliers'[j] + 1]) >= histogram'
             /\ Cardinality(Above(outliers[j] + 1)') = j
  <2>1. /\ outliers[j] \in Nat /\ outliers[j] + 1 <= Binned
        /\ U(samples[outliers[j] + 1]) >= histogram
        /\ Cardinality(Above(outliers[j] + 1)) = j
    BY DEF Ind, Counted
  <2>2. Above(outliers[j] + 1)' = Above(outliers[j] + 1)
    BY <1>2, <2>1 DEF Above
  <2>3. samples'[outliers[j] + 1] = samples[outliers[j] + 1]
    BY <1>0, <2>1
  <2> QED
    BY <2>1, <2>2, <2>3
<1>5. Bins' = Bins
  BY DEF Bins
<1> QED
  BY <1>1, <1>3, <1>4, <1>5 DEF Ind, Counted

\* The new latency extends the samples and moves min and max where it passes them.
LEMMA MeasureStep ==
  ASSUME Ind, Measure
  PROVE  Ind'
<1> USE DEF Ind
<1>0. PICK d \in Latencies :
        /\ diff' = d
        /\ min' = IF U(d) < U(min) THEN d ELSE min
        /\ max' = IF U(d) > U(max) THEN d ELSE max
        /\ samples' = Append(samples, d)
  BY DEF Measure
<1>1. d \in Nat /\ d < Width
  BY ConstantsAssumption DEF NonNegative
<1>2. U(d) = d /\ U(min) = min /\ U(max) = max
  BY <1>1, ConversionIsIdentity DEF TypeInv
<1>3. /\ samples' \in Seq(Nat) /\ Len(samples') = Len(samples) + 1
      /\ samples'[Len(samples) + 1] = d
      /\ \A n \in 1 .. Len(samples) : samples'[n] = samples[n]
      /\ DOMAIN samples = 1 .. Len(samples) /\ DOMAIN samples' = 1 .. (Len(samples) + 1)
      /\ Len(samples) \in Nat
  BY <1>0, <1>1, AppendFacts DEF TypeInv
<1>4. UNCHANGED <<optVars, cycles, values, readerVars, lapped>>
      /\ wpc = "wait" /\ wpc' = "store"
  BY DEF Measure
<1>5. Len(samples) = cycles
  BY <1>4 DEF Progress, TypeInv
<1>14. \A c \in Nat : c < cyclesread => samples'[c + 1] = samples[c + 1]
  <2>1. cyclesread \in Nat /\ cyclesread <= Len(samples)
    BY <1>5 DEF Progress, TypeInv
  <2>2. ASSUME NEW c \in Nat, c < cyclesread
        PROVE  c + 1 \in 1 .. Len(samples)
    BY <1>3, <2>1, <2>2
  <2> QED
    BY <1>3, <2>2
<1>6. TypeInv'
  BY <1>0, <1>1, <1>3, <1>4 DEF TypeInv, optVars, readerVars, Slots
<1>7. Progress'
  BY <1>0, <1>3, <1>4, <1>5 DEF Progress, TypeInv, readerVars
<1>8. Bounds'
  <2>1. min' = (IF d < min THEN d ELSE min) /\ max' = (IF d > max THEN d ELSE max)
    BY <1>0, <1>2
  <2>2. \A n \in DOMAIN samples' : n \in DOMAIN samples \/ n = Len(samples) + 1
    BY <1>3
  <2>3. DOMAIN samples \subseteq DOMAIN samples' /\ Len(samples) + 1 \in DOMAIN samples'
    BY <1>3
  <2>4. \A n \in DOMAIN samples : samples[n] \in Nat /\ samples'[n] = samples[n]
    BY <1>3 DEF TypeInv
  <2>5. min \in Nat /\ max \in Nat
    BY DEF TypeInv
  <2>6. /\ min' \in Nat /\ min' <= min /\ min' <= d
        /\ max' \in Nat /\ max <= max' /\ d <= max'
    BY <1>1, <2>1, <2>5
  <2>7. min' <= InitialMin
    BY <2>5, <2>6, SecondIsNat DEF Bounds
  <2>8. ASSUME NEW n \in DOMAIN samples'
        PROVE  min' <= samples'[n] /\ samples'[n] <= max'
    <3>1. CASE n \in DOMAIN samples
      BY <2>4, <2>5, <2>6, <3>1 DEF Bounds
    <3>2. CASE n = Len(samples) + 1
      BY <1>3, <2>6, <3>2
    <3> QED
      BY <2>2, <3>1, <3>2
  <2>9. min' = InitialMin \/ \E n \in DOMAIN samples' : min' = samples'[n]
    BY <1>3, <2>1, <2>3, <2>4 DEF Bounds
  <2>10. max' = 0 \/ \E n \in DOMAIN samples' : max' = samples'[n]
    BY <1>3, <2>1, <2>3, <2>4 DEF Bounds
  <2> QED
    BY <2>7, <2>8, <2>9, <2>10 DEF Bounds
<1>9. Ring'
  <2>1. Stored = cycles /\ Stored' = cycles
    BY <1>4 DEF Stored, TypeInv
  <2> QED
    BY <1>3, <1>4, <1>5, <2>1 DEF Ring, TypeInv, readerVars
<1>10. Partial'
  <2>1. Printed' = Printed
    BY <1>4 DEF Printed, optVars, readerVars
  <2>2. \A c \in Nat : c < cyclesread => samples'[c + 1] = samples[c + 1]
    BY <1>14
  <2> QED
    BY <1>4, <2>1, <2>2 DEF Partial, optVars, readerVars, TypeInv
<1>11. Lines'
  <2> SUFFICES ASSUME ~lapped, NEW j \in DOMAIN output
               PROVE  Line(j)'
    BY <1>4 DEF Lines, readerVars
  <2>1. Line(j) /\ Window(j)' = Window(j)
    BY <1>4 DEF Lines, Window, optVars
  <2>2. \A c \in Nat : c < cyclesread => samples'[c + 1] = samples[c + 1]
    BY <1>14
  <2> QED
    BY <1>4, <2>1, <2>2 DEF Line, readerVars
<1>12. Counted'
  <2>1. Binned = Len(samples) /\ Binned' = Len(samples)
    BY <1>3, <1>4 DEF Binned
  <2>2. UNCHANGED <<histogram, hist_array, hist_overflow, outliers>>
    BY DEF Measure, optVars
  <2> QED
    BY <1>3, <2>1, <2>2, CountedFrame
<1> QED
  BY <1>6, <1>7, <1>8, <1>9, <1>10, <1>11, <1>12 DEF NonNegative

\* The value goes to a slot that print_stat has read, or the ring is lapped.
LEMMA StoreValueStep ==
  ASSUME Ind, StoreValue
  PROVE  Ind'
<1> USE DEF Ind
<1>1. /\ wpc = "store" /\ wpc' = "hist"
      /\ values' = [values EXCEPT ![cycles % BufSize] = diff]
      /\ lapped' = (lapped \/ cycles - cyclesread >= BufSize)
      /\ UNCHANGED <<optVars, diff, cycles, min, max, readerVars, samples>>
  BY DEF StoreValue
<1>2. BufSize \in Nat /\ BufSize >= 1
  BY ConstantsAssumption
<1>3. TypeInv'
  BY <1>1 DEF TypeInv, optVars, readerVars, Slots
<1>4. Progress'
  BY <1>1 DEF Progress, readerVars
<1>5. Bounds'
  BY <1>1 DEF Bounds
<1>6. Ring'
  <2> SUFFICES ASSUME ~lapped'
               PROVE  /\ Stored' - cyclesread' <= BufSize
                      /\ \A c \in Nat : cyclesread' <= c /\ c < Stored' =>
                           values'[c % BufSize] = samples'[c + 1]
    BY DEF Ring
  <2>1. ~lapped /\ ~(cycles - cyclesread >= BufSize)
    BY <1>1, Zenon
  <2>2. cycles \in Nat /\ cyclesread \in Nat
    BY DEF TypeInv
  <2>3. ~lapped /\ cycles - cyclesread < BufSize
    BY <1>2, <2>1, <2>2
  <2>4. Stored = cycles /\ Stored' = cycles + 1 /\ cyclesread' = cyclesread
        /\ samples' = samples
    BY <1>1, <2>2 DEF Stored, readerVars
  <2>5. Stored' - cyclesread' <= BufSize
    BY <1>2, <2>3, <2>4, <2>2
  <2>6. ASSUME NEW c \in Nat, cyclesread <= c, c < cycles + 1
        PROVE  values'[c % BufSize] = samples[c + 1]
    <3>1. c % BufSize \in Slots /\ cycles % BufSize \in Slots
      BY SlotInRing DEF TypeInv
    <3>2. CASE c = cycles
      <4>1. samples[c + 1] = diff
        BY <1>1, <3>2 DEF Progress
      <4> QED
        BY <1>1, <3>1, <3>2, <4>1 DEF TypeInv
    <3>3. CASE c < cycles
      <4>1. c % BufSize # cycles % BufSize
        <5>1. cycles - c < BufSize
          BY <1>2, <2>3, <2>6, <2>2
        <5> QED
          BY <2>2, <3>3, <5>1, SlotsDiffer
      <4>2. values[c % BufSize] = samples[c + 1]
        BY <2>3, <2>4, <2>6, <3>3 DEF Ring
      <4> QED
        BY <1>1, <3>1, <4>1, <4>2 DEF TypeInv
    <3> QED
      BY <2>6, <3>2, <3>3 DEF TypeInv
  <2> QED
    BY <2>4, <2>5, <2>6
<1>7. Partial'
  BY <1>1 DEF Partial, Printed, optVars, readerVars
<1>8. Lines'
  BY <1>1 DEF Lines, Line, Window, optVars, readerVars
<1>9. Counted'
  <2>1. Binned' = Binned /\ UNCHANGED <<histogram, hist_array, hist_overflow, outliers>>
    BY <1>1 DEF Binned, StoreValue, optVars
  <2> QED
    BY <1>1, <2>1, CountedFrame
<1> QED
  BY <1>3, <1>4, <1>5, <1>6, <1>7, <1>8, <1>9 DEF NonNegative

\* The sample gets its bin, or counts as an overflow and is listed while there is room.
LEMMA UpdateHistogramStep ==
  ASSUME Ind, UpdateHistogram
  PROVE  Ind'
<1> USE DEF Ind
<1>1. /\ wpc = "hist" /\ wpc' = "count"
      /\ UNCHANGED <<optVars, diff, cycles, min, max, values, readerVars, samples, lapped>>
  BY DEF UpdateHistogram
<1>2. TypeInv'
  BY <1>1 DEF TypeInv, optVars, readerVars, Slots
<1>3. Progress' /\ Bounds'
  BY <1>1 DEF Progress, Bounds, readerVars
<1>4. Ring'
  BY <1>1 DEF Ring, Stored, readerVars
<1>5. Partial' /\ Lines'
  BY <1>1 DEF Partial, Printed, Lines, Line, Window, optVars, readerVars
<1>6. Counted'
  <2>1. /\ Binned = cycles /\ Binned' = cycles + 1 /\ Binned \in Nat
        /\ samples[Binned + 1] = diff
    BY <1>1 DEF Binned, Progress, TypeInv
  <2>2. /\ histogram' = histogram /\ Bins' = Bins /\ diff \in Nat /\ U(diff) = diff
        /\ histogram \in Nat
    BY <1>1, ConversionIsIdentity DEF TypeInv, Bins, optVars
  <2>3. \A k : InBin(k, Binned)' = InBin(k, Binned + 1)
    BY <1>1, <2>1 DEF InBin
  <2>4. Above(Binned)' = Above(Binned + 1)
    BY <1>1, <2>1, <2>2 DEF Above
  <2>5. \A k : InBin(k, Binned + 1) =
                 IF diff = k THEN InBin(k, Binned) \cup {Binned + 1} ELSE InBin(k, Binned)
    BY <2>1, OneMore DEF InBin
  <2>6. Above(Binned + 1) =
          IF diff >= histogram THEN Above(Binned) \cup {Binned + 1} ELSE Above(Binned)
    BY <2>1, <2>2, OneMore DEF Above
  <2>7. \A k : Cardinality(InBin(k, Binned) \cup {Binned + 1})
                 = Cardinality(InBin(k, Binned)) + 1
    <3>1. \A k : InBin(k, Binned) \in SUBSET (1 .. Binned)
      BY DEF InBin
    <3> QED
      BY <2>1, <3>1, CountOneMore
  <2>8. Cardinality(Above(Binned) \cup {Binned + 1}) = Cardinality(Above(Binned)) + 1
    <3>1. Above(Binned) \in SUBSET (1 .. Binned)
      BY DEF Above
    <3> QED
      BY <2>1, <3>1, CountOneMore
  <2>9. ASSUME NEW j \in 1 .. Len(outliers)
        PROVE  /\ outliers[j] + 1 <= Binned' /\ U(samples'[outliers[j] + 1]) >= histogram'
               /\ outliers'[j] = outliers[j] => Cardinality(Above(outliers[j] + 1)') = j
    <3>1. /\ outliers[j] \in Nat /\ outliers[j] + 1 <= Binned
          /\ U(samples[outliers[j] + 1]) >= histogram
          /\ Cardinality(Above(outliers[j] + 1)) = j
      BY DEF Counted
    <3>2. samples' = samples
      BY <1>1
    <3>3. outliers'[j] = outliers[j] => Above(outliers[j] + 1)' = Above(outliers[j] + 1)
      BY <2>2, <3>2 DEF Above
    <3> QED
      BY <2>1, <2>2, <3>1, <3>2, <3>3
  <2>10. CASE histogram > 0 /\ diff >= histogram
    <3>1. /\ hist_overflow' = hist_overflow + 1 /\ hist_array' = hist_array
          /\ outliers' = IF Len(outliers) < histogram THEN Append(outliers, cycles)
                         ELSE outliers
      BY <2>2, <2>10 DEF UpdateHistogram
    <3>2. \A k \in Bins : diff # k
      BY <2>2, <2>10 DEF Bins
    <3>3. hist_array' \in [Bins' -> Nat]
          /\ \A k \in Bins' : hist_array'[k] = Cardinality(InBin(k, Binned)')
      <4>1. \A k \in Bins : InBin(k, Binned)' = InBin(k, Binned)
        BY <2>3, <2>5, <3>2, Zenon
      <4> QED
        BY <2>2, <3>1, <4>1 DEF Counted
    <3>4. /\ hist_overflow \in Nat /\ hist_overflow = Cardinality(Above(Binned))
          /\ Len(outliers) = IF hist_overflow < histogram THEN hist_overflow ELSE histogram
      BY <2>10 DEF Counted
    <3>5. hist_overflow' \in Nat /\ hist_overflow' = Cardinality(Above(Binned)')
      <4>1. Above(Binned)' = Above(Binned) \cup {Binned + 1}
        BY <2>4, <2>6, <2>10, Zenon
      <4> QED
        BY <2>8, <3>1, <3>4, <4>1
    <3>6. CASE Len(outliers) < histogram
      <4>1. /\ outliers' \in Seq(Nat) /\ Len(outliers') = Len(outliers) + 1
            /\ outliers'[Len(outliers) + 1] = cycles
            /\ \A n \in 1 .. Len(outliers) : outliers'[n] = outliers[n]
            /\ Len(outliers) \in Nat
        BY <3>1, <3>6, AppendFacts DEF Counted, TypeInv
      <4>2. Len(outliers) = hist_overflow
        BY <2>2, <3>4, <3>6
      <4>3. Len(outliers') = IF hist_overflow' < histogram THEN hist_overflow'
                             ELSE histogram
        BY <2>2, <3>1, <3>4, <3>6, <4>1, <4>2
      <4>4. ASSUME NEW j \in 1 .. Len(outliers')
            PROVE  /\ outliers'[j] + 1 <= Binned'
                   /\ U(samples'[outliers'[j] + 1]) >= histogram'
                   /\ Cardinality(Above(outliers[j] + 1)') = j
        <5>1. CASE j \in 1 .. Len(outliers)
          <6>1. outliers'[j] = outliers[j]
            BY <4>1, <5>1
          <6> QED
            BY <2>9, <5>1, <6>1
        <5>2. CASE j = Len(outliers) + 1
          <6>1. outliers'[j] = cycles
            BY <4>1, <5>2
          <6>2. Above(outliers[j] + 1)' = Above(Binned + 1)
            BY <1>1, <2>1, <2>2, <6>1 DEF Above
          <6>3. Cardinality(Above(Binned + 1)) = j
            BY <2>6, <2>8, <2>10, <3>4, <4>2, <5>2
          <6>4. U(samples'[cycles + 1]) >= histogram'
            BY <1>1, <2>1, <2>2, <2>10
          <6> QED
            BY <2>1, <6>1, <6>2, <6>3, <6>4
        <5> QED
          BY <4>1, <5>1, <5>2
      <4> QED
        BY <2>2, <2>10, <3>3, <3>5, <4>1, <4>3, <4>4 DEF Counted
    <3>7. CASE ~(Len(outliers) < histogram)
      <4>1. outliers' = outliers /\ outliers \in Seq(Nat)
        BY <3>1, <3>7 DEF Counted
      <4>2. Len(outliers') = IF hist_overflow' < histogram THEN hist_overflow'
                             ELSE histogram
        BY <2>2, <3>1, <3>4, <3>7, <4>1
      <4>3. ASSUME NEW j \in 1 .. Len(outliers')
            PROVE  /\ outliers'[j] + 1 <= Binned'
                   /\ U(samples'[outliers'[j] + 1]) >= histogram'
                   /\ Cardinality(Above(outliers[j] + 1)') = j
        BY <2>9, <4>1
      <4> QED
        BY <2>2, <2>10, <3>3, <3>5, <4>1, <4>2, <4>3 DEF Counted
    <3> QED
      BY <3>6, <3>7
  <2>11. CASE histogram > 0 /\ diff < histogram
    <3>1. /\ hist_array' = [hist_array EXCEPT ![diff] = @ + 1]
          /\ UNCHANGED <<hist_overflow, outliers>>
      BY <2>2, <2>11 DEF UpdateHistogram
    <3>2. diff \in Bins /\ ~(diff >= histogram)
      BY <2>2, <2>11 DEF Bins
    <3>3. hist_array' \in [Bins' -> Nat]
          /\ \A k \in Bins' : hist_array'[k] = Cardinality(InBin(k, Binned)')
      <4>1. \A k \in Bins :
              /\ k # diff => InBin(k, Binned)' = InBin(k, Binned)
              /\ k = diff => InBin(k, Binned)' = InBin(k, Binned) \cup {Binned + 1}
        BY <2>3, <2>5, Zenon
      <4>2. \A k \in Bins : k = diff =>
              Cardinality(InBin(k, Binned)') = Cardinality(InBin(k, Binned)) + 1
        BY <2>7, <4>1, Zenon
      <4>3. hist_array \in [Bins -> Nat]
            /\ \A k \in Bins : hist_array[k] = Cardinality(InBin(k, Binned))
        BY DEF Counted
      <4>4. hist_array' \in [Bins -> Nat] /\ hist_array'[diff] = hist_array[diff] + 1
            /\ \A k \in Bins : k # diff => hist_array'[k] = hist_array[k]
        BY <3>1, <3>2, <4>3
      <4>5. \A k \in Bins : hist_array'[k] = Cardinality(InBin(k, Binned)')
        <5>1. \A k \in Bins : k # diff => hist_array'[k] = Cardinality(InBin(k, Binned)')
          BY <4>1, <4>3, <4>4, Zenon
        <5>2. \A k \in Bins : k = diff => hist_array'[k] = Cardinality(InBin(k, Binned)')
          BY <4>2, <4>3, <4>4, Zenon
        <5> QED
          BY <5>1, <5>2, Zenon
      <4> QED
        BY <2>2, <4>4, <4>5, Zenon
    <3>4. ASSUME NEW j \in 1 .. Len(outliers')
          PROVE  /\ outliers'[j] + 1 <= Binned'
                 /\ U(samples'[outliers'[j] + 1]) >= histogram'
                 /\ Cardinality(Above(outliers[j] + 1)') = j
      BY <2>9, <3>1
    <3> QED
      BY <2>2, <2>4, <2>6, <2>11, <3>1, <3>2, <3>3, <3>4 DEF Counted
  <2>12. CASE histogram = 0
    <3>1. UNCHANGED <<hist_array, hist_overflow, outliers>>
      BY <2>12 DEF UpdateHistogram
    <3>2. Bins = {} /\ Bins' = {}
      BY <2>2, <2>12 DEF Bins
    <3>3. 1 .. Len(outliers') = {}
      BY <2>12, <3>1 DEF Counted
    <3> QED
      BY <2>2, <2>12, <3>1, <3>2, <3>3 DEF Counted
  <2> QED
    BY <2>2, <2>10, <2>11, <2>12
<1> QED
  BY <1>2, <1>3, <1>4, <1>5, <1>6 DEF NonNegative

\* The cycle is counted after its value has been stored.
LEMMA CountCycleStep ==
  ASSUME Ind, CountCycle
  PROVE  Ind'
<1> USE DEF Ind
<1>1. /\ wpc = "count" /\ wpc' = "wait" /\ cycles' = cycles + 1
      /\ UNCHANGED <<optVars, diff, min, max, values, readerVars, samples, lapped>>
  BY DEF CountCycle
<1>2. TypeInv'
  BY <1>1 DEF TypeInv, optVars, readerVars, Slots
<1>3. Progress' /\ Bounds'
  BY <1>1 DEF Progress, Bounds, TypeInv, readerVars
<1>4. Ring'
  <2>1. Stored' = Stored
    BY <1>1 DEF Stored, TypeInv
  <2> QED
    BY <1>1, <2>1 DEF Ring, readerVars
<1>5. Partial' /\ Lines'
  BY <1>1 DEF Partial, Printed, Lines, Line, Window, optVars, readerVars
<1>6. Counted'
  <2>1. Binned' = Binned /\ UNCHANGED <<histogram, hist_array, hist_overflow, outliers>>
    BY <1>1 DEF Binned, CountCycle, optVars
  <2> QED
    BY <1>1, <2>1, CountedFrame
<1> QED
  BY <1>2, <1>3, <1>4, <1>5, <1>6 DEF NonNegative

\* One value of the ring: it joins the window, which is printed when it is complete.
LEMMA PrintValueStep ==
  ASSUME Ind, PrintValue
  PROVE  Ind'
<1> USE DEF Ind
<1> DEFINE d   == values[cyclesread % BufSize]
           red == IF d > redmax THEN d ELSE redmax
           cyc == IF d > redmax THEN cyclesread ELSE cycleofmax
           out == reduce + 1 = oscope_reduction
<1>1. /\ cycles # cyclesread
      /\ output' = IF out THEN Append(output, <<cyc, red>>) ELSE output
      /\ reduce' = IF out THEN 0 ELSE reduce + 1
      /\ redmax' = IF out THEN 0 ELSE red
      /\ cycleofmax' = cyc
      /\ cyclesread' = cyclesread + 1
      /\ UNCHANGED <<optVars, wpc, diff, writerVars, rpc, samples, lapped>>
  BY DEF PrintValue
<1>2. d \in Nat
  BY SlotInRing DEF TypeInv
<1>3. red \in Nat /\ cyc \in Nat /\ <<cyc, red>> \in Nat \X Nat
  BY <1>2 DEF TypeInv
<1> HIDE DEF d
<1>4. cyclesread < cycles
  BY <1>1 DEF Progress, TypeInv
<1>5. ~lapped => d = samples[cyclesread + 1]
  BY <1>4 DEF Ring, Stored, TypeInv, d
<1>6. Len(output) \in Nat /\ Printed \in Nat
      /\ (Len(output) + 1) * oscope_reduction = Printed + oscope_reduction
  <2>1. Len(output) \in Nat
    BY DEF TypeInv
  <2>2. PICK j \in Nat : j = Len(output) + 1
    BY <2>1
  <2>3. j >= 1 /\ j - 1 = Len(output)
    BY <2>1, <2>2
  <2> QED
    BY <2>1, <2>2, <2>3, WindowFacts DEF Printed, TypeInv
\* What red and cyc say about the window with this cycle.
<1>7. ASSUME ~lapped
      PROVE  /\ \A c \in Nat : Printed <= c /\ c < cyclesread + 1 => samples[c + 1] <= red
             /\ red > 0 => /\ Printed <= cyc /\ cyc < cyclesread + 1
                           /\ samples[cyc + 1] = red
  <2>1. cyclesread = Printed + reduce
    BY DEF Partial
  <2>2. samples[cyclesread + 1] = d
    BY <1>5, <1>7
  <2>3. redmax <= red /\ d <= red
    BY <1>2 DEF TypeInv
  <2>4. ASSUME NEW c \in Nat, Printed <= c, c < cyclesread + 1
        PROVE  samples[c + 1] <= red
    <3>1. CASE c = cyclesread
      BY <2>2, <2>3, <3>1
    <3>2. CASE c < cyclesread
      <4>1. samples[c + 1] <= redmax
        BY <1>7, <2>4, <3>2 DEF Partial
      <4>2. samples[c + 1] \in Nat
        BY <1>4, <3>2 DEF Progress, TypeInv
      <4> QED
        BY <1>3, <2>3, <4>1, <4>2 DEF TypeInv
    <3> QED
      BY <2>4, <3>1, <3>2 DEF TypeInv
  <2>5. ASSUME red > 0
        PROVE  Printed <= cyc /\ cyc < cyclesread + 1 /\ samples[cyc + 1] = red
    <3>1. CASE d > redmax
      BY <1>6, <2>1, <2>2, <3>1 DEF TypeInv
    <3>2. CASE ~(d > redmax)
      BY <1>7, <2>5, <3>2 DEF Partial, TypeInv
    <3> QED
      BY <3>1, <3>2
  <2> QED
    BY <2>4, <2>5
<1>8. /\ Append(output, <<cyc, red>>) \in Seq(Nat \X Nat)
      /\ Len(Append(output, <<cyc, red>>)) = Len(output) + 1
      /\ Append(output, <<cyc, red>>)[Len(output) + 1] = <<cyc, red>>
      /\ \A n \in 1 .. Len(output) : Append(output, <<cyc, red>>)[n] = output[n]
      /\ DOMAIN output = 1 .. Len(output)
      /\ DOMAIN Append(output, <<cyc, red>>) = 1 .. (Len(output) + 1)
  BY <1>3, AppendFacts DEF TypeInv
<1> HIDE DEF red, cyc
<1>9. TypeInv'
  BY <1>1, <1>3, <1>8 DEF TypeInv, optVars, writerVars, Slots
<1>10. Progress'
  BY <1>1, <1>4 DEF Progress, writerVars, TypeInv
<1>11. Bounds'
  BY <1>1 DEF Bounds, writerVars
<1>12. Ring'
  <2>1. Stored' = Stored /\ lapped' = lapped /\ values' = values /\ samples' = samples
    BY <1>1 DEF Stored, writerVars
  <2>2. Stored \in Nat /\ BufSize \in Nat /\ cyclesread \in Nat
    BY ConstantsAssumption DEF Stored, TypeInv
  <2>3. ASSUME ~lapped
        PROVE  /\ Stored - (cyclesread + 1) <= BufSize
               /\ \A c \in Nat : cyclesread + 1 <= c /\ c < Stored =>
                    values[c % BufSize] = samples[c + 1]
    <3>1. Stored - cyclesread <= BufSize
      BY <2>3 DEF Ring
    <3>2. \A c \in Nat : cyclesread + 1 <= c => cyclesread <= c
      BY <2>2
    <3>3. \A c \in Nat : cyclesread <= c /\ c < Stored =>
            values[c % BufSize] = samples[c + 1]
      BY <2>3 DEF Ring
    <3>4. Stored - (cyclesread + 1) <= BufSize
      BY <2>2, <3>1
    <3> QED
      BY <3>2, <3>3, <3>4, Zenon
  <2>4. cyclesread' = cyclesread + 1
    BY <1>1
  <2> QED
    BY <2>1, <2>3, <2>4 DEF Ring
<1>13. Partial'
  <2>1. CASE out
    <3>1. Printed' = Printed + oscope_reduction
      BY <1>1, <1>6, <1>8, <2>1 DEF Printed, optVars
    <3> QED
      BY <1>1, <1>6, <2>1, <3>1 DEF Partial, optVars, TypeInv
  <2>2. CASE ~out
    <3>1. Printed' = Printed
      BY <1>1, <2>2 DEF Printed, optVars
    <3> QED
      BY <1>1, <1>6, <1>7, <2>2, <3>1 DEF Partial, optVars, TypeInv
  <2> QED
    BY <2>1, <2>2
<1>14. Lines'
  <2> SUFFICES ASSUME ~lapped, NEW j \in DOMAIN output'
               PROVE  Line(j)'
    BY <1>1 DEF Lines
  <2>1. CASE j \in DOMAIN output
    <3>1. Line(j) /\ output'[j] = output[j] /\ Window(j)' = Window(j)
      BY <1>1, <1>8, <2>1 DEF Lines, Window, optVars
    <3>2. \A c \in Nat : c < cyclesread => c < cyclesread'
      BY <1>1 DEF TypeInv
    <3> QED
      BY <1>1, <3>1, <3>2 DEF Line
  <2>2. CASE j \notin DOMAIN output
    <3>1. out /\ j = Len(output) + 1 /\ output'[j] = <<cyc, red>>
      BY <1>1, <1>6, <1>8, <2>2
    <3>2. cyclesread = Printed + reduce
      BY DEF Partial
    <3>3. j - 1 = Len(output) /\ (j - 1) * oscope_reduction = Printed
      BY <1>6, <3>1 DEF Printed
    <3>4. j * oscope_reduction = Printed + oscope_reduction
      BY <1>6, <3>1
    <3>5. Printed + oscope_reduction = cyclesread + 1
      <4>1. reduce \in Nat /\ oscope_reduction \in Nat /\ reduce + 1 = oscope_reduction
        BY <3>1 DEF TypeInv
      <4> QED
        BY <1>6, <3>2, <4>1
    <3>6. Window(j) = Printed .. cyclesread /\ Window(j)' = Window(j)
      <4>1. cyclesread \in Nat /\ (cyclesread + 1) - 1 = cyclesread
        BY DEF TypeInv
      <4>2. Window(j) = Printed .. ((cyclesread + 1) - 1)
        BY <3>3, <3>4, <3>5, Zenon DEF Window
      <4>3. Window(j)' = Window(j)
        BY <1>1, Zenon DEF Window, optVars
      <4> QED
        BY <4>1, <4>2, <4>3
    <3>7. output'[j][1] = cyc /\ output'[j][2] = red
      BY <3>1
    <3> QED
      <4>1. cyclesread \in Nat
        BY DEF TypeInv
      <4>2. \A c \in Printed .. cyclesread :
              c \in Nat /\ c < cyclesread' /\ samples'[c + 1] <= red
        BY <1>1, <1>6, <1>7, <4>1
      <4>3. red > 0 => cyc \in Printed .. cyclesread /\ red = samples'[cyc + 1]
        BY <1>1, <1>3, <1>6, <1>7, <4>1
      <4> QED
        BY <3>6, <3>7, <4>2, <4>3 DEF Line
  <2> QED
    BY <2>1, <2>2
<1>15. Counted'
  <2>1. Binned' = Binned /\ UNCHANGED <<histogram, hist_array, hist_overflow, outliers>>
    BY <1>1 DEF Binned, optVars, writerVars
  <2> QED
    BY <1>1, <2>1, CountedFrame
<1> QED
  BY <1>9, <1>10, <1>11, <1>12, <1>13, <1>14, <1>15 DEF NonNegative

\* print_stat starts or returns, or nothing happens.
LEMMA QuietStep ==
  ASSUME Ind, rpc' \in {"sleep", "print"},
         UNCHANGED <<optVars, wpc, diff, writerVars, cyclesread, reduce, redmax,
                     cycleofmax, output, samples, lapped>>
  PROVE  Ind'
<1> USE DEF Ind, optVars, writerVars
<1>1. TypeInv' /\ Progress' /\ Bounds'
  BY DEF TypeInv, Progress, Bounds, Slots
<1>2. Ring'
  BY DEF Ring, Stored
<1>3. Partial' /\ Lines'
  BY DEF Partial, Printed, Lines, Line, Window
<1>4. Counted'
  BY CountedFrame DEF Binned
<1> QED
  BY <1>1, <1>2, <1>3, <1>4 DEF NonNegative

\* Every step keeps the invariant.
LEMMA IndStep == Ind /\ [Next]_vars => Ind'
<1> SUFFICES ASSUME Ind, [Next]_vars
             PROVE  Ind'
  OBVIOUS
<1>1. CASE Measure
  BY <1>1, MeasureStep
<1>2. CASE StoreValue
  BY <1>2, StoreValueStep
<1>3. CASE UpdateHistogram
  BY <1>3, UpdateHistogramStep
<1>4. CASE CountCycle
  BY <1>4, CountCycleStep
<1>5. CASE PrintValue
  BY <1>5, PrintValueStep
<1>6. CASE StartPrinting \/ StopPrinting
  BY <1>6, QuietStep DEF StartPrinting, StopPrinting
<1>7. CASE Finished \/ UNCHANGED vars
  BY <1>7, QuietStep
     DEF Finished, vars, optVars, writerVars, Ind, TypeInv
<1> QED
  BY <1>1, <1>2, <1>3, <1>4, <1>5, <1>6, <1>7 DEF Next, Writer, Reader

-----------------------------------------------------------------------------
(* Theorems *)

\* As long as no latency is negative, the invariant holds in every state.
THEOREM Invariance == NonNegative /\ Spec => []Ind
  BY IndInit, IndStep, PTL DEF Spec

\* Bounds makes min and max the smallest and the largest sample.
LEMMA BoundsAreExtremes == Ind => Extremes
<1> SUFFICES ASSUME Ind
             PROVE  Extremes
  OBVIOUS
<1> DEFINE S == {samples[n] : n \in DOMAIN samples}
<1>1. S \subseteq Nat
  BY DEF Ind, TypeInv
<1>2. min = Min(S \cup {InitialMin})
  <2>1. min \in S \cup {InitialMin}
    BY DEF Ind, Bounds
  <2>2. \A y \in S \cup {InitialMin} : min <= y
    BY DEF Ind, Bounds
  <2> QED
    <3>1. S \cup {InitialMin} \in SUBSET Int
      BY <1>1, SecondIsNat
    <3> HIDE DEF S
    <3> QED
      BY <2>1, <2>2, <3>1, MinIs, Zenon
<1>3. max = Max(S \cup {0})
  <2>1. max \in S \cup {0}
    BY DEF Ind, Bounds
  <2>2. \A y \in S \cup {0} : y <= max
    BY DEF Ind, Bounds, TypeInv
  <2> QED
    <3>1. S \cup {0} \in SUBSET Int
      BY <1>1
    <3> HIDE DEF S
    <3> QED
      BY <2>1, <2>2, <3>1, MaxIs, Zenon
<1> QED
  BY <1>2, <1>3 DEF Extremes

\* The bound that a line has is the largest sample of its window.
LEMMA LinesAreFaithful == Ind => OutputFaithful
<1> SUFFICES ASSUME Ind, ~lapped, NEW j \in DOMAIN output
             PROVE  LineFaithful(j)
  BY DEF OutputFaithful
<1>1. Line(j)
  BY DEF Ind, Lines
<1>2. j \in Nat /\ j >= 1
  BY DEF Ind, TypeInv
<1>3. PICK x \in Nat : x = (j - 1) * oscope_reduction
  BY <1>2, WindowFacts DEF Ind, TypeInv
<1>4. x \in Window(j)
  <2>1. oscope_reduction \in Nat /\ oscope_reduction >= 1
    BY DEF Ind, TypeInv
  <2>2. PICK z \in Nat : z = j * oscope_reduction
    BY <1>2, <2>1, WindowFacts
  <2>3. z = x + oscope_reduction
    BY <1>2, <1>3, <2>1, <2>2, WindowFacts
  <2>4. Window(j) = x .. (z - 1)
    BY <1>3, <2>2, Zenon DEF Window
  <2> QED
    BY <1>3, <2>1, <2>3, <2>4
<1>5. \A c \in Window(j) : c + 1 \in DOMAIN samples /\ samples[c + 1] \in Nat
  <2>1. samples \in Seq(Nat) /\ cycles \in Nat /\ cyclesread \in Nat
    BY DEF Ind, TypeInv
  <2>2. Len(samples) >= cycles /\ cycles >= cyclesread
    BY <2>1 DEF Ind, Progress
  <2>3. \A c \in Window(j) : c \in Nat /\ c < cyclesread
    BY <1>1 DEF Line
  <2> QED
    BY <2>1, <2>2, <2>3
<1>6. output[j][2] \in Nat
  BY DEF Ind, TypeInv
<1> DEFINE S == {samples[c + 1] : c \in Window(j)}
<1>7. S \subseteq Nat /\ samples[x + 1] \in S
  BY <1>4, <1>5
<1>8. \A y \in S : y <= output[j][2]
  BY <1>1 DEF Line
<1>9. output[j][2] \in S
  <2>1. CASE output[j][2] > 0
    BY <1>1, <2>1 DEF Line
  <2>2. CASE output[j][2] = 0
    <3>1. samples[x + 1] = 0
      <4>1. samples[x + 1] \in Nat /\ samples[x + 1] <= output[j][2]
        BY <1>7, <1>8
      <4> QED
        BY <2>2, <4>1
    <3> QED
      BY <1>7, <2>2, <3>1
  <2> QED
    BY <1>6, <2>1, <2>2
<1>10. output[j][2] = Max(S)
  <2>1. S \in SUBSET Int
    BY <1>7
  <2> HIDE DEF S
  <2> QED
    BY <1>8, <1>9, <2>1, MaxIs, Zenon
<1> QED
  BY <1>1, <1>5, <1>10 DEF Line, LineFaithful

\* Counted is the histogram that HistogramFaithful describes.
LEMMA CountsAreFaithful == Ind => HistogramFaithful
<1> SUFFICES ASSUME Ind
             PROVE  HistogramFaithful
  OBVIOUS
<1>1. samples \in Seq(Nat) /\ Binned \in Nat /\ Binned <= Len(samples) /\ histogram \in Nat
  BY DEF Ind, TypeInv, Progress, Binned
<1>2. Recorded = SubSeq(samples, 1, Binned)
  BY DEF Recorded, Binned
<1>3. DOMAIN Recorded = 1 .. Binned /\ \A n \in 1 .. Binned : Recorded[n] = samples[n]
  BY <1>1, <1>2
<1>4. Quantify(DOMAIN Recorded, LAMBDA n : U(Recorded[n]) >= histogram)
        = Cardinality(Above(Binned))
  <2>1. {n \in DOMAIN Recorded : U(Recorded[n]) >= histogram} = Above(Binned)
    BY <1>3 DEF Above
  <2> QED
    BY <2>1 DEF Quantify
<1>5. ASSUME NEW k \in Bins
      PROVE  Quantify(DOMAIN Recorded, LAMBDA n : Recorded[n] = k)
               = Cardinality(InBin(k, Binned))
  <2>1. {n \in DOMAIN Recorded : Recorded[n] = k} = InBin(k, Binned)
    BY <1>3 DEF InBin
  <2> QED
    BY <2>1 DEF Quantify
<1>6. ASSUME NEW m
      PROVE  Quantify(1 .. m, LAMBDA n : U(samples[n]) >= histogram) = Cardinality(Above(m))
  BY DEF Quantify, Above
<1>7. Len(outliers) <= histogram
  BY <1>1 DEF Ind, Counted
<1> QED
  BY <1>4, <1>5, <1>6, <1>7 DEF HistogramFaithful, Ind, Counted

\* The histogram of a run with -h counts every cycle once, in the bin of its latency or
\* as an overflow, and lists the first outliers in order, for any number of bins.
THEOREM HistogramIsFaithful == NonNegative /\ Spec => []HistogramFaithful
  BY Invariance, CountsAreFaithful, PTL

\* min and max that cyclictest prints are the extremes of all latencies measured so far,
\* whenever main reads them.
THEOREM ExtremesAreExact == NonNegative /\ Spec => []Extremes
  BY Invariance, BoundsAreExtremes, PTL

\* Until the thread laps main in the ring of VALBUF_SIZE values, every verbose line has
\* the largest latency of its window of oscope_reduction cycles, and the cycle that
\* measured it, although nothing protects the ring.
THEOREM OutputIsFaithful == NonNegative /\ Spec => []OutputFaithful
  BY Invariance, LinesAreFaithful, PTL
=============================================================================

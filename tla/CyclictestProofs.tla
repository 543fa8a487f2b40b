-------------------------- MODULE CyclictestProofs --------------------------
(***************************************************************************)
(* Proofs about Cyclictest for any number of threads, every command line   *)
(* and every failure: how the threads start, that main frees nothing they  *)
(* use, and that a run stopped by a latency has that latency to report.    *)
(***************************************************************************)
EXTENDS Cyclictest, TLAPS

-----------------------------------------------------------------------------
(* The inductive invariant *)

\* The types of the variables.
TypeInv ==
  /\ opt \in CommandLines
  /\ tpc \in [Threads -> Running \cup {"unborn", "sched", "globalt_barr", "stamp",
                                       "align_barr", "begin", "out", "gone"}]
  /\ mpc \in {"create", "fifo", "top", "stat", "check", "lock", "cond_wait", "outall",
              "usleep", "kill", "join", "report", "freed", "exit"}
  /\ shutdown \in {0, 1} /\ tracing \in {0, 1} /\ globalt \in {0, 1}
  /\ threadstarted \in [Threads -> {-1, 0, 1, 2}]
  /\ cycles \in [Threads -> Nat] /\ max \in [Threads -> Nat] /\ diff \in [Threads -> Nat]
  /\ stopped \in [Threads -> {0, 1}] /\ start \in [Threads -> {0, 1}]
  /\ pending \in [Threads -> {0, 1}]
  /\ break_thread_id \in Threads \cup {NoThread} /\ break_thread_value \in Nat
  /\ fpc \in {"unborn", "top", "print", "gone"}
  /\ i \in Threads /\ allocated \in Nat /\ allstopped \in {0, 1}
  /\ expired \in {0, 1} /\ sigint \in {0, 1}
  /\ ret \in {"none", "fatal", "SIGSEGV", "SUCCESS", "FAILURE"}

\* What a thread has done by the time it is at tpc: thread 0 passes the second barrier
\* only after it has written the stamp, and threadstarted is not zero any more.
Starting ==
  /\ mpc = "create" => \A t \in Threads : t >= i => tpc[t] = "unborn"
  /\ opt.aligned /\ tpc[0] = "align_barr" => globalt = 1
  /\ \A t \in Threads :
       /\ opt.aligned /\ tpc[t] = "begin" => globalt = 1
       /\ tpc[t] \in Running => start[t] = 1
       /\ threadstarted[t] = 0 => tpc[t] = "unborn"
       /\ tpc[t] \in {"sched", "globalt_barr", "stamp", "align_barr", "begin"} =>
            threadstarted[t] = 1

Finished(t) == tpc[t] \in {"gone", "unborn"}
Orderly     == ret \in {"none", "SUCCESS", "FAILURE"}

\* How far main has got with the threads once it is at outall.
Joining ==
  /\ mpc = "usleep" => i = 0
  /\ mpc \in {"usleep", "kill", "join", "report", "freed", "exit"} /\ Orderly => shutdown = 1
  /\ mpc \in {"kill", "join"} => \A t \in Threads : t < i => Finished(t)
  /\ mpc \in {"report", "freed", "exit"} /\ Orderly => \A t \in Threads : Finished(t)
  /\ mpc \in {"kill", "join", "report", "freed", "exit"} /\ Orderly /\ fpc = "print" => fifolate
  /\ ret \in {"SUCCESS", "FAILURE"} => mpc = "exit"

\* A thread above the limit has the tracer off at once, and leaves its id and a value
\* above the limit before it goes on.
Hits ==
  /\ \A t \in Threads : tpc[t] \in {"brkstop", "brklock"} =>
       stopped[t] = 1 /\ diff[t] > opt.tracelimit
  /\ \A t \in Threads : stopped[t] = 1 =>
       /\ tracing = 0
       /\ tpc[t] \in {"brkstop", "brklock"} \/ break_thread_id # NoThread
  /\ break_thread_id # NoThread =>
       stopped[break_thread_id] = 1 /\ break_thread_value > opt.tracelimit

\* Main has allocated the records of all threads when it is in its loop, and at
\* outall too, unless the values buffer of a thread but the last was refused; and
\* what a crash of the process comes from.
Allocating ==
  /\ mpc = "create" => allocated = i /\ \A t \in Threads : t >= i => threadstarted[t] = 0
  /\ mpc \in {"fifo", "top", "stat", "check", "lock", "cond_wait"} => allocated = NThreads
  /\ mpc \in {"outall", "usleep", "kill", "join", "report"} /\ allocated # NThreads =>
       \E t \in Threads : HasNoStats(t) /\ t + 1 < NThreads
  /\ ret = "SIGSEGV" =>
       \/ fifolate
       \/ \E t \in Threads : HasNoStats(t) /\ (t + 1 < NThreads \/ opt.tracelimit > 0)

Ind == TypeInv /\ Starting /\ Joining /\ Hits /\ Allocating

-----------------------------------------------------------------------------
(* The steps *)

\* Threads are numbered from 0.
LEMMA ThreadsAreNumbers ==
  /\ NThreads \in Nat /\ NThreads >= 1
  /\ \A t : t \in Threads <=> t \in Nat /\ t < NThreads
  /\ NoThread \notin Threads
  BY ConstantsAssumption DEF Threads, NoThread

\* The invariant holds when main starts.
LEMMA IndInit == Init => Ind
<1> SUFFICES ASSUME Init
             PROVE  Ind
  OBVIOUS
<1>1. TypeInv
  BY ThreadsAreNumbers DEF Init, TypeInv
<1>2. Starting
  BY ThreadsAreNumbers DEF Init, Starting, Running
<1>3. Joining
  BY DEF Init, Joining
<1>4. Hits
  BY DEF Init, Hits
<1>5. Allocating
  BY ThreadsAreNumbers DEF Init, Allocating
<1> QED
  BY <1>1, <1>2, <1>3, <1>4, <1>5 DEF Ind

\* A thread sets its scheduler, or fatal() ends the process.
LEMMA SetSchedulerStep ==
  ASSUME Ind, NEW t \in Threads, SetScheduler(t)
  PROVE  Ind'
<1> USE DEF SetScheduler, Thread, Aligned, statVars, localVars, startVars, breakVars,
     mainVars, envVars
<1>1. TypeInv'
  BY DEF Ind, TypeInv
<1>2. Starting'
  BY ThreadsAreNumbers DEF Ind, TypeInv, Starting, Running
<1>3. Joining'
  BY DEF Ind, TypeInv, Joining, Finished, Orderly
<1>4. Hits'
  BY DEF Ind, TypeInv, Hits
<1>5. Allocating'
  BY ThreadsAreNumbers DEF Ind, TypeInv, Starting, Running, Joining, Allocating, HasNoStats
<1> QED
  BY <1>1, <1>2, <1>3, <1>4, <1>5 DEF Ind

\* All threads leave the first barrier together.
LEMMA GlobaltBarrierStep ==
  ASSUME Ind, GlobaltBarrier
  PROVE  Ind'
<1> USE DEF GlobaltBarrier, statVars, localVars, startVars, breakVars, mainVars, envVars
<1>1. TypeInv'
  BY DEF Ind, TypeInv
<1>2. Starting'
  BY ThreadsAreNumbers DEF Ind, TypeInv, Starting, Running
<1>3. Joining'
  BY DEF Ind, TypeInv, Joining, Finished, Orderly
<1>4. Hits'
  BY DEF Ind, TypeInv, Hits
<1>5. Allocating'
  BY ThreadsAreNumbers DEF Ind, TypeInv, Starting, Running, Joining, Allocating, HasNoStats
<1> QED
  BY <1>1, <1>2, <1>3, <1>4, <1>5 DEF Ind

\* Thread 0 takes the stamp between the barriers.
LEMMA StampStep ==
  ASSUME Ind, Stamp
  PROVE  Ind'
<1> USE DEF Stamp, Thread, statVars, localVars, breakVars, mainVars, envVars
<1>1. TypeInv'
  BY ThreadsAreNumbers DEF Ind, TypeInv, Running
<1>2. Starting'
  BY DEF Ind, TypeInv, Starting, Running
<1>3. Joining'
  BY DEF Ind, TypeInv, Joining, Finished, Orderly
<1>4. Hits'
  BY DEF Ind, TypeInv, Hits
<1>5. Allocating'
  BY ThreadsAreNumbers DEF Ind, TypeInv, Starting, Running, Joining, Allocating, HasNoStats
<1> QED
  BY <1>1, <1>2, <1>3, <1>4, <1>5 DEF Ind

\* All threads leave the second barrier with the stamp taken.
LEMMA AlignBarrierStep ==
  ASSUME Ind, AlignBarrier
  PROVE  Ind'
<1> USE DEF AlignBarrier, statVars, localVars, startVars, breakVars, mainVars, envVars
<1>1. TypeInv'
  BY DEF Ind, TypeInv
<1>2. Starting'
  BY ThreadsAreNumbers DEF Ind, TypeInv, Starting, Running
<1>3. Joining'
  BY DEF Ind, TypeInv, Joining, Finished, Orderly
<1>4. Hits'
  BY DEF Ind, TypeInv, Hits
<1>5. Allocating'
  BY ThreadsAreNumbers DEF Ind, TypeInv, Starting, Running, Joining, Allocating, HasNoStats
<1> QED
  BY <1>1, <1>2, <1>3, <1>4, <1>5 DEF Ind

\* A thread takes its start from the stamp or from the clock.
LEMMA BeginStep ==
  ASSUME Ind, NEW t \in Threads, Begin(t)
  PROVE  Ind'
<1> USE DEF Begin, Thread, Aligned, localVars, breakVars, mainVars, envVars
<1>1. TypeInv'
  BY ThreadsAreNumbers, ConstantsAssumption DEF Ind, TypeInv, Starting, Running,
     Options
<1>2. Starting'
  BY DEF Ind, TypeInv, Starting
<1>3. Joining'
  BY DEF Ind, TypeInv, Joining, Finished, Orderly
<1>4. Hits'
  BY DEF Ind, TypeInv, Hits
<1>5. Allocating'
  BY ThreadsAreNumbers DEF Ind, TypeInv, Starting, Running, Joining, Allocating, HasNoStats
<1> QED
  BY <1>1, <1>2, <1>3, <1>4, <1>5 DEF Ind

\* A thread looks at shutdown and stays or leaves.
LEMMA TopStep ==
  ASSUME Ind, NEW t \in Threads, Top(t)
  PROVE  Ind'
<1> USE DEF Top, Thread, statVars, localVars, startVars, breakVars, mainVars, envVars
<1>1. TypeInv'
  BY DEF Ind, TypeInv, Running
<1>2. Starting'
  BY DEF Ind, TypeInv, Starting
<1>3. Joining'
  BY DEF Ind, TypeInv, Joining, Finished, Orderly
<1>4. Hits'
  BY DEF Ind, TypeInv, Hits
<1>5. Allocating'
  BY ThreadsAreNumbers DEF Ind, TypeInv, Starting, Running, Joining, Allocating, HasNoStats
<1> QED
  BY <1>1, <1>2, <1>3, <1>4, <1>5 DEF Ind

\* The wait ends.
LEMMA WakeStep ==
  ASSUME Ind, NEW t \in Threads, Wake(t)
  PROVE  Ind'
<1> USE DEF Wake, Thread, statVars, startVars, breakVars, mainVars, envVars
<1>1. TypeInv'
  BY DEF Ind, TypeInv, Running
<1>2. Starting'
  BY DEF Ind, TypeInv, Starting
<1>3. Joining'
  BY DEF Ind, TypeInv, Joining, Finished, Orderly
<1>4. Hits'
  BY DEF Ind, TypeInv, Hits
<1>5. Allocating'
  BY ThreadsAreNumbers DEF Ind, TypeInv, Starting, Running, Joining, Allocating, HasNoStats
<1> QED
  BY <1>1, <1>2, <1>3, <1>4, <1>5 DEF Ind

\* The latency moves max and may wake main.
LEMMA MeasureStep ==
  ASSUME Ind, NEW t \in Threads, Measure(t)
  PROVE  Ind'
<1> USE DEF Measure, Thread, CondSignal, RefreshOnMax, localVars, startVars, breakVars,
     mainVars, envVars
<1>1. TypeInv'
  BY DEF Ind, TypeInv, Running
<1>2. Starting'
  BY DEF Ind, TypeInv, Starting
<1>3. Joining'
  BY DEF Ind, TypeInv, Joining, Finished, Orderly
<1>4. Hits'
  BY DEF Ind, TypeInv, Hits
<1>5. Allocating'
  BY ThreadsAreNumbers DEF Ind, TypeInv, Starting, Running, Joining, Allocating, HasNoStats
<1> QED
  BY <1>1, <1>2, <1>3, <1>4, <1>5 DEF Ind

\* The thread that sees --duration over sets shutdown.
LEMMA CheckDurationStep ==
  ASSUME Ind, NEW t \in Threads, CheckDuration(t)
  PROVE  Ind'
<1> USE DEF CheckDuration, Thread, Duration, statVars, localVars, startVars, breakVars,
     mainVars, envVars
<1>1. TypeInv'
  BY DEF Ind, TypeInv, Running
<1>2. Starting'
  BY DEF Ind, TypeInv, Starting
<1>3. Joining'
  BY DEF Ind, TypeInv, Joining, Finished, Orderly
<1>4. Hits'
  BY DEF Ind, TypeInv, Hits
<1>5. Allocating'
  BY ThreadsAreNumbers DEF Ind, TypeInv, Starting, Running, Joining, Allocating, HasNoStats
<1> QED
  BY <1>1, <1>2, <1>3, <1>4, <1>5 DEF Ind

\* A latency above --breaktrace stops the tracer.
LEMMA BreakTraceStep ==
  ASSUME Ind, NEW t \in Threads, BreakTrace(t)
  PROVE  Ind'
<1> USE DEF BreakTrace, Thread, TraceLimit, statVars, startVars, breakVars, mainVars,
     envVars
<1>1. TypeInv'
  BY DEF Ind, TypeInv, Running
<1>2. Starting'
  BY DEF Ind, TypeInv, Starting
<1>3. Joining'
  BY DEF Ind, TypeInv, Joining, Finished, Orderly
<1>4. Hits'
  BY DEF Ind, TypeInv, Hits
<1>5. Allocating'
  BY ThreadsAreNumbers DEF Ind, TypeInv, Starting, Running, Joining, Allocating, HasNoStats
<1> QED
  BY <1>1, <1>2, <1>3, <1>4, <1>5 DEF Ind

\* The thread that hit --breaktrace sets shutdown.
LEMMA BreakShutdownStep ==
  ASSUME Ind, NEW t \in Threads, BreakShutdown(t)
  PROVE  Ind'
<1> USE DEF BreakShutdown, Thread, statVars, localVars, startVars, breakVars, mainVars,
     envVars
<1>1. TypeInv'
  BY DEF Ind, TypeInv, Running
<1>2. Starting'
  BY DEF Ind, TypeInv, Starting
<1>3. Joining'
  BY DEF Ind, TypeInv, Joining, Finished, Orderly
<1>4. Hits'
  BY DEF Ind, TypeInv, Hits
<1>5. Allocating'
  BY ThreadsAreNumbers DEF Ind, TypeInv, Starting, Running, Joining, Allocating, HasNoStats
<1> QED
  BY <1>1, <1>2, <1>3, <1>4, <1>5 DEF Ind

\* The first thread that hit --breaktrace leaves its id, the last its value.
LEMMA BreakLockStep ==
  ASSUME Ind, NEW t \in Threads, BreakLock(t)
  PROVE  Ind'
<1> USE DEF BreakLock, Thread, statVars, localVars, startVars, mainVars, envVars
<1>1. TypeInv'
  BY DEF Ind, TypeInv, Running
<1>2. Starting'
  BY DEF Ind, TypeInv, Starting
<1>3. Joining'
  BY DEF Ind, TypeInv, Joining, Finished, Orderly
<1>4. Hits'
  BY ThreadsAreNumbers DEF Ind, TypeInv, Hits
<1>5. Allocating'
  BY ThreadsAreNumbers DEF Ind, TypeInv, Starting, Running, Joining, Allocating, HasNoStats
<1> QED
  BY <1>1, <1>2, <1>3, <1>4, <1>5 DEF Ind

\* The cycle is counted; --loops may end the thread.
LEMMA RecordStep ==
  ASSUME Ind, NEW t \in Threads, Record(t)
  PROVE  Ind'
<1> USE DEF Record, Thread, MaxCycles, localVars, startVars, breakVars, mainVars, envVars
<1>1. TypeInv'
  BY DEF Ind, TypeInv, Running
<1>2. Starting'
  BY DEF Ind, TypeInv, Starting
<1>3. Joining'
  BY DEF Ind, TypeInv, Joining, Finished, Orderly
<1>4. Hits'
  BY DEF Ind, TypeInv, Hits
<1>5. Allocating'
  BY ThreadsAreNumbers DEF Ind, TypeInv, Starting, Running, Joining, Allocating, HasNoStats
<1> QED
  BY <1>1, <1>2, <1>3, <1>4, <1>5 DEF Ind

\* A thread leaves timerthread.
LEMMA OutStep ==
  ASSUME Ind, NEW t \in Threads, Out(t)
  PROVE  Ind'
<1> USE DEF Out, Thread, localVars, startVars, breakVars, mainVars, envVars
<1>1. TypeInv'
  BY DEF Ind, TypeInv
<1>2. Starting'
  BY DEF Ind, TypeInv, Starting, Running
<1>3. Joining'
  BY DEF Ind, TypeInv, Joining, Finished, Orderly
<1>4. Hits'
  BY DEF Ind, TypeInv, Hits
<1>5. Allocating'
  BY ThreadsAreNumbers DEF Ind, TypeInv, Starting, Running, Joining, Allocating, HasNoStats
<1> QED
  BY <1>1, <1>2, <1>3, <1>4, <1>5 DEF Ind

\* A thread gets the SIGTERM that main sent.
LEMMA DeliverSigtermStep ==
  ASSUME Ind, NEW t \in Threads, DeliverSigterm(t)
  PROVE  Ind'
<1> USE DEF DeliverSigterm, CondSignal, TraceLimit, RefreshOnMax, Nanosleep, statVars,
     localVars, startVars, breakVars, mainVars, envVars
<1>1. TypeInv'
  BY DEF Ind, TypeInv
<1>2. Starting'
  BY DEF Ind, TypeInv, Starting
<1>3. Joining'
  BY DEF Ind, TypeInv, Joining, Finished, Orderly
<1>4. Hits'
  BY DEF Ind, TypeInv, Hits
<1>5. Allocating'
  BY ThreadsAreNumbers DEF Ind, TypeInv, Starting, Running, Joining, Allocating, HasNoStats
<1> QED
  BY <1>1, <1>2, <1>3, <1>4, <1>5 DEF Ind

\* The fifo thread looks at shutdown.
LEMMA FifoTopStep ==
  ASSUME Ind, FifoTop
  PROVE  Ind'
<1> USE DEF FifoTop, Fifo, fifoUnchanged, statVars, localVars, startVars, breakVars,
     mainVars
<1>1. TypeInv'
  BY DEF Ind, TypeInv
<1>2. Starting'
  BY DEF Ind, TypeInv, Starting
<1>3. Joining'
  BY DEF Ind, TypeInv, Joining, Finished, Orderly
<1>4. Hits'
  BY DEF Ind, TypeInv, Hits
<1>5. Allocating'
  BY ThreadsAreNumbers DEF Ind, TypeInv, Starting, Running, Joining, Allocating, HasNoStats
<1> QED
  BY <1>1, <1>2, <1>3, <1>4, <1>5 DEF Ind

\* The fifo thread prints, from freed statistics if it was late.
LEMMA FifoPrintStep ==
  ASSUME Ind, FifoPrint
  PROVE  Ind'
<1> USE DEF FifoPrint, Fifo, fifoUnchanged, statVars, localVars, startVars, breakVars,
     mainVars
<1>1. TypeInv'
  BY DEF Ind, TypeInv
<1>2. Starting'
  BY DEF Ind, TypeInv, Starting
<1>3. Joining'
  BY DEF Ind, TypeInv, Joining, Finished, Orderly
<1>4. Hits'
  BY DEF Ind, TypeInv, Hits
<1>5. Allocating'
  BY ThreadsAreNumbers DEF Ind, TypeInv, Starting, Running, Joining, Orderly,
     Allocating, HasNoStats
<1> QED
  BY <1>1, <1>2, <1>3, <1>4, <1>5 DEF Ind

\* Main creates thread i, goes to outall without a buffer, or dies.
LEMMA CreateThreadStep ==
  ASSUME Ind, CreateThread
  PROVE  Ind'
<1> USE DEF CreateThread, Main, Verbose, UseFifo, localVars, startVars, breakVars,
     envVars
<1>1. TypeInv'
  BY ThreadsAreNumbers DEF Ind, TypeInv, Running
<1>2. Starting'
  BY ThreadsAreNumbers DEF Ind, TypeInv, Starting, Running
<1>3. Joining'
  BY DEF Ind, TypeInv, Joining, Finished, Orderly
<1>4. Hits'
  BY ThreadsAreNumbers, ConstantsAssumption DEF Ind, TypeInv, Starting, Hits, Options,
     Running
<1>5. Allocating'
  <2>1. /\ mpc = "create" /\ ret = "none" /\ i \in Threads /\ allocated' = i + 1
        /\ \A t \in Threads : t >= i => threadstarted[t] = 0
    BY DEF Ind, TypeInv, Allocating
  <2>2. CASE mpc' = "outall" /\ UNCHANGED <<threadstarted, i, ret>>
    <3>1. HasNoStats(i)'
      BY <2>1, <2>2, ThreadsAreNumbers DEF HasNoStats
    <3>2. allocated' # NThreads => i + 1 < NThreads
      BY <2>1, ThreadsAreNumbers
    <3> QED
      BY <2>1, <2>2, <3>1, <3>2 DEF Allocating
  <2>3. CASE mpc' = "exit" /\ ret' = "fatal"
    BY <2>3 DEF Allocating
  <2>4. CASE /\ mpc' = IF i + 1 < NThreads THEN "create"
                       ELSE IF opt.use_fifo THEN "fifo" ELSE "top"
             /\ threadstarted' = [threadstarted EXCEPT ![i] = 1]
             /\ i' = IF i + 1 < NThreads THEN i + 1 ELSE 0
             /\ UNCHANGED ret
    BY <2>1, <2>4, ThreadsAreNumbers DEF Ind, TypeInv, Allocating
  <2> QED
    BY <2>2, <2>3, <2>4
<1> QED
  BY <1>1, <1>2, <1>3, <1>4, <1>5 DEF Ind

\* Main creates the fifo thread.
LEMMA CreateFifoStep ==
  ASSUME Ind, CreateFifo
  PROVE  Ind'
<1> USE DEF CreateFifo, Main, statVars, localVars, startVars, breakVars, mainVars
<1>1. TypeInv'
  BY DEF Ind, TypeInv
<1>2. Starting'
  BY DEF Ind, TypeInv, Starting
<1>3. Joining'
  BY DEF Ind, TypeInv, Joining, Finished, Orderly
<1>4. Hits'
  BY DEF Ind, TypeInv, Hits
<1>5. Allocating'
  BY ThreadsAreNumbers DEF Ind, TypeInv, Starting, Running, Joining, Allocating, HasNoStats
<1> QED
  BY <1>1, <1>2, <1>3, <1>4, <1>5 DEF Ind

\* Main looks at shutdown.
LEMMA MainTopStep ==
  ASSUME Ind, MainTop
  PROVE  Ind'
<1> USE DEF MainTop, Main, statVars, localVars, startVars, breakVars, envVars
<1>1. TypeInv'
  BY ThreadsAreNumbers DEF Ind, TypeInv, Running
<1>2. Starting'
  BY DEF Ind, TypeInv, Starting
<1>3. Joining'
  BY DEF Ind, TypeInv, Joining, Finished, Orderly
<1>4. Hits'
  BY DEF Ind, TypeInv, Hits
<1>5. Allocating'
  BY ThreadsAreNumbers DEF Ind, TypeInv, Starting, Running, Joining, Allocating, HasNoStats
<1> QED
  BY <1>1, <1>2, <1>3, <1>4, <1>5 DEF Ind

\* Main prints the statistics of a thread.
LEMMA PrintStatStep ==
  ASSUME Ind, PrintStat
  PROVE  Ind'
<1> USE DEF PrintStat, Main, MaxCycles, statVars, localVars, startVars, breakVars,
     envVars
<1>1. TypeInv'
  BY ThreadsAreNumbers DEF Ind, TypeInv, Running
<1>2. Starting'
  BY DEF Ind, TypeInv, Starting
<1>3. Joining'
  BY DEF Ind, TypeInv, Joining, Finished, Orderly
<1>4. Hits'
  BY DEF Ind, TypeInv, Hits
<1>5. Allocating'
  BY ThreadsAreNumbers DEF Ind, TypeInv, Starting, Running, Joining, Allocating, HasNoStats
<1> QED
  BY <1>1, <1>2, <1>3, <1>4, <1>5 DEF Ind

\* Main leaves its loop when shutdown or allstopped is set.
LEMMA CheckStopStep ==
  ASSUME Ind, CheckStop
  PROVE  Ind'
<1> USE DEF CheckStop, Main, RefreshOnMax, statVars, localVars, startVars, breakVars,
     mainVars, envVars
<1>1. TypeInv'
  BY DEF Ind, TypeInv
<1>2. Starting'
  BY DEF Ind, TypeInv, Starting
<1>3. Joining'
  BY DEF Ind, TypeInv, Joining, Finished, Orderly
<1>4. Hits'
  BY DEF Ind, TypeInv, Hits
<1>5. Allocating'
  BY ThreadsAreNumbers DEF Ind, TypeInv, Starting, Running, Joining, Allocating, HasNoStats
<1> QED
  BY <1>1, <1>2, <1>3, <1>4, <1>5 DEF Ind

\* With --refresh_on_max main waits on the condition.
LEMMA CondWaitStep ==
  ASSUME Ind, CondWait
  PROVE  Ind'
<1> USE DEF CondWait, Main, statVars, localVars, startVars, breakVars, mainVars, envVars
<1>1. TypeInv'
  BY DEF Ind, TypeInv
<1>2. Starting'
  BY DEF Ind, TypeInv, Starting
<1>3. Joining'
  BY DEF Ind, TypeInv, Joining, Finished, Orderly
<1>4. Hits'
  BY DEF Ind, TypeInv, Hits
<1>5. Allocating'
  BY ThreadsAreNumbers DEF Ind, TypeInv, Starting, Running, Joining, Allocating, HasNoStats
<1> QED
  BY <1>1, <1>2, <1>3, <1>4, <1>5 DEF Ind

\* Main sets shutdown at outall.
LEMMA OutAllStep ==
  ASSUME Ind, OutAll
  PROVE  Ind'
<1> USE DEF OutAll, Main, statVars, localVars, startVars, breakVars, envVars
<1>1. TypeInv'
  BY ThreadsAreNumbers DEF Ind, TypeInv, Running
<1>2. Starting'
  BY DEF Ind, TypeInv, Starting
<1>3. Joining'
  BY DEF Ind, TypeInv, Joining, Finished, Orderly
<1>4. Hits'
  BY DEF Ind, TypeInv, Hits
<1>5. Allocating'
  BY ThreadsAreNumbers DEF Ind, TypeInv, Starting, Running, Joining, Allocating, HasNoStats
<1> QED
  BY <1>1, <1>2, <1>3, <1>4, <1>5 DEF Ind

\* usleep(50000); the fifo thread may still be printing.
LEMMA SettleStep ==
  ASSUME Ind, Settle
  PROVE  Ind'
<1> USE DEF Settle, Main, statVars, localVars, startVars, breakVars, mainVars
<1>1. TypeInv'
  BY DEF Ind, TypeInv
<1>2. Starting'
  BY DEF Ind, TypeInv, Starting
<1>3. Joining'
  <2>1. fpc' = "print" => fifolate'
    BY Zenon DEF Settle
  <2> QED
    BY <2>1, ThreadsAreNumbers DEF Ind, TypeInv, Joining, Finished, Orderly
<1>4. Hits'
  BY DEF Ind, TypeInv, Hits
<1>5. Allocating'
  BY ThreadsAreNumbers DEF Ind, TypeInv, Starting, Running, Joining, Allocating, HasNoStats
<1> QED
  BY <1>1, <1>2, <1>3, <1>4, <1>5 DEF Ind

\* Main signals thread i, passes it over, or reads a record that was never allocated.
LEMMA KillThreadStep ==
  ASSUME Ind, KillThread
  PROVE  Ind'
<1> USE DEF KillThread, Main, NextThread, statVars, localVars, startVars, breakVars,
     envVars
<1>1. TypeInv'
  BY ThreadsAreNumbers DEF Ind, TypeInv, Running
<1>2. Starting'
  BY DEF Ind, TypeInv, Starting
<1>3. Joining'
  <2>1. \A t \in Threads : threadstarted[t] = 0 => Finished(t)
    BY DEF Ind, Starting, Finished
  <2>2. tpc' = tpc /\ \A t \in Threads : Finished(t)' <=> Finished(t)
    BY DEF Finished
  <2>3. i < NThreads - 1 \/ i = NThreads - 1
    BY ThreadsAreNumbers DEF Ind, TypeInv
  <2>4. \A t \in Threads : t < NThreads /\ (t < i + 1 => t < i \/ t = i)
    BY ThreadsAreNumbers DEF Ind, TypeInv
  <2> QED
    BY <2>1, <2>2, <2>3, <2>4, ThreadsAreNumbers DEF Ind, TypeInv, Joining, Orderly
<1>4. Hits'
  BY DEF Ind, TypeInv, Hits
<1>5. Allocating'
  BY ThreadsAreNumbers DEF Ind, TypeInv, Starting, Running, Joining, Allocating, HasNoStats
<1> QED
  BY <1>1, <1>2, <1>3, <1>4, <1>5 DEF Ind

\* Main joins thread i.
LEMMA JoinThreadStep ==
  ASSUME Ind, JoinThread
  PROVE  Ind'
<1> USE DEF JoinThread, Main, NextThread, statVars, localVars, startVars, breakVars,
     envVars
<1>1. TypeInv'
  BY ThreadsAreNumbers DEF Ind, TypeInv, Running
<1>2. Starting'
  BY DEF Ind, TypeInv, Starting
<1>3. Joining'
  <2>0. i \in Nat /\ i < NThreads /\ NThreads \in Nat
    BY ThreadsAreNumbers DEF Ind, TypeInv
  <2>1. /\ mpc = "join" /\ UNCHANGED <<ret, shutdown, fpc, fifolate>>
        /\ \/ mpc' = "kill" /\ i' = i + 1
           \/ mpc' = "report" /\ i + 1 = NThreads
    <3>1. /\ mpc = "join" /\ mpc' = NextThread
          /\ i' = IF i + 1 < NThreads THEN i + 1 ELSE 0
      BY DEF JoinThread
    <3>2. UNCHANGED <<ret, shutdown, fpc, fifolate>>
      OBVIOUS
    <3>3. CASE i + 1 < NThreads
      BY <3>1, <3>2, <3>3
    <3>4. CASE ~(i + 1 < NThreads)
      <4>1. i + 1 = NThreads
        BY <2>0, <3>4
      <4> QED
        BY <3>1, <3>2, <3>4, <4>1
    <3> QED
      BY <3>3, <3>4
  <2>2. \A t \in Threads : t < i \/ t = i => Finished(t)'
    BY DEF Ind, Joining, Finished
  <2>3. /\ \A t \in Threads : t < i + 1 => t < i \/ t = i
        /\ i + 1 = NThreads => \A t \in Threads : t < i + 1
    BY ThreadsAreNumbers DEF Ind, TypeInv
  <2>4. Joining
    BY DEF Ind
  <2> QED
    BY ONLY <2>1, <2>2, <2>3, <2>4 DEF Joining, Orderly
<1>4. Hits'
  BY DEF Ind, TypeInv, Hits
<1>5. Allocating'
  BY ThreadsAreNumbers DEF Ind, TypeInv, Starting, Running, Joining, Allocating, HasNoStats
<1> QED
  BY <1>1, <1>2, <1>3, <1>4, <1>5 DEF Ind

\* Main prints and frees the statistics.
LEMMA ReportStep ==
  ASSUME Ind, Report
  PROVE  Ind'
<1> USE DEF Report, Main, TraceLimit, statVars, localVars, startVars, breakVars, mainVars, envVars
<1>1. TypeInv'
  BY DEF Ind, TypeInv
<1>2. Starting'
  BY DEF Ind, TypeInv, Starting
<1>3. Joining'
  BY DEF Ind, TypeInv, Joining, Finished, Orderly
<1>4. Hits'
  BY DEF Ind, TypeInv, Hits
<1>5. Allocating'
  BY ThreadsAreNumbers DEF Ind, TypeInv, Starting, Running, Joining, Allocating, HasNoStats
<1> QED
  BY <1>1, <1>2, <1>3, <1>4, <1>5 DEF Ind

\* The tracer is switched off and main exits.
LEMMA ExitStep ==
  ASSUME Ind, Exit
  PROVE  Ind'
<1> USE DEF Exit, Main, TraceLimit, statVars, localVars, startVars, breakVars, mainVars,
     envVars
<1>1. TypeInv'
  BY DEF Ind, TypeInv
<1>2. Starting'
  BY DEF Ind, TypeInv, Starting
<1>3. Joining'
  BY DEF Ind, TypeInv, Joining, Finished, Orderly
<1>4. Hits'
  BY DEF Ind, TypeInv, Hits
<1>5. Allocating'
  BY ThreadsAreNumbers DEF Ind, TypeInv, Starting, Running, Joining, Allocating, HasNoStats
<1> QED
  BY <1>1, <1>2, <1>3, <1>4, <1>5 DEF Ind

\* The time of --duration passes.
LEMMA ExpireStep ==
  ASSUME Ind, Expire
  PROVE  Ind'
<1> USE DEF Expire, Duration, statVars, localVars, startVars, breakVars, mainVars
<1>1. TypeInv'
  BY DEF Ind, TypeInv
<1>2. Starting'
  BY DEF Ind, TypeInv, Starting
<1>3. Joining'
  BY DEF Ind, TypeInv, Joining, Finished, Orderly
<1>4. Hits'
  BY DEF Ind, TypeInv, Hits
<1>5. Allocating'
  BY ThreadsAreNumbers DEF Ind, TypeInv, Starting, Running, Joining, Allocating, HasNoStats
<1> QED
  BY <1>1, <1>2, <1>3, <1>4, <1>5 DEF Ind

\* SIGINT sets shutdown.
LEMMA SigintStep ==
  ASSUME Ind, Sigint
  PROVE  Ind'
<1> USE DEF Sigint, CondSignal, TraceLimit, RefreshOnMax, statVars, localVars, startVars,
     breakVars, mainVars
<1>1. TypeInv'
  BY DEF Ind, TypeInv
<1>2. Starting'
  BY DEF Ind, TypeInv, Starting
<1>3. Joining'
  BY DEF Ind, TypeInv, Joining, Finished, Orderly
<1>4. Hits'
  BY DEF Ind, TypeInv, Hits
<1>5. Allocating'
  BY ThreadsAreNumbers DEF Ind, TypeInv, Starting, Running, Joining, Allocating, HasNoStats
<1> QED
  BY <1>1, <1>2, <1>3, <1>4, <1>5 DEF Ind

\* The wait on the condition ends by itself.
LEMMA SpuriousWakeupStep ==
  ASSUME Ind, SpuriousWakeup
  PROVE  Ind'
<1> USE DEF SpuriousWakeup, Main, statVars, localVars, startVars, breakVars, mainVars,
     envVars
<1>1. TypeInv'
  BY DEF Ind, TypeInv
<1>2. Starting'
  BY DEF Ind, TypeInv, Starting
<1>3. Joining'
  BY DEF Ind, TypeInv, Joining, Finished, Orderly
<1>4. Hits'
  BY DEF Ind, TypeInv, Hits
<1>5. Allocating'
  BY ThreadsAreNumbers DEF Ind, TypeInv, Starting, Running, Joining, Allocating, HasNoStats
<1> QED
  BY <1>1, <1>2, <1>3, <1>4, <1>5 DEF Ind

\* Nothing happens.
LEMMA StutterStep ==
  ASSUME Ind, UNCHANGED vars
  PROVE  Ind'
  BY DEF Ind, TypeInv, Starting, Joining, Finished, Orderly, Hits, Allocating, HasNoStats,
     vars

\* The invariant is inductive.
THEOREM Invariance == Spec => []Ind
<1>1. Ind /\ [Next]_vars => Ind'
  <2> SUFFICES ASSUME Ind, [Next]_vars
               PROVE  Ind'
    OBVIOUS
  <2>1. CASE \E t \in Threads : ThreadStep(t) \/ DeliverSigterm(t)
    BY <2>1, SetSchedulerStep, BeginStep, TopStep, WakeStep, MeasureStep,
       CheckDurationStep, BreakTraceStep, BreakShutdownStep, BreakLockStep, RecordStep,
       OutStep, DeliverSigtermStep DEF ThreadStep
  <2>2. CASE MainStep
    BY <2>2, CreateThreadStep, CreateFifoStep, MainTopStep, PrintStatStep, CheckStopStep,
       CondWaitStep, OutAllStep, SettleStep, KillThreadStep, JoinThreadStep, ReportStep,
       ExitStep DEF MainStep
  <2>3. CASE StartBarriers
    BY <2>3, GlobaltBarrierStep, StampStep, AlignBarrierStep DEF StartBarriers
  <2> QED
    BY <2>1, <2>2, <2>3, FifoTopStep, FifoPrintStep, ExpireStep, SigintStep,
       SpuriousWakeupStep, StutterStep DEF Next, Terminated
<1> QED
  BY <1>1, IndInit, PTL DEF Spec

-----------------------------------------------------------------------------
(* The properties *)

\* With -A every thread starts from the stamp that thread 0 takes between the two
\* barriers, never from the zeroed globalt, however many threads there are.
THEOREM StartsAligned == Spec => []AlignedStart
<1>1. Ind => AlignedStart
  BY DEF Ind, Starting, AlignedStart
<1> QED
  BY <1>1, Invariance, PTL

\* Main frees the statistics only when every timer thread is joined or was never
\* created, and the fifo thread has left its loop or was late, whichever call failed.
\* A crash comes from that late thread or from an allocation that failed half-way.
THEOREM FreesAfterJoin == Spec => []FreedAfterJoin
<1>1. Ind => FreedAfterJoin
  BY DEF Ind, TypeInv, Joining, Finished, Orderly, Allocating, TraceLimit,
     FreedAfterJoin
<1> QED
  BY <1>1, Invariance, PTL

\* A run in which some thread hit --breaktrace ends with the tracer off and reports
\* the id and the value of a thread that hit it.
THEOREM ReportsBreak == Spec => []BreakReported
<1>1. Ind => BreakReported
  <2> SUFFICES ASSUME Ind, ret = "SUCCESS", NEW t \in Threads, stopped[t] = 1
               PROVE  /\ tracing = 0
                      /\ break_thread_id # NoThread /\ stopped[break_thread_id] = 1
                      /\ break_thread_value > TraceLimit
    BY DEF BreakReported
  <2>1. Finished(t)
    BY DEF Ind, Joining, Orderly
  <2> QED
    BY <2>1 DEF Ind, Hits, Finished, TraceLimit
<1> QED
  BY <1>1, Invariance, PTL
=============================================================================

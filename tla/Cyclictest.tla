----------------------------- MODULE Cyclictest -----------------------------
(***************************************************************************)
(* cyclictest (src/src/cyclictest/cyclictest.c): main creates NThreads     *)
(* timer threads, prints their statistics until somebody stops the run,    *)
(* kills and joins the threads, reports and frees everything.  The run is  *)
(* stopped by a thread that reaches --loops, by --duration, by a latency   *)
(* above --breaktrace, or by a signal.                                     *)
(*                                                                         *)
(* A measured latency is a number 0 .. MaxLatency chosen by the kernel;    *)
(* how it is computed and stored is the subject of modules CyclicTimer and *)
(* CyclicStats.  shutdown++ by several threads only ever makes the flag    *)
(* nonzero, so it is 0 or 1.                                               *)
(***************************************************************************)
EXTENDS Integers, FiniteSets

CONSTANTS
  NThreads,      \* num_threads, -t
  CommandLines,  \* the command lines the program is started with
  MaxLatency,    \* bound: the largest latency a thread measures
  Failures       \* calls that may fail in this instance

Fallible == {"pthread_create", "setscheduler", "values"}

\* What process_options leaves in the globals: max_cycles (-l, 0 = endless),
\* tracelimit (-b, 0 = none), duration (-D), refresh_on_max (-M), aligned or
\* secaligned, verbose (-v), MODE_CLOCK_NANOSLEEP, in which a signal interrupts the
\* wait, and use_fifo (-F).
Options ==
  [max_cycles : Nat, tracelimit : Nat, duration : BOOLEAN,
   refresh_on_max : BOOLEAN, aligned : BOOLEAN, verbose : BOOLEAN, nanosleep : BOOLEAN,
   use_fifo : BOOLEAN]

ASSUME ConstantsAssumption ==
  /\ NThreads \in Nat \ {0}
  /\ MaxLatency \in Nat
  /\ CommandLines \subseteq Options
  /\ Failures \subseteq Fallible

Threads == 0 .. (NThreads - 1)
NoThread == -1

VARIABLES
  opt,                \* the command line of this run
  tpc, mpc,           \* where the timer threads and main are
  shutdown, tracing,  \* the globals, 0 or 1
  threadstarted, cycles, max,   \* the fields of statistics[t]
  diff, stopped,      \* the locals of timerthread
  globalt, start,     \* 1 iff globalt is set; the stamp start[t] a thread read
  pending,            \* pending[t]: pthread_kill(t, SIGTERM) not delivered yet
  break_thread_id, break_thread_value,
  fpc, fifolate,      \* where the fifo thread is; history: it was still printing
                      \*   when main had waited for 50 ms in outall
  i, allstopped, allocated,     \* main's locals; statistics[0..allocated-1] exist
  expired, sigint,    \* a thread would see now >= stop; SIGINT has been sent
  ret                 \* how the process ended: "none" while it runs

statVars  == <<threadstarted, cycles, max>>
localVars == <<diff, stopped>>
startVars == <<globalt, start>>
breakVars == <<break_thread_id, break_thread_value>>
mainVars  == <<i, allstopped, allocated>>
envVars   == <<opt, fpc, fifolate, expired, sigint>>
vars == <<opt, tpc, mpc, shutdown, tracing, threadstarted, cycles, max, diff, stopped,
          globalt, start, pending, break_thread_id, break_thread_value, fpc, fifolate, i,
          allstopped, allocated, expired, sigint, ret>>

MaxCycles    == opt.max_cycles
TraceLimit   == opt.tracelimit
Duration     == opt.duration
RefreshOnMax == opt.refresh_on_max
Aligned      == opt.aligned
Verbose      == opt.verbose
Nanosleep    == opt.nanosleep
UseFifo      == opt.use_fifo

Running    == {"top", "wait", "measure", "duration", "break", "brkstop",
               "brklock", "record"}
Init ==
  /\ opt \in CommandLines
  /\ tpc = [t \in Threads |-> "unborn"] /\ mpc = "create"
  /\ shutdown = 0 /\ tracing = 1
  /\ threadstarted = [t \in Threads |-> 0]
  /\ cycles = [t \in Threads |-> 0] /\ max = [t \in Threads |-> 0]
  /\ diff = [t \in Threads |-> 0] /\ stopped = [t \in Threads |-> 0]
  /\ globalt = 0 /\ start = [t \in Threads |-> 0]
  /\ pending = [t \in Threads |-> 0]
  /\ break_thread_id = NoThread /\ break_thread_value = 0
  /\ fpc = "unborn" /\ fifolate = FALSE
  /\ i = 0 /\ allstopped = 0 /\ allocated = 0
  /\ expired = 0 /\ sigint = 0 /\ ret = "none"

-----------------------------------------------------------------------------
(* timerthread *)

Thread(t, from, to) ==
  ret = "none" /\ tpc[t] = from /\ tpc' = [tpc EXCEPT ![t] = to]

\* pthread_cond_signal(&refresh_on_max_cond): wakes main if it waits, and is
\* forgotten if it does not.
CondSignal(sent) == mpc' = IF sent /\ mpc = "cond_wait" THEN "top" ELSE mpc

\* setscheduler(): fatal() ends the process when it fails.
SetScheduler(t) ==
  /\ \/ /\ Thread(t, "sched", IF Aligned THEN "globalt_barr" ELSE "begin")
        /\ UNCHANGED ret
     \/ /\ "setscheduler" \in Failures
        /\ Thread(t, "sched", "gone")
        /\ ret' = "fatal"
  /\ UNCHANGED <<mpc, shutdown, tracing, statVars, localVars, startVars, pending,
                 breakVars, mainVars, envVars>>

\* The two barriers around the stamp that thread 0 takes for everybody.
GlobaltBarrier ==
  /\ ret = "none"
  /\ \A t \in Threads : tpc[t] = "globalt_barr"
  /\ tpc' = [t \in Threads |-> IF t = 0 THEN "stamp" ELSE "align_barr"]
  /\ UNCHANGED <<mpc, shutdown, tracing, statVars, localVars, startVars, pending,
                 breakVars, mainVars, envVars, ret>>

Stamp ==
  /\ Thread(0, "stamp", "align_barr")
  /\ globalt' = 1
  /\ UNCHANGED <<mpc, shutdown, tracing, statVars, localVars, start, pending,
                 breakVars, mainVars, envVars, ret>>

\* Mutant: a thread does not wait for the others at align_barr.
AlignBarrier_Open ==
  /\ \E t \in Threads : Thread(t, "align_barr", "begin")
  /\ UNCHANGED <<mpc, shutdown, tracing, statVars, localVars, startVars, pending,
                 breakVars, mainVars, envVars, ret>>

AlignBarrier ==
  /\ ret = "none"
  /\ \A t \in Threads : tpc[t] = "align_barr"
  /\ tpc' = [t \in Threads |-> "begin"]
  /\ UNCHANGED <<mpc, shutdown, tracing, statVars, localVars, startVars, pending,
                 breakVars, mainVars, envVars, ret>>

\* now, next and stop are set, the timer is armed, threadstarted++.
Begin(t) ==
  /\ Thread(t, "begin", "top")
  /\ start' = [start EXCEPT ![t] = IF Aligned THEN globalt ELSE 1]
  /\ threadstarted' = [threadstarted EXCEPT ![t] = @ + 1]
  /\ UNCHANGED <<mpc, shutdown, tracing, cycles, max, localVars, globalt, pending,
                 breakVars, mainVars, envVars, ret>>

\* while (!shutdown)
Top(t) ==
  /\ Thread(t, "top", IF shutdown = 1 THEN "out" ELSE "wait")
  /\ UNCHANGED <<mpc, shutdown, tracing, statVars, localVars, startVars, pending,
                 breakVars, mainVars, envVars, ret>>

\* The period is over: the thread reads the clock.
Wake(t) ==
  /\ Thread(t, "wait", "measure")
  /\ \E d \in 0 .. MaxLatency : diff' = [diff EXCEPT ![t] = d]
  /\ UNCHANGED <<mpc, shutdown, tracing, statVars, stopped, startVars, pending,
                 breakVars, mainVars, envVars, ret>>

Measure(t) ==
  /\ Thread(t, "measure", "duration")
  /\ max' = [max EXCEPT ![t] = IF diff[t] > @ THEN diff[t] ELSE @]
  /\ CondSignal(RefreshOnMax /\ diff[t] > max[t])
  /\ UNCHANGED <<shutdown, tracing, threadstarted, cycles, localVars, startVars,
                 pending, breakVars, mainVars, envVars, ret>>

\* "if (duration && (calcdiff(now, stop) >= 0)) shutdown++"
CheckDuration(t) ==
  /\ Thread(t, "duration", "break")
  /\ shutdown' = IF Duration /\ expired = 1 THEN 1 ELSE shutdown
  /\ UNCHANGED <<mpc, tracing, statVars, localVars, startVars, pending, breakVars,
                 mainVars, envVars, ret>>

\* A latency above the limit: stop the tracer, then shut down, then leave the
\* thread's id (the first one stays) and the value (the last one stays).
BreakTrace(t) ==
  LET hit == stopped[t] = 0 /\ TraceLimit > 0 /\ diff[t] > TraceLimit
  IN /\ Thread(t, "break", IF hit THEN "brkstop" ELSE "record")
     /\ stopped' = [stopped EXCEPT ![t] = IF hit THEN 1 ELSE @]
     /\ tracing' = IF hit THEN 0 ELSE tracing
     /\ UNCHANGED <<mpc, shutdown, statVars, diff, startVars, pending, breakVars,
                    mainVars, envVars, ret>>

BreakShutdown(t) ==
  /\ Thread(t, "brkstop", "brklock")
  /\ shutdown' = 1
  /\ UNCHANGED <<mpc, tracing, statVars, localVars, startVars, pending, breakVars,
                 mainVars, envVars, ret>>

\* Mutant: the test is inverted.
BreakLock_Inverted(t) ==
  /\ Thread(t, "brklock", "record")
  /\ break_thread_id' = IF break_thread_id # NoThread THEN t ELSE break_thread_id
  /\ break_thread_value' = diff[t]
  /\ UNCHANGED <<mpc, shutdown, tracing, statVars, localVars, startVars, pending,
                 mainVars, envVars, ret>>

BreakLock(t) ==
  /\ Thread(t, "brklock", "record")
  /\ break_thread_id' = IF break_thread_id = NoThread THEN t ELSE break_thread_id
  /\ break_thread_value' = diff[t]
  /\ UNCHANGED <<mpc, shutdown, tracing, statVars, localVars, startVars, pending,
                 mainVars, envVars, ret>>

\* values, histogram, cycles++, the next period; "max_cycles == cycles" ends it.
\* Bound: cycles stays where it is above max_cycles.
Record(t) ==
  LET c == IF cycles[t] > MaxCycles THEN cycles[t] ELSE cycles[t] + 1
  IN /\ Thread(t, "record", IF MaxCycles > 0 /\ c = MaxCycles THEN "out" ELSE "top")
     /\ cycles' = [cycles EXCEPT ![t] = c]
     /\ UNCHANGED <<mpc, shutdown, tracing, threadstarted, max, localVars, startVars,
                    pending, breakVars, mainVars, envVars, ret>>

Out(t) ==
  /\ Thread(t, "out", "gone")
  /\ threadstarted' = [threadstarted EXCEPT ![t] = -1]
  /\ UNCHANGED <<mpc, shutdown, tracing, cycles, max, localVars, startVars, pending,
                 breakVars, mainVars, envVars, ret>>

\* sighand(SIGTERM) in the thread main killed; clock_nanosleep returns EINTR,
\* sigwait goes on waiting for its SIGALRM.
DeliverSigterm(t) ==
  /\ ret = "none" /\ pending[t] = 1
  /\ pending' = [pending EXCEPT ![t] = 0]
  /\ tpc' = [tpc EXCEPT ![t] = IF @ = "wait" /\ Nanosleep THEN "out" ELSE @]
  /\ shutdown' = 1
  /\ tracing' = IF TraceLimit > 0 THEN 0 ELSE tracing
  /\ CondSignal(RefreshOnMax)
  /\ UNCHANGED <<statVars, localVars, startVars, breakVars, mainVars, envVars, ret>>

ThreadStep(t) ==
  \/ SetScheduler(t) \/ Begin(t) \/ Top(t) \/ Wake(t) \/ Measure(t)
  \/ CheckDuration(t) \/ BreakTrace(t) \/ BreakShutdown(t) \/ BreakLock(t)
  \/ Record(t) \/ Out(t)

StartBarriers == GlobaltBarrier \/ Stamp \/ AlignBarrier

-----------------------------------------------------------------------------
(* fifothread *)

Fifo(from, to) == ret = "none" /\ fpc = from /\ fpc' = to

fifoUnchanged == <<tpc, mpc, shutdown, tracing, statVars, localVars, startVars, pending,
                   breakVars, mainVars, opt, fifolate, expired, sigint>>

\* while (!shutdown); somebody has opened the fifo for reading
FifoTop ==
  /\ Fifo("top", IF shutdown = 1 THEN "gone" ELSE "print")
  /\ UNCHANGED <<fifoUnchanged, ret>>

\* print_stat() of every thread, from statistics that may be freed by now
FifoPrint ==
  /\ Fifo("print", "top")
  /\ ret' \in {"none"} \cup (IF mpc = "freed" THEN {"SIGSEGV"} ELSE {})
  /\ UNCHANGED fifoUnchanged

-----------------------------------------------------------------------------
(* main *)

Main(from, to) == ret = "none" /\ mpc = from /\ mpc' = to

\* One iteration of the creation loop.  A failing allocation of the values
\* buffer goes to outall, a failing pthread_create is fatal.
CreateThread ==
  /\ allocated' = i + 1
  /\ \/ /\ Main("create", IF i + 1 < NThreads THEN "create"
                         ELSE IF UseFifo THEN "fifo" ELSE "top")
        /\ tpc' = [tpc EXCEPT ![i] = "sched"]
        /\ threadstarted' = [threadstarted EXCEPT ![i] = 1]
        /\ i' = IF i + 1 < NThreads THEN i + 1 ELSE 0
        /\ UNCHANGED ret
     \/ /\ Verbose /\ "values" \in Failures
        /\ Main("create", "outall")
        /\ UNCHANGED <<tpc, threadstarted, i, ret>>
     \/ /\ "pthread_create" \in Failures
        /\ Main("create", "exit")
        /\ threadstarted' = [threadstarted EXCEPT ![i] = 1]
        /\ ret' = "fatal"
        /\ UNCHANGED <<tpc, i>>
  /\ UNCHANGED <<shutdown, tracing, cycles, max, localVars, startVars, pending,
                 breakVars, allstopped, envVars>>

\* pthread_create() of fifothread, or of nothing if mkfifo() fails there
CreateFifo ==
  /\ Main("fifo", "top")
  /\ fpc' \in {"top", "gone"}
  /\ UNCHANGED <<tpc, shutdown, tracing, statVars, localVars, startVars, pending,
                 breakVars, mainVars, opt, fifolate, expired, sigint, ret>>

\* while (!shutdown)
MainTop ==
  /\ Main("top", IF shutdown = 1 THEN "outall" ELSE "stat")
  /\ i' = 0 /\ allstopped' = 0
  /\ UNCHANGED <<tpc, shutdown, tracing, statVars, localVars, startVars, pending,
                 breakVars, allocated, envVars, ret>>

\* Mutant: > for >=.
PrintStat_Greater ==
  /\ Main("stat", IF i + 1 < NThreads THEN "stat" ELSE "check")
  /\ allstopped' = IF MaxCycles > 0 /\ cycles[i] > MaxCycles THEN 1 ELSE allstopped
  /\ i' = IF i + 1 < NThreads THEN i + 1 ELSE 0
  /\ UNCHANGED <<tpc, shutdown, tracing, statVars, localVars, startVars, pending,
                 breakVars, allocated, envVars, ret>>

\* print_stat of one thread; a thread that has done its loops sets allstopped.
PrintStat ==
  /\ Main("stat", IF i + 1 < NThreads THEN "stat" ELSE "check")
  /\ allstopped' = IF MaxCycles > 0 /\ cycles[i] >= MaxCycles THEN 1 ELSE allstopped
  /\ i' = IF i + 1 < NThreads THEN i + 1 ELSE 0
  /\ UNCHANGED <<tpc, shutdown, tracing, statVars, localVars, startVars, pending,
                 breakVars, allocated, envVars, ret>>

\* usleep(10000), then "if (shutdown || allstopped) break"
CheckStop ==
  /\ Main("check", IF shutdown = 1 \/ allstopped = 1 THEN "outall"
                   ELSE IF RefreshOnMax THEN "lock" ELSE "top")
  /\ UNCHANGED <<tpc, shutdown, tracing, statVars, localVars, startVars, pending,
                 breakVars, mainVars, envVars, ret>>

\* pthread_cond_wait, without a predicate
CondWait ==
  /\ Main("lock", "cond_wait")
  /\ UNCHANGED <<tpc, shutdown, tracing, statVars, localVars, startVars, pending,
                 breakVars, mainVars, envVars, ret>>

OutAll ==
  /\ Main("outall", "usleep")
  /\ shutdown' = 1
  /\ i' = 0
  /\ UNCHANGED <<tpc, tracing, statVars, localVars, startVars, pending, breakVars,
                 allstopped, allocated, envVars, ret>>

\* usleep(50000)
Settle ==
  /\ Main("usleep", "kill")
  /\ fifolate' = (fpc = "print")
  /\ UNCHANGED <<tpc, shutdown, tracing, statVars, localVars, startVars, pending,
                 breakVars, mainVars, opt, fpc, expired, sigint, ret>>

NextThread == IF i + 1 < NThreads THEN "kill" ELSE "report"

\* "if (threadstarted > 0) pthread_kill": statistics[i] is dereferenced even if
\* the creation loop was left before it was allocated.
KillThread ==
  /\ \/ /\ i >= allocated
        /\ Main("kill", "exit")
        /\ ret' = "SIGSEGV"
        /\ UNCHANGED <<pending, i>>
     \/ /\ i < allocated /\ threadstarted[i] = 0
        /\ Main("kill", NextThread)
        /\ i' = IF i + 1 < NThreads THEN i + 1 ELSE 0
        /\ UNCHANGED <<pending, ret>>
     \/ /\ i < allocated /\ threadstarted[i] # 0
        /\ Main("kill", "join")
        /\ pending' = [pending EXCEPT ![i] = IF threadstarted[i] > 0 THEN 1 ELSE @]
        /\ UNCHANGED <<i, ret>>
  /\ UNCHANGED <<tpc, shutdown, tracing, statVars, localVars, startVars, breakVars,
                 allstopped, allocated, envVars>>

\* Mutant: the threads are not joined.
JoinThread_Detached ==
  /\ Main("join", NextThread)
  /\ i' = IF i + 1 < NThreads THEN i + 1 ELSE 0
  /\ UNCHANGED <<tpc, shutdown, tracing, statVars, localVars, startVars, pending,
                 breakVars, allstopped, allocated, envVars, ret>>

JoinThread ==
  /\ tpc[i] = "gone"
  /\ Main("join", NextThread)
  /\ i' = IF i + 1 < NThreads THEN i + 1 ELSE 0
  /\ UNCHANGED <<tpc, shutdown, tracing, statVars, localVars, startVars, pending,
                 breakVars, allstopped, allocated, envVars, ret>>

\* The thread whose values buffer could not be allocated: par->stats of its
\* parameter block is not set, and it is never started.
HasNoStats(t) == t < allocated /\ threadstarted[t] = 0

\* The reports and the frees; nobody has joined the fifo thread.  With --breaktrace
\* print_tids() dereferences par->stats of every thread.
Report ==
  /\ \/ /\ TraceLimit > 0 /\ \E t \in Threads : HasNoStats(t)
        /\ Main("report", "exit")
        /\ ret' = "SIGSEGV"
     \/ /\ ~(TraceLimit > 0 /\ \E t \in Threads : HasNoStats(t))
        /\ Main("report", "freed")
        /\ UNCHANGED ret
  /\ UNCHANGED <<tpc, shutdown, tracing, statVars, localVars, startVars, pending,
                 breakVars, mainVars, envVars>>

\* tracing(0), exit(ret)
Exit ==
  /\ Main("freed", "exit")
  /\ tracing' = IF TraceLimit > 0 THEN 0 ELSE tracing
  /\ ret' = IF allocated = NThreads /\ threadstarted[NThreads - 1] # 0
            THEN "SUCCESS" ELSE "FAILURE"
  /\ UNCHANGED <<tpc, shutdown, statVars, localVars, startVars, pending, breakVars,
                 mainVars, envVars>>

MainStep ==
  \/ CreateThread \/ CreateFifo \/ MainTop \/ PrintStat \/ CheckStop \/ CondWait
  \/ OutAll \/ Settle \/ KillThread \/ JoinThread \/ Report \/ Exit

-----------------------------------------------------------------------------
(* The environment: --duration passes, a SIGINT, which main takes because it  *)
(* does not block it, and the spurious wakeup POSIX allows.                   *)

Expire ==
  /\ ret = "none" /\ Duration /\ expired = 0
  /\ expired' = 1
  /\ UNCHANGED <<tpc, mpc, shutdown, tracing, statVars, localVars, startVars,
                 pending, breakVars, mainVars, opt, fpc, fifolate, sigint, ret>>

Sigint ==
  /\ ret = "none" /\ sigint = 0
  /\ sigint' = 1
  /\ shutdown' = 1
  /\ tracing' = IF TraceLimit > 0 THEN 0 ELSE tracing
  /\ CondSignal(RefreshOnMax)
  /\ UNCHANGED <<tpc, statVars, localVars, startVars, pending, breakVars, mainVars,
                 opt, fpc, fifolate, expired, ret>>

SpuriousWakeup ==
  /\ Main("cond_wait", "top")
  /\ UNCHANGED <<tpc, shutdown, tracing, statVars, localVars, startVars, pending,
                 breakVars, mainVars, envVars, ret>>

Terminated == ret # "none" /\ UNCHANGED vars

Next ==
  \/ \E t \in Threads : ThreadStep(t) \/ DeliverSigterm(t)
  \/ StartBarriers \/ FifoTop \/ FifoPrint
  \/ MainStep
  \/ Expire \/ Sigint \/ SpuriousWakeup
  \/ Terminated

\* The kernel runs every thread, delivers signals and lets time pass.
Fairness ==
  /\ \A t \in Threads : WF_vars(ThreadStep(t)) /\ WF_vars(DeliverSigterm(t))
  /\ WF_vars(StartBarriers)
  /\ WF_vars(MainStep)
  /\ WF_vars(Expire)

Spec     == Init /\ [][Next]_vars
FairSpec == Spec /\ Fairness

-----------------------------------------------------------------------------
(* Properties *)

\* With -A every thread starts from the stamp of this run, never from the
\* zeroed globalt.
AlignedStart == \A t \in Threads : tpc[t] \in Running => start[t] = 1

\* The statistics are reported and freed only when no thread can touch them: the
\* timer threads are joined, and the fifo thread, which is not, has seen shutdown
\* unless it was in the middle of its printing for more than the 50 ms of outall.
\* Only that fifo thread, or an allocation that failed half-way, makes the cleanup
\* touch what is not there: it crashes in the kill loop if a thread but the last has
\* no statistics, and in print_tids() if the last has none and --breaktrace is given.
FreedAfterJoin ==
  /\ mpc \in {"freed", "exit"} /\ ret \in {"none", "SUCCESS", "FAILURE"} =>
       /\ \A t \in Threads : tpc[t] \in {"gone", "unborn"}
       /\ fpc = "print" => fifolate
  /\ ret = "SIGSEGV" =>
       \/ fifolate
       \/ \E t \in Threads : HasNoStats(t) /\ (t + 1 < NThreads \/ TraceLimit > 0)

\* A run in which a thread hit the limit ends with the tracer off and with the
\* id and the value of a hit to report.
BreakReported ==
  ret = "SUCCESS" /\ (\E t \in Threads : stopped[t] = 1) =>
    /\ tracing = 0
    /\ break_thread_id # NoThread /\ stopped[break_thread_id] = 1
    /\ break_thread_value > TraceLimit

\* "Cyclictest is stopped once the number of timer intervals has been reached."
\* (cyclictest.8), and so it is by whatever raises shutdown: the process ends.  The
\* exception: with --refresh_on_max main may stay in a condition wait that nobody
\* signals any more.
ShutdownCompletes ==
  [](shutdown = 1 \/ (MaxCycles > 0 /\ \E t \in Threads : cycles[t] = MaxCycles)
       => <>(ret # "none" \/ (RefreshOnMax /\ mpc = "cond_wait")))
=============================================================================

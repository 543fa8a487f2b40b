----------------------------- MODULE Signaltest -----------------------------
(***************************************************************************)
(* signaltest (src/src/signaltest/signaltest.c): a ring of threads that    *)
(* pass one SIGUSR1 on.  Every thread measures how long the signal takes   *)
(* to come round; main prints what thread 0 measured (-v) until the loops  *)
(* are done or a signal sets shutdown, and then joins all threads.         *)
(*                                                                         *)
(* Time is counted in hops: a clock reading is the number of pthread_kill  *)
(* calls made so far in the ring.  The k-th value a thread stores is k,    *)
(* from 1 on, so that a line of output tells which measurement it shows; a *)
(* slot of the buffer that nothing was stored in is marked.                *)
(***************************************************************************)
EXTENDS Integers

CONSTANTS
  NumThreads,         \* num_threads, -t
  MaxCycles,          \* max_cycles, -l (0, endless, is left out)
  ValbufSize,         \* VALBUF_SIZE, a power of two
  Tracelimit          \* TRUE iff -b was given

ASSUME ConstantsAssumption ==
  /\ NumThreads \in Nat /\ NumThreads >= 2
  /\ MaxCycles \in Nat \ {0}
  /\ ValbufSize \in Nat /\ ValbufSize >= 2
  /\ Tracelimit \in BOOLEAN

Threads == 0 .. (NumThreads - 1)
Nobody  == NumThreads       \* a pthread_t that was never written

\* A slot as calloc() leaves it.  It is printed like a latency of 0, and is none.
Unstored == -1

VARIABLES
  pc, mpc,            \* where the threads and main are
  pending,            \* SIGUSR1 is pending at thread n
  tothread,           \* stat[n].tothread
  first,              \* thread n has not passed the signal on yet
  before, diff,       \* the thread's stamp and its latency, in hops
  act, cycles,        \* stat[n].act and stat[n].cycles
  values, cyclesread, \* stat[0].values and stat[0].cyclesread
  line,               \* the last line printed: its count and value, and how far
                      \*   thread 0 was ahead of it
  shutdown,           \* the flag
  i, allstopped,      \* main's locals
  hops,               \* the clock
  mishaps             \* history: what has gone wrong

ringVars   == <<pending, tothread, hops>>
threadVars == <<first, before, diff, act, cycles>>
mainVars   == <<cyclesread, line, i, allstopped>>
vars == <<pc, mpc, pending, tothread, first, before, diff, act, cycles, values,
          cyclesread, line, shutdown, i, allstopped, hops, mishaps>>

Init ==
  /\ pc = [n \in Threads |-> "unborn"] /\ mpc = "create"
  /\ pending = [n \in Threads |-> FALSE]
  /\ tothread = [n \in Threads |-> Nobody]
  /\ first = [n \in Threads |-> TRUE]
  /\ before = [n \in Threads |-> 0] /\ diff = [n \in Threads |-> 0]
  /\ act = [n \in Threads |-> 0] /\ cycles = [n \in Threads |-> 0]
  /\ values = [s \in 0 .. (ValbufSize - 1) |-> Unstored]
  /\ cyclesread = 0 /\ line = [c |-> 0, v |-> Unstored, ahead |-> 0]
  /\ shutdown = 0 /\ i = 0 /\ allstopped = FALSE
  /\ hops = 0 /\ mishaps = {}

-----------------------------------------------------------------------------
(* signalthread *)

Running == mpc \notin {"exit", "crashed"}

Thread(n, from, to) == Running /\ pc[n] = from /\ pc' = [pc EXCEPT ![n] = to]

\* threadstarted++ makes it 2: the thread blocks SIGUSR1 and may be linked.
Start(n) ==
  /\ Thread(n, "born", "top")
  /\ before' = [before EXCEPT ![n] = hops]
  /\ UNCHANGED <<mpc, ringVars, first, diff, act, cycles, values, mainVars,
                 shutdown, mishaps>>

\* while (!shutdown)
Top(n) ==
  /\ Thread(n, "top", IF shutdown = 0 THEN "sigwait" ELSE "ended")
  /\ UNCHANGED <<mpc, ringVars, threadVars, values, mainVars, shutdown, mishaps>>

\* sigwait() goes on waiting after SIGINT or SIGTERM was handled.
Sigwait(n) ==
  /\ pending[n]
  /\ Thread(n, "sigwait", "send")
  /\ pending' = [pending EXCEPT ![n] = FALSE]
  /\ diff' = [diff EXCEPT ![n] = hops - before[n]]
  /\ UNCHANGED <<mpc, tothread, hops, first, before, act, cycles, values, mainVars,
                 shutdown, mishaps>>

\* The sleep of thread 0, the stamp, pthread_kill(stat->tothread).  The first time
\* round nothing is measured.
Pass(n, next) ==
  /\ tothread[n] \in Threads /\ pc[tothread[n]] # "joined"
  /\ Thread(n, "send", next)
  /\ pending' = [pending EXCEPT ![tothread[n]] = TRUE]
  /\ first' = [first EXCEPT ![n] = FALSE]
  /\ before' = [before EXCEPT ![n] = hops]
  /\ hops' = hops + 1
  /\ UNCHANGED <<mpc, tothread, diff, act, cycles, values, mainVars, shutdown,
                 mishaps>>

\* Mutant: the thread looks at shutdown again before it passes the signal on.
Send_ChecksShutdown(n) ==
  \/ shutdown = 0 /\ Pass(n, IF first[n] THEN "top" ELSE "measure")
  \/ /\ shutdown # 0
     /\ Thread(n, "send", "ended")
     /\ UNCHANGED <<mpc, ringVars, threadVars, values, mainVars, shutdown, mishaps>>

Send(n) == Pass(n, IF first[n] THEN "top" ELSE "measure")

\* pthread_kill() of a thread that was never linked, or that main has joined,
\* follows a pointer to nothing; a joined thread's memory may still be mapped.
SendNowhere(n) ==
  /\ tothread[n] \in Threads => pc[tothread[n]] = "joined"
  /\ Thread(n, "send", IF first[n] THEN "top" ELSE "measure")
  /\ mpc' \in {"crashed"} \cup (IF tothread[n] = Nobody THEN {} ELSE {mpc})
  /\ first' = [first EXCEPT ![n] = FALSE]
  /\ before' = [before EXCEPT ![n] = hops]
  /\ UNCHANGED <<ringVars, diff, act, cycles, values, mainVars, shutdown, mishaps>>

\* min, max, avg, the trace limit, act and cycles++
Measure(n) ==
  /\ Thread(n, "measure", "store")
  /\ \E over \in IF Tracelimit THEN BOOLEAN ELSE {FALSE} :
       shutdown' = IF over THEN 1 ELSE shutdown
  /\ act' = [act EXCEPT ![n] = diff[n]]
  /\ cycles' = [cycles EXCEPT ![n] = @ + 1]
  /\ UNCHANGED <<mpc, ringVars, first, before, diff, values, mainVars, mishaps>>

\* values[cycles & bufmsk] = diff; nobody reads those of the other threads.  Then
\* the loops.
Store(n) ==
  /\ Thread(n, "store", IF cycles[n] = MaxCycles THEN "ended" ELSE "top")
  /\ values' = IF n = 0 THEN [values EXCEPT ![cycles[0] % ValbufSize] = cycles[0]]
                        ELSE values
  /\ UNCHANGED <<mpc, ringVars, threadVars, mainVars, shutdown, mishaps>>

ThreadStep(n) ==
  \/ Start(n) \/ Top(n) \/ Sigwait(n) \/ Send(n) \/ SendNowhere(n)
  \/ Measure(n) \/ Store(n)

-----------------------------------------------------------------------------
(* main *)

Main(from, to) == mpc = from /\ mpc' = to

\* calloc() of the values may fail; pthread_create() may fail too, unnoticed.
Create ==
  /\ Main("create", IF i + 1 < NumThreads THEN "create" ELSE "start")
  /\ i' = i + 1
  /\ \E born \in {"born", "failed"} :
       /\ pc' = [pc EXCEPT ![i] = born]
       /\ mishaps' = mishaps \cup ({born} \ {"born"})
  /\ UNCHANGED <<ringVars, threadVars, values, cyclesread, line, allstopped, shutdown>>

NoValues ==
  /\ Main("create", "outall")
  /\ mishaps' = mishaps \cup {"nomem"}
  /\ UNCHANGED <<pc, ringVars, threadVars, values, mainVars, shutdown>>

threadstarted(n) == CASE pc[n] = "unborn" -> 0
                      [] pc[n] \in {"born", "failed"} -> 1
                      [] pc[n] \in {"ended", "joined"} -> -1
                      [] OTHER -> 2

\* Mutant: the last thread is left out of the ring.
Link_ShortRing ==
  /\ Main("start", "kick")
  /\ \A n \in Threads : threadstarted(n) = 2
  /\ tothread' = [n \in Threads |-> (n + 1) % (NumThreads - 1)]
  /\ UNCHANGED <<pc, pending, hops, threadVars, values, mainVars, shutdown, mishaps>>

\* Once all have started, each is given its successor.
Link ==
  /\ Main("start", "kick")
  /\ \A n \in Threads : threadstarted(n) = 2
  /\ tothread' = [n \in Threads |-> (n + 1) % NumThreads]
  /\ UNCHANGED <<pc, pending, hops, threadVars, values, mainVars, shutdown, mishaps>>

\* while (!shutdown): a compiled loop may have read the flag only once.
StopBeforeLink ==
  /\ shutdown # 0
  /\ Main("start", "kick")
  /\ UNCHANGED <<pc, ringVars, threadVars, values, mainVars, shutdown, mishaps>>

\* pthread_kill(stat[0].thread, signum)
Kick ==
  /\ Main("kick", IF pc[0] = "failed" THEN "crashed" ELSE "loop")
  /\ pending' = [pending EXCEPT ![0] = TRUE]
  /\ UNCHANGED <<pc, tothread, hops, threadVars, values, mainVars, shutdown, mishaps>>

Loop ==
  /\ Main("loop", IF shutdown # 0 \/ allstopped THEN "outall" ELSE "print")
  /\ UNCHANGED <<pc, ringVars, threadVars, values, mainVars, shutdown, mishaps>>

\* Mutant: the value whose count is cycles is taken.
PrintStat_Newest ==
  /\ cycles[0] # cyclesread
  /\ Main("print", "print")
  /\ line' = [c |-> cyclesread + 1, v |-> values[(cyclesread + 1) % ValbufSize],
              ahead |-> cycles[0] - cyclesread]
  /\ cyclesread' = cyclesread + 1
  /\ UNCHANGED <<pc, ringVars, threadVars, values, shutdown, i, allstopped, mishaps>>

\* one line of print_stat: the count and values[cyclesread & bufmsk]
PrintStat ==
  /\ cycles[0] # cyclesread
  /\ Main("print", "print")
  /\ line' = [c |-> cyclesread, v |-> values[cyclesread % ValbufSize],
              ahead |-> cycles[0] - cyclesread]
  /\ cyclesread' = cyclesread + 1
  /\ UNCHANGED <<pc, ringVars, threadVars, values, shutdown, i, allstopped, mishaps>>

PrintDone ==
  /\ cycles[0] = cyclesread
  /\ Main("print", "check")
  /\ UNCHANGED <<pc, ringVars, threadVars, values, mainVars, shutdown, mishaps>>

\* the loops, seen at thread 0, and usleep()
CheckLoops ==
  /\ Main("check", "loop")
  /\ allstopped' = (cycles[0] >= MaxCycles)
  /\ UNCHANGED <<pc, ringVars, threadVars, values, cyclesread, line, i, shutdown, mishaps>>

Outall ==
  /\ Main("outall", "settle")
  /\ shutdown' = 1
  /\ UNCHANGED <<pc, ringVars, threadVars, values, mainVars, mishaps>>

\* usleep(50000) is long enough for the signal to come to rest, or it is not.
Settled(n) == \/ pc[n] \in {"unborn", "failed", "ended"}
              \/ pc[n] = "sigwait" /\ ~pending[n]

Settle ==
  /\ Main("settle", "reap")
  /\ i' = 0
  /\ mishaps' = mishaps \cup (IF \A n \in Threads : Settled(n) THEN {} ELSE {"late"})
  /\ UNCHANGED <<pc, ringVars, threadVars, values, cyclesread, line, allstopped, shutdown>>

\* SIGTERM only sets shutdown again.  A thread that could not be created looks as
\* if it had been started, and has no thread to signal.
Reap ==
  /\ i < NumThreads /\ pc[i] \in {"unborn", "failed", "ended"}
  /\ Main("reap", IF pc[i] = "failed" THEN "crashed" ELSE "reap")
  /\ pc' = [pc EXCEPT ![i] = IF @ = "ended" THEN "joined" ELSE @]
  /\ i' = i + 1
  /\ UNCHANGED <<ringVars, threadVars, values, cyclesread, line, allstopped, shutdown, mishaps>>

Exit ==
  /\ i = NumThreads
  /\ Main("reap", "exit")
  /\ UNCHANGED <<pc, ringVars, threadVars, values, mainVars, shutdown, mishaps>>

MainStep ==
  \/ Create \/ NoValues \/ Link \/ Kick \/ Loop \/ PrintStat \/ PrintDone
  \/ CheckLoops \/ Outall \/ Settle \/ Reap \/ Exit

\* SIGINT or SIGTERM
Sighand ==
  /\ Running /\ shutdown = 0
  /\ shutdown' = 1
  /\ mishaps' = mishaps \cup (IF mpc \in {"create", "start"} THEN {"early"} ELSE {})
  /\ UNCHANGED <<pc, mpc, ringVars, threadVars, values, mainVars>>

Next ==
  \/ \E n \in Threads : ThreadStep(n)
  \/ MainStep \/ StopBeforeLink \/ Sighand

\* The threads and main sleep or wait for each other: each gets a CPU in the end.
\* StopBeforeLink depends on the compiler, and nobody has to send signals.
Fairness == WF_vars(MainStep) /\ \A n \in Threads : WF_vars(ThreadStep(n))

Spec     == Init /\ [][Next]_vars
FairSpec == Spec /\ Fairness

-----------------------------------------------------------------------------
(* Properties *)

\* Every latency a thread measures is that of one trip of the signal round the
\* whole ring: one signal is under way, through every thread, and the thread's own
\* sleep, and the time before its first signal, are not counted (signalthread).
EveryLatencyOneRound == \A n \in Threads : cycles[n] > 0 => act[n] = NumThreads

\* The measurement that a line with the count c shows: counting starts with 0 in
\* print_stat and with 1 in the buffer, so that the line of count 0 shows none.
Shown(c) == IF c = 0 THEN Unstored ELSE c

\* "format: n:c:v n=tasknum c=count v=value in us" (usage): from the count 1 on, the
\* line with the count c shows the c-th value that thread 0 measured, and the line
\* with the count 0, the first, a slot that nothing was stored in.  Thread 0 must be
\* less than a whole buffer ahead of main; a slot is never read between cycles++ and
\* the store.
OutputFaithful == line.ahead < ValbufSize => line.v = Shown(line.c)

\* The signal has gone to a thread that saw shutdown before it could wait for it,
\* and another thread waits for good.
SignalLost ==
  /\ \E n \in Threads : pending[n] /\ pc[n] \in {"ended", "joined"}
  /\ \E n \in Threads : ~pending[n] /\ pc[n] = "sigwait"

\* Once a signal, the trace limit or "number of loops" (usage) stops the run, main
\* joins all threads and exits: the SIGUSR1 that is still under way releases them
\* one after the other.  The run hangs if SIGUSR1 is lost; it may hang or crash if
\* it was stopped before the ring was linked, or a thread or its buffer could not
\* be had; and 50 ms must be long enough for SIGUSR1 to come to rest.
ShutdownCompletes ==
  [](shutdown # 0 \/ cycles[0] >= MaxCycles =>
       <>(mpc = "exit" \/ SignalLost \/ mishaps # {}))
=============================================================================

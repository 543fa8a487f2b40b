# TLA+ models of rt-tests

rt-tests is a set of programs that measure and stress the real-time behaviour of
a Linux kernel. Each program is a handful of threads or processes that wake each
other, measure how long the wakeup took, and hand their numbers to a main thread
that prints them. The programs are short; what is hard about them is the
concurrency: flags without locks, barriers that must be passed by all or by none,
signals that may come too early, and shutdowns that must reach threads which
block in the kernel. This directory models that concurrency in TLA+, checks it
with TLC and proves its safety properties with TLAPS.

Paths such as `src/src/pi_tests/pi_stress.c` start at the directory that holds
the repository as `src/`. `PROJECT.json` maps every definition to the lines it
models, and lists components, runs, mutants, hazards and theorems.

## Inventory

### pi_stress (`src/src/pi_tests/pi_stress.c`)

*State.* Per group: three workers (low, med, high), a priority-inheritance mutex,
the barriers `loop_barr`, `start_barrier`, `locked_barrier`, `elevate_barrier`,
`finish_barrier`, and the fields `loop`, `total`, `watchdog`, `watchdog_hits`.
Global: `shutdown`, `have_errors`, `interrupted`, `all_threads_ready`,
`all_threads_done`. Main: the reporter loop with its duration and its watchdog.

*Operations.* Main creates the groups, meets the workers at `all_threads_ready`,
runs `reporter`, and meets them again at `all_threads_done` or kills them. In each
round low locks the mutex, high blocks on it, med is released, low unlocks, high
counts an inversion and feeds the watchdog.

*Hard.* The three workers must agree on when to leave although each reads the
flags for itself; the watchdog is cleared while it is fed; creation, affinity,
sleep and signal calls fail; `--duration`, `--inversions`, SIGINT and the watchdog
race as reasons to stop.

*Correct when* no worker waits at a barrier the others have left, the count is
respected (within one), a success is only reported after a clean run in which
every group did an inversion, a finished group is never reported as deadlocked,
every round is a real inversion, and the process ends.

### cyclictest (`src/src/cyclictest/cyclictest.c`)

*State.* Global `shutdown`, `globalt`, `break_thread_id`, `break_thread_value`,
`refresh_on_max_cond`; per thread `thread_param` and `thread_stat` (`cycles`,
`min`, `max`, `values`, `hist_array`, `outliers`, `threadstarted`, ...), a POSIX
timer or none, and the local `now`, `next`, `interval`.

*Operations.* Main allocates and starts threads, prints in a loop, decides to
stop, kills, joins, summarises and frees. A thread aligns itself at a barrier,
waits for its period, measures, records, and computes its next period.

*Hard.* Nothing but the break variables is locked. Main reads the statistics
while the thread writes them, main may sleep on a condition that nobody signals
any more, an allocation fails halfway, a preemption hits between any two calls.

*Correct when* the printed numbers are the measured ones, no period is measured
twice or early, the run stops when and only when it should, and nothing is freed
under a thread.

### The pair tests: ptsematest, svsematest, pmqtest, sigwaittest

*State.* Per pair a sender and a receiver with `samples`, `shutdown`, a stamp
(`unblocked`, `sent`) and a primitive: two pthread mutexes, two System V
semaphores, two POSIX message queues, or two signals.

*Operations.* The sender stamps and wakes the receiver, the receiver measures and
wakes the sender. Main prints, watches for the first thread that has stopped,
sets the shutdown flags and frees whoever is blocked.

*Hard.* The wake-up primitives are used in ways that are only right under timing
assumptions: mutexes unlocked by a thread that does not own them, a semaphore
that both sides take, a queue that outlives its process, a signal sent to a
process that may not have blocked it yet.

*Correct when* each reported latency is that of one event, each event is measured
at most once, and the program ends with nobody left behind.

### signaltest (`src/src/signaltest/signaltest.c`)

*State.* A ring of threads, each with a pending SIGUSR1 or none, its successor
`tothread`, its stamps, `cycles` and, with `-v`, a ring of values; the flag
`shutdown`.

*Operations.* Main creates the threads, links them when all have started, sends
the first SIGUSR1, prints what thread 0 measured, and at the end signals and joins
every thread. A thread waits for SIGUSR1, passes it on, and measures the time since
it passed it on before.

*Hard.* One signal keeps all threads alive, and it is also what lets them end: a
thread leaves `sigwait` by it and by nothing else. `cycles` runs ahead of the value
it counts. Signals may come before the ring is linked.

*Correct when* a latency is the time of one trip round the whole ring, a printed
line shows the value with its number, and the process ends.

### rt-migrate-test (`src/src/rt-migrate-test/rt-migrate-test.c`)

*State.* The table of intervals (start, length and loops of each task in each
round), `loop` and its bound `nr_runs`, `done`, `stop`, `check`, two barriers, and
the CPU of the highest task.

*Operations.* In each round main and the tasks meet at `start_barrier`, the tasks
run and record, all meet at `end_barrier`, and main checks the round. One more
round shows the tasks `done`.

*Hard.* `loop`, `nr_runs` and `done` have no lock: only their place between the
barriers protects them. The table has no row for the additional round.

*Correct when* every row is complete and of its own round, the highest task visits
its CPUs in turn, the exit status agrees with the table, and the program ends.

### hackbench (`src/src/hackbench/hackbench.c`)

*State.* The table of children and two counts of them, a socket or pipe per
receiver, the ready and the wake-up channel, `signal_caught`, `timer_started`, and
the handlers of the process.

*Operations.* Main creates groups of receivers and senders as processes or
threads, waits for a byte from each, stamps, wakes all, reaps all and prints the
time. Senders write to every receiver of their group.

*Hard.* Creation may fail at every worker; a signal makes main `longjmp` from
wherever it is; the counts decide who is signalled and how often main waits.

*Correct when* the time printed covers all the traffic, nobody is left behind and
main ends.

### The others

| Component | State and operations | Hard about it |
|---|---|---|
| backfire, sendme | a driver with an open counter and mode bits; a process that asks for a signal | the bits at the last close |
| pip_stress | three processes and flags in shared memory that prove an inversion took place | the flags under every order |
| classic_pi, tst-mutexpi10, sigtest | one scenario each | little |
| cyclictest_minimal | cyclictest without most options | as cyclictest |
| hwlatdetect | front end of a kernel module in Python | saving and restoring settings |
| rt library, rt_numa.h | path lookup, system call wrappers, memory placement | nothing that keeps state |

Programs do not interact with each other, except that svsematest and sigwaittest
use the same shared-memory name. Inside a program components interact through the
shared state named above, signals and joins.

## Modules

| Module | Models | State and actions |
|---|---|---|
| `PiStress` | pi_stress | `pc[g][r]` for each worker, `mpc` for main, the group's fields and the global flags. One action for each critical section or library call between two of which another thread can see a difference; a barrier is one joint step of its participants. `Fifo` and `Inherit` switch the scheduler: with `Fifo` a worker steps only if no worker of its group with a higher effective priority can. |
| `Cyclictest` | threads and main of cyclictest | `tpc[t]`, `mpc`, the flags, `cycles`, `max`, the break variables, pending SIGTERMs, `allocated`, and `fpc` for the thread of `--fifo`. A latency is any number up to `MaxLatency`. |
| `CyclicStats` | one thread's statistics and `print_stat` | the record's fields, the ring `values` and the printed lines; the stores and loads that the other side can see are single steps |
| `CyclicTimer` | the waiting and measuring of one thread | an integer `clock` that may pass between any two steps, `now`, `next`, and a POSIX timer with expiry and overruns |
| `TimeSpec` | `tsnorm`, `tsgreater`, `calcdiff`, `calcdiff_ns` | three stamps, and the addition of an interval |
| `PingPong` | nothing in the code: what a pair test promises | `sent`, `got`, `open` |
| `Ptsematest`, `Svsematest`, `Pmqtest`, `Sigwaittest` | the four pair tests | `spc`/`rpc` (or `pc`) of each pair, `mpc`, the primitive, the flags, and the counters of stamps and samples; each implements `PingPong` through `Abstract == INSTANCE PingPong WITH ...` |
| `Signaltest` | signaltest with `-v` | `pc[n]`, `mpc`, `pending`, `tothread`, the stamps in `hops`, thread 0's ring of values and the last line printed; `mishaps` records what has gone wrong |
| `RtMigrate` | rt-migrate-test | `pc[t]`, `mpc`, `table`, `loop`, `nr_runs`, `done`, `stop`, `check`; a barrier is a joint step; a measurement is any member of `Measurements` |
| `Hackbench` | hackbench, processes and threads | `pc[w]`, `mpc`, the bytes `moved` and in each `buffer`, the channels, main's counts and indices, the handler; `failed` and `died` are history |
| `PiStressProofs`, `CyclictestProofs`, `SvsematestProofs`, `SignaltestProofs`, `RtMigrateProofs`, `HackbenchProofs` | | theorems about the module of that name |
| `CyclicProofs` | | theorems about `CyclicStats`, `CyclicTimer` and `TimeSpec` |
| `PingPongProofs` | | theorems about `Ptsematest`, and about `Pmqtest` and `Sigwaittest`, which it instantiates as `Pmq` and `Sig` |
| `MCPiStress`, `MCCyclictest`, `MCCyclicStats`, `MCTimeSpec`, `MCRtMigrate`, `MCHackbench` | | sets that the configurations use as values of constants |

Operators named `X_Y` with the comment "Mutant" stand before the definition `X`
and are that definition with a plausible mistake. No specification uses them;
each property is known to fail when `X` is replaced by its mutant.

### Abstractions

* Formatting, option parsing, tracer files, `mlockall`, CPU affinity (except where
  its failure changes control) are left out.
* `watchdog` is 0 or 1, since it is only compared with zero. `shutdown` and
  `stopped` likewise.
* In `PiStress` a critical section of `shutdown_mtx` or `loop_mtx` is one step. Whether
  the end of `--duration` has passed and whether SIGINT is pending are choices of the
  step that looks: nothing else can see either, and the reporter leaves its loop as
  soon as it has. `kill(0, SIGTERM)` and main's `exit(FAILURE)` race, and both end the
  process: `retval = "FAILURE"`.
* Options that only choose a way through the code are variables that `Init` sets
  and no action changes (`opt` in `Cyclictest`, `histogram` and `oscope_reduction`
  in `CyclicStats`, `mode` and `abstime` in `CyclicTimer`, `style` and
  `breaktrace` in `Pmqtest`, `mustfork` in `Sigwaittest`, `mask` and `check` in
  `RtMigrate`, `process_mode`, `fifo` and `shape` in `Hackbench`), so that one run covers
  them all.
* Where a program relies on timing, the model lets the timing go wrong and records
  it. `trust[n]` in `Svsematest` says what main can rely on: `"latency"` until the
  sender of pair n does not reach its second `semop` within the receiver's sleep, then
  `"stamp"`, and `"none"` when a signal from outside has ended a `semop` of the pair or
  main has left its loop. `late` in `Sigwaittest` that a
  receiver process was not ready for its signal after the 10 ms main gives it.
  `preempted` in `CyclicTimer` says that a timer expired between `sigwait` and
  `clock_gettime`, or before it was armed; `fifolate` in `Cyclictest` that the fifo
  thread printed for longer than the 50 ms between shutdown and the joins; and
  `mishaps` in `Signaltest` has `"late"` when 50 ms were too short for SIGUSR1 to
  come to rest.
* `Signaltest` counts time in hops of the signal, and the k-th value that thread 0
  stores is k, so that a line shows which measurement it is about; a slot that nothing
  was stored in has a mark of its own (`Unstored`). The first loop
  over `shutdown` may be compiled into one load (`StopBeforeLink` has no fairness).
* In `Hackbench` a stream is a number of bytes. The set-up of the two channels, and
  signals before it, are left out; `kill` of a thread's id reaches nobody. The last
  creation of a group and the addition of its workers to `total_children` are one step.
* A `pthread_create` that fails in a pair test is not looked at, and not modelled.
* In `Pmqtest` a receive times out only if the partner will not send by itself:
  timeouts are seconds and everything else is microseconds.
* The unsigned 64-bit latency of cyclictest is computed modulo `Width`, which is
  any number larger than the latencies of the instance.

## Runs

Deadlock is checked in every run but five. `timespec` has no behaviour to keep up;
`rt_migrate` stops when the program exits, and a stop before that violates `Ends`;
in `pi_stress` a worker on the wrong CPU, in `signaltest` a lost signal, and in
`hackbench` a signal to its threads really do hang the program.

| Run | Shows |
|---|---|
| `pi_stress` | Two groups under SCHED_FIFO on a CPU each, `--inversions`, `--duration`, Control-C and every failure: the workers of a group agree about the loop barrier (`AllOrNone`), overshoot by at most one inversion (`BoundedOvershoot`), make every round a real inversion (`RealInversion`); a success is clean (`SuccessIsClean`), nobody starts without the others (`NobodyRunsShortHanded`), a finished group is never counted as deadlocked (`FinishedGroupNeverHit`), and the process ends (`ShutdownCompletes`) |
| `cyclictest` | Two threads and four command lines (aligned with `--loops`; `--breaktrace`, `--duration` and verbose; `--refresh_on_max`, `--loops` and verbose; `--fifo` with `--loops`), with failing creation, scheduler and allocation calls: `AlignedStart`, no free under a timer thread or the fifo thread and no other crash than after a half-done allocation (`FreedAfterJoin`), the tracer off and a hit reported (`BreakReported`), and an end after the loops or a shutdown (`ShutdownCompletes`) |
| `cyclic_stats` | histogram and outliers, extremes and printed lines against the sequence of measured latencies, with and without a histogram and a reduction, one thread writing while main prints |
| `cyclic_timer` | no early wakeup in any mode (`NeverEarly`); no drift, no period in the past and none skipped that lies ahead (`NextIsNearest`); with a POSIX timer the thread stays in step with it (`InStepWithTimer`) |
| `timespec` | the arithmetic at the boundaries of a microsecond and a second |
| `ptsematest` | two pairs: implements `PingPong`, ends, and main's unlocks leave nobody blocked (`NobodyStuck`) |
| `svsematest` | two pairs: each implements `PingPong` while its sender is in time and no signal from outside ends one of its `semop`s; until such a signal, a half-written stamp is never read (`NoTornStamp`); and the run ends, also when a sender is late or a worker goes on without its semaphore |
| `pmqtest` | two pairs that wait, use `-T` or use `-T -f`, with and without old messages: implements `PingPong`; the run ends unless `-f` is given |
| `sigwaittest` | two pairs of threads or processes: with failing forks: implements `PingPong`, ends unless a receiver process was late, and leaves no process behind but the receiver whose sender could not be forked (`LoopsEnd`) |
| `signaltest` | three threads, `--loops=3`, `--breaktrace`, a buffer of two, failing creation and allocation, signals at any time: a latency is one round (`EveryLatencyOneRound`), from count 1 on a line shows the value of its number although `cycles` is ahead of the store (`OutputFaithful`), and the process ends (`ShutdownCompletes`) |
| `rt_migrate` | three tasks, two loops, masks without a gap, with one and without CPU 0, with and without `--check`, Control-C at any time: the table is complete and has nothing of the additional round (`TableComplete`), the highest task takes its CPUs in turn (`EveryCpuInTurn`), the exit status agrees with the table (`VerdictSound`), and the program ends (`Ends`) |
| `hackbench` | two groups of two or one of four, processes or threads, partial writes, every failing creation, a killed worker, SIGINT at any time: the time covers the traffic (`TimeSpansTraffic`), who is left behind (`NobodyLeftBehind`), and main ends (`Ends`) |

`EveryLatencyItsEvent` is the refinement of `PingPong` in each pair test.

### Exceptions inside the properties

Where the code does less than its documentation or a reader might expect, the
property that holds says so, as an explicit exception or bound:

* pi_stress does n+1 inversions for `--inversions=n` (`BoundedOvershoot` has the
  `+ 1`): the round in which the flag is turned into `loop = 0` is still counted.
* A worker that `verify_cpu` turns away leaves everyone at `all_threads_ready`,
  before any duration has begun (the second disjunct of `ShutdownCompletes`).
* With `Inherit = FALSE` pi_stress does not deadlock: med sits in a barrier and
  leaves the CPU to low. `AllOrNone` and the others are proved for both values.
* "Cyclictest is stopped once the number of timer intervals has been reached."
  (`src/src/cyclictest/cyclictest.8:116`): with `--refresh_on_max` main tests the
  flags and then waits on a condition that only a new maximum signals; it may stay
  there for good (`ShutdownCompletes`).
* cyclictest frees the statistics while the fifo thread still prints them if that
  takes longer than 50 ms (`FreedAfterJoin`).
* "send break trace command when latency > USEC" (`cyclictest.c:1034`): a thread
  with a POSIX timer that is preempted between `sigwait` and `clock_gettime` skips a
  missed period in the `tsgreater` loop and once more with `timer_getoverrun`. Its
  next wakeup is early, and the unsigned difference is enormous (`NeverEarly`,
  `NextIsNearest` and `InStepWithTimer` except `preempted`).
* When the values buffer of a thread cannot be allocated, cyclictest's cleanup may
  dereference a null pointer, and the process ends with `ret = "SIGSEGV"`: for a thread
  but the last in the kill loop, which reads `statistics[i]` of the threads after it, and
  for the last one with `--breaktrace` in `print_tids()`, which reads `par->stats`
  although `goto outall` comes before it is set (`FreedAfterJoin` says when). With
  `--aligned` and `--verbose` together it would instead join a thread that waits
  in `globalt_barr` for ever; no command line of the run combines the two.
* `break_thread_id` and `break_thread_value` may come from two threads above the
  limit; `BreakReported` asks for a hit's id and for a hit's value, not for a pair.
* A reduction block whose latencies are all 0 us is printed with the number of an
  earlier cycle, and a ring that has been lapped holds other values than its
  number says (`LineFaithful`).
* A late sender of svsematest leaves its semaphore to the receiver, which measures
  an old release again: a pair's promise is open only while it is not late.
* A SIGINT or SIGTERM that comes while svsematest's main blocks both (lines 663-671) is
  handled by a worker, because the workers have emptied their masks (lines 103-104).
  A `semop` that the worker sleeps in returns EINTR, which nobody looks at (lines 148,
  152, 164): it goes on without the semaphore, measures without an event or reads a
  stamp that is being written, and main may print the figures once more before it sees
  `mustshutdown`. The promises of `NoTornStamp` and `EveryLatencyItsEvent` end for that
  pair (`OutsideSignal` sets `trust[n]` to `"none"`); a `nanosleep` cut short is a
  sender that is late.
* In pmqtest a message left by a killed process is measured, a sample follows a
  timeout, and with `-f` the run may never end; the promise of such a pair is not
  open, and `LoopsEnd` excludes `-f`.
* "Use mq_timedreceive() instead of mq_receive()" (`src/src/pmqtest/pmqtest.8:43`):
  with `-T` the sender calls both, waits for a second sync message, and the run ends
  by the receiver's timeout after one message; `LoopsEnd` holds because of it.
* A receiver process of sigwaittest that is late is killed by its first signal, or
  makes its sender signal the whole process group (`LoopsEnd`).
* When a `fork()` of sigwaittest fails (lines 475-478, 503-506), main returns 1. It
  signals nobody and leaves the shared memory: pairs that are complete go on until their
  loops or their break trace end them, and the receiver whose sender is missing waits in
  `sigwait` for good (`Orphan` in `LoopsEnd`). A child whose `execvp` fails (lines
  488-491, 514-519) goes on in main's code, forks pairs of its own and reports on the same
  shared memory; the model follows nobody after that (`mpc = "astray"`), and `LoopsEnd`
  says nothing about it.
* A cyclic timer that is armed late shifts the whole grid (`preempted`).
* signaltest: a thread that sees `shutdown` while SIGUSR1 is pending at it ends with
  the signal, and the threads in `sigwait` wait for good, because SIGTERM has a
  handler (`SignalLost`). A failing thread or buffer, or a signal before the ring is
  linked, may hang or crash it (`mishaps`).
* "format: n:c:v n=tasknum c=count v=value in us" (`signaltest.c:214-215`): `cycles` is
  incremented before a value is stored (lines 182-185) and `cyclesread` after one is
  printed (lines 304-307). The first line, with the count 0, shows a slot that nothing
  was stored in, as a latency of 0, and the last value is never printed. `OutputFaithful`
  is about the counts from 1 on, and says what the line of count 0 shows (`Shown`).
* rt-migrate-test takes the first gap in the affinity mask for its end, and CPU 0 for
  a member of it (`EveryCpuInTurn`). A round that Control-C ends is not checked
  (`VerdictSound`).
* hackbench: a group that fails returns one worker less than it has started, so that
  the last one is neither signalled nor waited for; a signal leaves the workers of
  the group under construction; `barf` leaves everybody (`NobodyLeftBehind`). In
  thread mode a worker resets the handlers of the whole process, `kill` is called
  with a thread's id, and main joins threads that nothing wakes; a receiver repeats
  a read at the end of the stream for ever when its senders have died (`Ends`). The
  number of workers that did not exit normally is ignored: a time is printed all the
  same (`TimeSpansTraffic`).

### Bounds

| Bound | Meaning | Why it is enough |
|---|---|---|
| `NGroups`, `NThreads` = 2 | groups, threads or pairs | groups, threads and pairs only meet in the global flags and in main's loops, and two show every order of two of them; the proofs of the safety properties cover every number |
| `Inversions` = 1 | rounds of pi_stress before the end | the first round is an ordinary one: nobody has counted enough, so failures, Control-C, the end of `--duration`, hits of the watchdog and the other group's shutdown reach a group in the middle of it, and its serial thread may see the flag or not; in the second round the group ends by its own count. Not shown: how a group behaves after more rounds than that, and without `--inversions`; the safety properties are proved for every number |
| `MaxCycles` <= 2 | rounds before the end | one round is like the next; two have a first and a last, and suffice for a receiver of svsematest to take back its own semaphore |
| `Exposed` = {0} | pairs of svsematest whose threads may get a signal from outside; in the code, all | any number of signals reach either side of one pair while the other goes on; the proofs cover every set of pairs |
| `TotalCap` | where `total` saturates | above the number at which the code compares it; `cycles` of `Cyclictest` stays put above `max_cycles` |
| `WATCHDOG_LIMIT` = 2 | 5 in the code | a group is hit once and recovers, or is hit a second time while the groups are in their first round, which ends the reporter with an error; hits between the first and the last are not shown, they do as the first |
| `MaxLatency` | latencies of `Cyclictest` | below, at and above the limit |
| `MaxSamples`, `BufSize` | cycles and ring of `CyclicStats` | the ring is lapped, and two blocks of a reduction of 2 are printed; the proofs cover every number of cycles, size and reduction |
| `MaxTime` = 18, `Interval` = 3 | the clock | six periods, enough for several overruns and a recovery; the proofs cover every interval and every length of the run |
| `NumThreads` = 3, `MaxCycles` = 3, `ValbufSize` = 2 | ring and buffer of `Signaltest` | three threads have a neighbour and one that is not; the buffer is lapped once; the proofs of the safety properties cover every number |
| `NrTasks` = 3, `NrRuns` = 2 | tasks and rounds of `RtMigrate` | a task with two neighbours, a first and a last round and the additional one; the proofs of the safety properties cover every number |
| `Shapes`, `Loops` = 2, `Datasize` = 2, `Capacity` = 3 | groups, messages, bytes of a message and of a stream in `Hackbench` | a complete group beside one under construction, and receivers that are forked before another; messages are split at both ends and streams fill up |
| `StalePairs` | pairs of pmqtest whose queue may hold an old message | one such pair beside one without |
| `Secs`, `Nsecs`, `Intervals` | stamps | on either side of a microsecond and a second |

No symmetry is used: main goes through groups, threads and pairs in order.

### Fairness

Every liveness property is checked under weak fairness of each thread's step, of
a barrier all of whose participants have arrived, of main's step, of the passing
of time (`Expire`) and, in cyclictest, of the delivery of a signal that was sent.
pi_stress needs less: that some runnable worker of some group runs, and main; that its
clock passes the end of `--duration` is not assumed. So does svsematest: that some thread
that can go on does, and main.
The kernel gives that: threads of these programs sleep or block in every round,
so that no runnable one is kept from a CPU for ever. Under `Fifo` the priorities
are part of the enabling condition of a step and not of its fairness. Signals
from outside and failures have no fairness.

## Proofs

Every safety property of the runs is a theorem, and so is every refinement; liveness is
left to TLC. Each proof but that about `TimeSpec` has the inductive invariant `Ind`, a
conjunction of named parts, one lemma per action or group of actions, in it one step per
part that the action can disturb, and the theorem `Invariance`, from which the
properties follow. `CyclicTimer` and `TimeSpec` name their parts `TimerInit`,
`StampSpec` and so on, so that `CyclicProofs` can extend both beside `CyclicStats`; the
proof about `CyclicTimer` has `TimerInd` and `TimerInvariance`. The names of the proofs
about `Pmqtest` and `Sigwaittest` begin with `Pmq` and `Sig`.

The constants are arbitrary within the `ConstantsAssumption` (`TimerAssumption`,
`StampAssumption`) of each module, which asks for numbers that are large enough to start
(one thread, one loop, two threads in a ring); in `RtMigrate` also for affinity masks
that are finite and not empty, as a `cpu_set_t` from `sched_getaffinity` is, and in
`Hackbench` for a finite set of shapes, a message of at least one byte and a stream that
holds one. The theorems about `Pmqtest` and `Sigwaittest` rest on the assumption of
`Ptsematest`, with which they share the number of pairs, and on nothing about their
other constants.

### pi_stress

`PiStressProofs` covers every number of groups, every `--inversions`, every
`WATCHDOG_LIMIT`, with and without SCHED_FIFO and inheritance, and every set of
failing calls: `TypeCorrect`, `AllOrNoneHolds`, `OvershootBounded`, `SuccessClean`,
`NoShortHandedRun`, and the action properties `RealInversion` (`InversionIsReal`) and
`FinishedGroupNeverHit` (`FinishedIsNeverHit`).

None of the invariants is inductive. `AllOrNone` needs that `loop` is only
cleared while the other two workers wait in `start_barrier` (`Order`), because
only then can no worker be on its way from the test of `loop` to `loop_barr`.
`BoundedOvershoot` needs to know that a group which has reached its count has
raised the flag, and that the one round after that clears `loop` (`Counts`).
`SuccessIsClean` needs that the loop is left only after a counted round (`Work`)
with the mutex free (`Locks`), and that main reaches `all_threads_done` only
without errors (`Phases`). `StepPc`, `BarrierPc`, `WorkersUntouched`, `LatePhases` and
`MainPhases` state what the actions have in common. `RealInversion` follows from
`Locks` and from the scheduler: when low can unlock, high is at its lock call or
blocked, and at its call it would have the higher priority.

`FinishedGroupNeverHit` has an invariant of its own, `Watch`. A group clears `loop`
only after `shutdown` is set, and then does one more inversion, after which its high
thread feeds the watchdog. The reporter tests `shutdown` between `watchdog_clear` and the
next `watchdog_check`, and goes on only if it was not set; so while it is on its way to
the check (`Watching`), a group with `loop = 0` whose high thread is past its increment
(`Fed`) has a counter that nobody has wiped since.

### cyclictest

`CyclictestProofs`, for every number of threads, every set of command lines and of
failing calls: `StartsAligned` (`AlignedStart`), `FreesAfterJoin` (`FreedAfterJoin`) and
`ReportsBreak` (`BreakReported`). `Starting` says which thread can be behind which
barrier before the stamp is written, and that a thread whose `threadstarted` is still 0
does not exist; `Joining` how far main's loop over the threads has come, since "all
threads have ended" is only true one index at a time, and that `shutdown` is set
before the 50 ms in which the fifo thread should see it; `Hits` that a thread above the
limit turns the tracer off before it queues for the lock, and that the id, once
written, is that of a hit.

`CyclicProofs` has three parts. `CyclicTimer`, for every interval, mode and pattern of
preemption: `NoEarlyWakeup` (`NeverEarly`), `NoDrift` (`NextIsNearest`) and `InStep`
(`InStepWithTimer`). The remainder in `NextIsNearest` becomes the existence of a
multiple of the interval (`OnGrid`), which survives the addition of a period. `Timer` is
the heart of it: between the signal and the calculation of the next wakeup, an
unpreempted thread's timer is ahead of `next` by one interval and the overruns, and the
clock is in the last of these intervals; that is why `timer_getoverrun` and the loop
over `tsgreater` together skip every missed period exactly once.

`CyclicStats`: `HistogramIsFaithful`, `ExtremesAreExact` and `OutputIsFaithful`,
for every set of latencies, histogram, reduction and size of the ring, under the
hypothesis `NonNegative`: no latency is negative, and 64 bits hold the initial minimum
of a second. The hypothesis is what `NoEarlyWakeup` shows of a thread that was not
preempted; without it the unsigned comparison takes a negative latency for an enormous
one. The configuration of the run satisfies it. `Ring` says that what main has not read
is still in its slot unless it was lapped, `Partial` what `redmax` and `cycleofmax` know
of the window under way, `Lines` what the printed windows have, `Bounds` that the
extremes bound the samples and are among them, and `Counted` relates bins, overflow and
outliers to the cardinality of sets of cycles, which grow by one element at a time.

`TimeSpec`: the three properties of its run, and that stamps stay
normalised (`NormalisedHolds`), for every set of stamps and intervals below a second,
from lemmas about `tsnorm`, `tsgreater`, C's division and `calcdiff`.

### ptsematest, pmqtest, sigwaittest, svsematest

In all four `ImplementsPingPong` is the refinement of `PingPong`: the initial state maps
to the initial state and every step to a step or a stutter. A sender may stamp only when
its last stamp was measured, and no single flag says so; what says so is that the pair
has one permission to go on.

`PingPongProofs`, for every number of pairs and cycles: `TeardownUnblocks`
(`NobodyStuck`) and `ImplementsPingPong` of ptsematest. Both need the
`Baton`: while main reports, the permission to go on is in exactly one of four places
(`syncmutex`, the sender, `testmutex`, the receiver), and a stamp is unmeasured exactly
while it travels from the sender to the receiver. The teardown breaks the baton, because
main unlocks what it does not hold; by then the shutdown flags of the pair are set
(`Teardown`), and nobody goes back to lock again.

`PmqImplementsPingPong`, with and without `-T` and `-f`: the permission is with the
sender, in the test queue, with the receiver or in the sync queue. `PmqBaton` says "at
most one" and not "one", because a sender that takes the sync message with
`mq_timedreceive` and then waits for another has lost it. A receiver that times out makes
a measurement of its own; the invariant, as the promise, is about the pairs of which
none has, and whose queues were empty at the start (`PmqOneBaton`).

`SigImplementsPingPong`, for threads and for processes: the permission is with the
sender, in a pending SIGUSR2, with the receiver or in a pending SIGUSR1, so that a signal
is never sent while one is pending, and none is merged with another. With `-f` the
permission, and the stamp, are lost with a receiver process that SIGUSR2 has killed
(`SigLost`); the pair then stays as it is while main reports. If the signal kills main,
or main cannot fork, the promise ends.

`SvsematestProofs`: `StampsAreWhole` (`NoTornStamp`) and `ImplementsPingPong`. Both sides
take the same semaphore S; `Token` says that it is free, with the sender or with the
receiver, and never twice, whatever the delays, as long as no signal from outside makes a
worker go on without it (`trust[n] # "none"`); `NoTornStamp` is one of its consequences.
The refinement needs `Round`, which holds only for a pair whose sender was never late:
where the receiver may be for each place of the sender, which of the two is behind with
its count, when `R` is posted and who will find it (`Due` says whether there is a stamp
to measure). A late sender breaks `Round` and with it the promise.

### signaltest, rt-migrate-test, hackbench

`SignaltestProofs`, for every number of threads and loops, every size of the buffer, and
every mishap: `LatencyIsOneRound` (`EveryLatencyOneRound`) and `OutputIsFaithful`. At
most one thread has the signal, and the ring is linked completely or not at all (`Ring`);
while the signal is at thread m, the time since thread n passed it on is the distance
from n to m (`Trip`), so that it is a whole round when it is back. `Buffer` says which
slots are valid, that no value has the number 0, and excepts the slot between `cycles++`
and the store.

`RtMigrateProofs`, for every number of tasks and loops, every mask and measurement:
`TableHoldsTheRounds` (`TableComplete`), `Rotation` (`EveryCpuInTurn`) and
`VerdictIsSound` (`VerdictSound`). `Sides` gives the side of the barriers every task is
on from main's position, and so when a task may see `done`; `Counts` the relation of
`loop`, `nr_runs` and the round, including the additional one; `Table` which entries are
filled, `Checks` what the rounds checked so far have left in `check`, `nr_runs` and
`stop`, `Turn` the highest task's CPU as a remainder of the round by the number of CPUs
before the first gap.

`HackbenchProofs`, for every shape of groups, every number of loops, size of a message
and capacity of a stream, with every failure and signal: `TimeIsOfTraffic`
(`TimeSpansTraffic`) and `NoProcessStays` (`NobodyLeftBehind`). `Created` relates main's
counts of workers to who exists, in groups of `2 * num_fds`; `Started` how many workers
have written the ready byte, by a cardinality, so that main stamps and wakes only when
all have, and nobody writes before. That an ended receiver has had everything is a
matter of counting as well: `BytesTo(r)` is the set of the bytes written to r, as pairs
of a sender and a byte's number, `Streams` says that its cardinality is what r has read
plus what is in its stream, and `BytesBound` that it has at most `Quota(r)` elements, one
for each sender of the group, message and place in the message. A receiver ends when it
has read that many (`Quotas`), and then the stream is empty. `Reaping` gives what main has
reaped or joined, and that everybody below `totchld` is dead once it has signalled them.

### Model-checked only

* Every liveness property: `ShutdownCompletes`, `LoopsEnd` and `Ends`. Fairness and
  ENABLED are out of the prover's reach.
* That no run but the five named above deadlocks.

Nothing is recursive, so nothing was left out for that reason.

## Not modelled

* pi_stress: who owns `shutdown_mtx`. The quiet reporter unlocks it without having
  locked it.
* cyclictest: the handler of SIGUSR1, which prints; tracers; the option parser; NUMA placement.
* ptsematest: the SIGTERM sent to threads that have not stopped (its handler sets a
  flag that is already set), and what destroying a mutex in use does.
* svsematest: the mode that forks.
* cyclictest's averages, the printing of the histogram at the end (`print_hist`), and the
  output without `-v`.
* signaltest without `-v`, whose output has only the extremes of thread 0;
  rt-migrate-test's averages, which `print_results` computes from the table after the
  last task has ended; hackbench's channels before its handlers are installed.
* backfire: the driver's concurrency is that of the kernel's file operations, which
  are not part of the repository; sendme is one loop that waits for the driver.
* pip_stress and classic_pi arrange one inversion in the order pi_stress repeats for
  ever; tst-mutexpi10 and sigtest check one kernel call; cyclictest_minimal is
  cyclictest with fewer options.
* hwlatdetect, the rt library, NUMA support, build files and scripts: no state that
  two actors share.

## Plan

Every safety property and every refinement of the runs is proved. What is open:

1. Liveness: `ShutdownCompletes`, `LoopsEnd` and `Ends` are checked on the instances of
   the runs only. The inductive invariants already contain what an argument by hand would
   start from (who can be blocked where, and who owes the wakeup).
2. Two hazards have no property (`PROJECT.json`): the unlock without a lock of the quiet
   reporter of pi_stress, which needs mutexes with owners, and the SIGUSR1 handler of
   cyclictest, which interrupts main between two characters of its output.
3. Of the components that are not modelled, pip_stress is the one with a protocol: its
   processes record the order of three events in shared memory.

------------------------------ MODULE PiStress ------------------------------
(***************************************************************************)
(* pi_stress (src/src/pi_tests/pi_stress.c): NGroups "inversion groups" of *)
(* three worker threads each (low, med, high) that meet at pthread         *)
(* barriers and fight for one priority-inheritance mutex, and the main     *)
(* thread, which creates the groups, reports, runs the watchdog and shuts  *)
(* the program down.                                                       *)
(*                                                                         *)
(* A pthread barrier is one joint step of all its participants: a thread   *)
(* whose next call is the wait and a thread that sleeps in it cannot be    *)
(* told apart by anybody else.  A critical section of shutdown_mtx or of   *)
(* loop_mtx is one step.  The watchdog counter is only compared with zero, *)
(* so it is 0 or 1 (= "not zero").                                         *)
(***************************************************************************)
EXTENDS Integers

CONSTANTS
  NGroups,         \* ngroups, --groups
  Inversions,      \* --inversions: per group, -1 = unlimited
  Duration,        \* TRUE iff --duration was given
  WATCHDOG_LIMIT,  \* consecutive hits before the watchdog gives up
  TotalCap,        \* bound: total[g] saturates here
  Failures,        \* library calls that may fail in this instance
  Fifo,            \* the workers of a group share one CPU under SCHED_FIFO
  Inherit          \* the mutex implements PTHREAD_PRIO_INHERIT

Fallible == {"pthread_create", "sched_getaffinity", "verify_cpu",
             "clock_nanosleep", "sigpending"}

ASSUME ConstantsAssumption ==
  /\ NGroups \in Nat \ {0}
  /\ Inversions \in Int
  /\ Duration \in BOOLEAN
  /\ WATCHDOG_LIMIT \in Nat \ {0}
  /\ TotalCap \in Nat \ {0} /\ TotalCap > Inversions + 1
  /\ Failures \subseteq Fallible
  /\ Fifo \in BOOLEAN /\ Inherit \in BOOLEAN

Groups == 0 .. (NGroups - 1)
Roles  == {"low", "med", "high"}

VARIABLES
  pc,             \* pc[g][r]: where worker r of group g is
  mpc,            \* where the main thread is
  ri,             \* main's loop index over the groups
  shutdown, have_errors, interrupted,   \* the globals of these names, 0 or 1
  loop, total, watchdog, watchdog_hits, \* the fields of groups[g]
  mutex,          \* mutex[g]: the owner of the group's PI mutex, or "none"
  failures,       \* the local of watchdog_check: 1 iff a group was reported
  retval          \* how the process ended: "none" while it runs

workerVars == <<pc, loop, total, mutex>>
flagVars   == <<shutdown, have_errors, interrupted>>
dogVars    == <<watchdog, watchdog_hits, failures>>
vars == <<pc, mpc, ri, shutdown, have_errors, interrupted, loop, total,
          watchdog, watchdog_hits, mutex, failures, retval>>

Outside    == {"unborn", "verify", "ready"}
LoopHead   == {"top", "chkloop", "loop_barr"}
Inversion  == {"serial", "start", "lock", "locked", "elevate", "unlock",
               "hlock", "hwait", "hunlock", "finish", "total"}
LeftLoop   == {"leave", "chkerr", "done", "gone"}
WorkerLocs == Outside \cup LoopHead \cup Inversion \cup LeftLoop
                \cup {"watchdog", "failed"}
MainLocs   == {"create", "ready", "sleep0", "rtop", "rsleep", "rint",
               "wcheck", "wclear", "rdone", "mdone", "done", "exit"}

Init ==
  /\ pc = [g \in Groups |-> [r \in Roles |-> "unborn"]]
  /\ mpc = "create" /\ ri = 0
  /\ shutdown = 0 /\ have_errors = 0 /\ interrupted = 0
  /\ loop = [g \in Groups |-> 1]
  /\ total = [g \in Groups |-> 0]
  /\ watchdog = [g \in Groups |-> 0]
  /\ watchdog_hits = [g \in Groups |-> 0]
  /\ mutex = [g \in Groups |-> "none"]
  /\ failures = 0 /\ retval = "none"

-----------------------------------------------------------------------------
(* Scheduling.  The three workers of a group are pinned to one CPU.  With  *)
(* Fifo a worker may step only while no worker of its group with a higher  *)
(* effective priority is able to run; with Inherit the owner of the mutex  *)
(* runs at the priority of the thread it blocks.                           *)

Barriers == {"ready", "loop_barr", "start", "locked", "elevate", "finish", "done"}

CanRun(g, r) ==
  /\ pc[g][r] \notin Barriers \cup {"unborn", "gone", "failed"}
  /\ pc[g][r] \in {"lock", "hwait"} => mutex[g] = "none"

\* Mutant: setup_sched_config gives the three threads one priority.
BasePrio_Equal == [low |-> 1, med |-> 1, high |-> 1]

BasePrio == [low |-> 1, med |-> 2, high |-> 3]

EffPrio(g, r) ==
  IF Inherit /\ r = "low" /\ mutex[g] = "low" /\ pc[g]["high"] = "hwait"
  THEN BasePrio["high"] ELSE BasePrio[r]

MayRun(g, r) ==
  Fifo => \A q \in Roles : CanRun(g, q) => EffPrio(g, q) <= EffPrio(g, r)

Step(g, r, from, to) ==
  /\ retval = "none"
  /\ pc[g][r] = from
  /\ MayRun(g, r)
  /\ pc' = [pc EXCEPT ![g][r] = to]

\* All of rs are at the barrier "at"; each r goes on to to[r].
Barrier(g, rs, at, to) ==
  /\ retval = "none"
  /\ \A r \in rs : pc[g][r] = at
  /\ pc' = [pc EXCEPT ![g] = [r \in Roles |-> IF r \in rs THEN to[r] ELSE @[r]]]
  /\ UNCHANGED <<mpc, ri, flagVars, loop, total, mutex, dogVars, retval>>

-----------------------------------------------------------------------------
(* The workers *)

\* verify_cpu: a thread that is not on its CPU reports an error and returns, one
\* that cannot read its affinity ends the process.
VerifyCpu(g, r) ==
  /\ \/ /\ Step(g, r, "verify", "ready")
        /\ UNCHANGED <<have_errors, mpc, retval>>
     \/ /\ "verify_cpu" \in Failures
        /\ Step(g, r, "verify", "failed")
        /\ have_errors' = 1
        /\ UNCHANGED <<mpc, retval>>
     \/ /\ "sched_getaffinity" \in Failures
        /\ Step(g, r, "verify", "failed")
        /\ mpc' = "exit" /\ retval' = "FAILURE"
        /\ UNCHANGED have_errors
  /\ UNCHANGED <<ri, shutdown, interrupted, loop, total, mutex, dogVars>>

\* Mutant: > for >=.
CheckTotal_Greater(g, r) ==
  /\ Step(g, r, "top", "chkloop")
  /\ shutdown' = IF Inversions >= 0 /\ total[g] > Inversions THEN 1 ELSE shutdown
  /\ UNCHANGED <<mpc, ri, have_errors, interrupted, loop, total, mutex, dogVars,
                 retval>>

\* The head of the for(;;): the thread that sees the count reached shuts down.
CheckTotal(g, r) ==
  /\ Step(g, r, "top", "chkloop")
  /\ shutdown' = IF Inversions >= 0 /\ total[g] >= Inversions THEN 1 ELSE shutdown
  /\ UNCHANGED <<mpc, ri, have_errors, interrupted, loop, total, mutex, dogVars,
                 retval>>

\* Mutant: continue for break.
CheckLoop_Continue(g, r) ==
  /\ Step(g, r, "chkloop", IF loop[g] = 0 THEN "top" ELSE "loop_barr")
  /\ UNCHANGED <<mpc, ri, flagVars, loop, total, mutex, dogVars, retval>>

\* Under loop_mtx: leave if loop is 0, otherwise go to the loop barrier.
CheckLoop(g, r) ==
  /\ Step(g, r, "chkloop", IF loop[g] = 0 THEN "leave" ELSE "loop_barr")
  /\ UNCHANGED <<mpc, ri, flagVars, loop, total, mutex, dogVars, retval>>

\* loop_barr: one of the three, which one is not specified, is the serial thread.
LoopBarrier(g) ==
  \E s \in Roles :
    Barrier(g, Roles, "loop_barr",
            [r \in Roles |-> IF r = s THEN "serial" ELSE "start"])

\* Only the serial thread turns the global shutdown into the group's loop = 0.
SerialCheck(g, r) ==
  /\ Step(g, r, "serial", "start")
  /\ loop' = [loop EXCEPT ![g] = IF shutdown = 1 THEN 0 ELSE @]
  /\ UNCHANGED <<mpc, ri, flagVars, total, mutex, dogVars, retval>>

AfterStart == [low |-> "lock", med |-> "elevate", high |-> "locked"]

StartBarrier(g) == Barrier(g, Roles, "start", AfterStart)

LowLock(g) ==
  /\ mutex[g] = "none"
  /\ Step(g, "low", "lock", "locked")
  /\ mutex' = [mutex EXCEPT ![g] = "low"]
  /\ UNCHANGED <<mpc, ri, flagVars, loop, total, dogVars, retval>>

LockedBarrier(g) ==
  Barrier(g, {"low", "high"}, "locked", [low |-> "elevate", high |-> "hlock"])

ElevateBarrier(g) ==
  Barrier(g, {"low", "med"}, "elevate", [low |-> "unlock", med |-> "finish"])

LowUnlock(g) ==
  /\ Step(g, "low", "unlock", "finish")
  /\ mutex' = [mutex EXCEPT ![g] = "none"]
  /\ UNCHANGED <<mpc, ri, flagVars, loop, total, dogVars, retval>>

\* pthread_mutex_lock of the high thread: it gets the mutex or blocks.
HighLock(g) ==
  /\ Step(g, "high", "hlock", IF mutex[g] = "none" THEN "hunlock" ELSE "hwait")
  /\ mutex' = [mutex EXCEPT ![g] = IF @ = "none" THEN "high" ELSE @]
  /\ UNCHANGED <<mpc, ri, flagVars, loop, total, dogVars, retval>>

HighWake(g) ==
  /\ mutex[g] = "none"
  /\ Step(g, "high", "hwait", "hunlock")
  /\ mutex' = [mutex EXCEPT ![g] = "high"]
  /\ UNCHANGED <<mpc, ri, flagVars, loop, total, dogVars, retval>>

HighUnlock(g) ==
  /\ Step(g, "high", "hunlock", "finish")
  /\ mutex' = [mutex EXCEPT ![g] = "none"]
  /\ UNCHANGED <<mpc, ri, flagVars, loop, total, dogVars, retval>>

AfterFinish == [low |-> "top", med |-> "top", high |-> "total"]

FinishBarrier(g) == Barrier(g, Roles, "finish", AfterFinish)

\* p->total++
CountInversion(g) ==
  /\ Step(g, "high", "total", "watchdog")
  /\ total' = [total EXCEPT ![g] = IF @ < TotalCap THEN @ + 1 ELSE @]
  /\ UNCHANGED <<mpc, ri, flagVars, loop, mutex, dogVars, retval>>

\* p->watchdog++
FeedWatchdog(g) ==
  /\ Step(g, "high", "watchdog", "top")
  /\ watchdog' = [watchdog EXCEPT ![g] = 1]
  /\ UNCHANGED <<mpc, ri, flagVars, loop, total, mutex, watchdog_hits, failures,
                 retval>>

\* Mutant: the worker that leaves stops every group at once.
LeaveLoop_StopsAll(g, r) ==
  /\ Step(g, r, "leave", IF r = "low" THEN "done" ELSE "chkerr")
  /\ shutdown' = 1
  /\ loop' = [f \in Groups |-> 0]
  /\ UNCHANGED <<mpc, ri, have_errors, interrupted, total, mutex, dogVars,
                 retval>>

\* After the loop: set_shutdown_flag(), then low goes straight to the done
\* barrier, med and high look at have_errors first.
LeaveLoop(g, r) ==
  /\ Step(g, r, "leave", IF r = "low" THEN "done" ELSE "chkerr")
  /\ shutdown' = 1
  /\ UNCHANGED <<mpc, ri, have_errors, interrupted, loop, total, mutex, dogVars,
                 retval>>

CheckErrors(g, r) ==
  /\ Step(g, r, "chkerr", IF have_errors = 0 THEN "done" ELSE "gone")
  /\ UNCHANGED <<mpc, ri, flagVars, loop, total, mutex, dogVars, retval>>

WorkerStep(g, r) ==
  \/ VerifyCpu(g, r) \/ CheckTotal(g, r) \/ CheckLoop(g, r) \/ SerialCheck(g, r)
  \/ LeaveLoop(g, r) \/ CheckErrors(g, r)

LowStep(g)  == LowLock(g) \/ LowUnlock(g)
HighStep(g) == \/ HighLock(g) \/ HighWake(g) \/ HighUnlock(g)
               \/ CountInversion(g) \/ FeedWatchdog(g)

GroupBarrier(g) ==
  \/ LoopBarrier(g) \/ StartBarrier(g) \/ LockedBarrier(g)
  \/ ElevateBarrier(g) \/ FinishBarrier(g)

GroupStep(g) ==
  (\E r \in Roles : WorkerStep(g, r)) \/ LowStep(g) \/ HighStep(g) \/ GroupBarrier(g)

-----------------------------------------------------------------------------
(* The main thread *)

Main(from, to) == retval = "none" /\ mpc = from /\ mpc' = to

\* create_group(&groups[ri]).  When the pthread_create of worker r fails, the
\* workers created before it exist (only high's failure also sets shutdown),
\* and main returns FAILURE, which ends the process.
CreatedBefore == [low |-> {}, med |-> {"low"}, high |-> {"low", "med"}]

CreateGroup ==
  /\ \/ /\ Main("create", IF ri + 1 < NGroups THEN "create" ELSE "ready")
        /\ pc' = [pc EXCEPT ![ri] = [r \in Roles |-> "verify"]]
        /\ ri' = IF ri + 1 < NGroups THEN ri + 1 ELSE 0
        /\ UNCHANGED <<shutdown, have_errors, retval>>
     \/ \E r \in Roles :
        /\ "pthread_create" \in Failures
        /\ Main("create", "exit")
        /\ pc' = [pc EXCEPT ![ri] =
                   [q \in Roles |-> IF q \in CreatedBefore[r] THEN "verify"
                                    ELSE "unborn"]]
        /\ shutdown' = IF r = "high" THEN 1 ELSE shutdown
        /\ have_errors' = 1
        /\ retval' = "FAILURE"
        /\ UNCHANGED ri
  /\ UNCHANGED <<interrupted, loop, total, mutex, dogVars>>

\* Mutant: the barrier is initialised for one thread too few.
ReadyBarrier_Short ==
  /\ Main("ready", "sleep0")
  /\ \E f \in Groups, q \in Roles : \A g \in Groups, r \in Roles :
       pc[g][r] = "ready" \/ <<g, r>> = <<f, q>>
  /\ pc' = [g \in Groups |->
             [r \in Roles |-> IF pc[g][r] = "ready" THEN "top" ELSE pc[g][r]]]
  /\ UNCHANGED <<ri, flagVars, loop, total, mutex, dogVars, retval>>

\* all_threads_ready: every worker and main.
ReadyBarrier ==
  /\ Main("ready", "sleep0")
  /\ \A g \in Groups, r \in Roles : pc[g][r] = "ready"
  /\ pc' = [g \in Groups |-> [r \in Roles |-> "top"]]
  /\ UNCHANGED <<ri, flagVars, loop, total, mutex, dogVars, retval>>

\* The first clock_nanosleep of reporter(); on failure reporter returns at once.
ReporterFirstSleep ==
  /\ \/ Main("sleep0", "rtop") /\ UNCHANGED have_errors
     \/ /\ "clock_nanosleep" \in Failures
        /\ Main("sleep0", "rdone")
        /\ have_errors' = 1
  /\ UNCHANGED <<workerVars, ri, shutdown, interrupted, dogVars, retval>>

\* Mutant: the reporter does not look at shutdown.
ReporterTop_Deaf ==
  /\ Main("rtop", "rsleep")
  /\ UNCHANGED <<workerVars, ri, flagVars, dogVars, retval>>

ReporterTop ==
  /\ Main("rtop", IF shutdown = 1 THEN "rdone" ELSE "rsleep")
  /\ UNCHANGED <<workerVars, ri, flagVars, dogVars, retval>>

\* "if (end && time(NULL) > end)": set the flag and continue.  When the clock
\* passes end is up to the environment.
DurationReached ==
  /\ Duration
  /\ Main("rsleep", "rtop")
  /\ shutdown' = 1
  /\ UNCHANGED <<workerVars, ri, have_errors, interrupted, dogVars, retval>>

\* The report interval, the progress line, and the test of the duration.
ReporterSleep ==
  \/ DurationReached
  \/ /\ Main("rsleep", "rint")
     /\ UNCHANGED <<workerVars, ri, flagVars, dogVars, retval>>
  \/ /\ "clock_nanosleep" \in Failures
     /\ Main("rsleep", "rdone")
     /\ have_errors' = 1
     /\ UNCHANGED <<workerVars, ri, shutdown, interrupted, dogVars, retval>>

\* pending_interrupt().  Every signal is blocked and only this call can see one,
\* so whether SIGINT has come since the last look is its choice.  A failing
\* sigpending is an error but no interrupt.
PendingInterrupt ==
  /\ \/ /\ Main("rint", "wcheck")
        /\ UNCHANGED <<have_errors, interrupted>>
     \/ /\ Main("rint", "rdone")
        /\ interrupted' = 1
        /\ UNCHANGED have_errors
     \/ /\ "sigpending" \in Failures
        /\ Main("rint", "wcheck")
        /\ have_errors' = 1
        /\ UNCHANGED interrupted
  /\ ri' = 0
  /\ failures' = 0
  /\ UNCHANGED <<workerVars, shutdown, watchdog, watchdog_hits, retval>>

\* watchdog_check: one group per step.
Hit(g) == watchdog[g] = 0 /\ Inversions # total[g]
NewHits(g) == IF Hit(g) THEN watchdog_hits[g] + 1
              ELSE IF watchdog[g] = 0 THEN watchdog_hits[g] ELSE 0

WatchdogCheck ==
  LET fails == Hit(ri) /\ NewHits(ri) >= WATCHDOG_LIMIT
      last  == ri + 1 = NGroups
  IN /\ Main("wcheck", IF ~last THEN "wcheck"
                       ELSE IF fails \/ failures = 1 THEN "rdone" ELSE "wclear")
     /\ watchdog_hits' = [watchdog_hits EXCEPT ![ri] = NewHits(ri)]
     /\ have_errors' = IF fails THEN 1 ELSE have_errors
     /\ failures' = IF fails THEN 1 ELSE failures
     /\ shutdown' = IF last /\ (fails \/ failures = 1) THEN 1 ELSE shutdown
     /\ ri' = IF last THEN 0 ELSE ri + 1
     /\ UNCHANGED <<workerVars, interrupted, watchdog, retval>>

\* watchdog_clear: one group per step, then the next round.
WatchdogClear ==
  /\ Main("wclear", IF ri + 1 = NGroups THEN "rtop" ELSE "wclear")
  /\ watchdog' = [watchdog EXCEPT ![ri] = 0]
  /\ ri' = IF ri + 1 = NGroups THEN 0 ELSE ri + 1
  /\ UNCHANGED <<workerVars, flagVars, watchdog_hits, failures, retval>>

\* reporter returns; it and main both set the shutdown flag.
ReporterReturn ==
  /\ Main("rdone", "mdone")
  /\ shutdown' = 1
  /\ UNCHANGED <<workerVars, ri, have_errors, interrupted, dogVars, retval>>

\* Mutant: interrupted is not looked at.
MainFinish_IgnoresInterrupt ==
  /\ \/ /\ have_errors = 0
        /\ Main("mdone", "done")
        /\ UNCHANGED retval
     \/ /\ have_errors # 0
        /\ Main("mdone", "exit")
        /\ retval' = "FAILURE"
  /\ UNCHANGED <<workerVars, ri, flagVars, dogVars>>

\* Wait for the workers, or kill(0, SIGTERM): the workers do not block it, main
\* does, so that the signal ends the process or main's exit(retval) does.
MainFinish ==
  /\ \/ /\ have_errors = 0 /\ interrupted = 0
        /\ Main("mdone", "done")
        /\ UNCHANGED retval
     \/ /\ have_errors # 0 \/ interrupted # 0
        /\ Main("mdone", "exit")
        /\ retval' = "FAILURE"
  /\ UNCHANGED <<workerVars, ri, flagVars, dogVars>>

\* all_threads_done: every worker and main; main exits and takes them along.
DoneBarrier ==
  /\ Main("done", "exit")
  /\ \A g \in Groups, r \in Roles : pc[g][r] = "done"
  /\ pc' = [g \in Groups |-> [r \in Roles |-> "gone"]]
  /\ retval' = "SUCCESS"
  /\ UNCHANGED <<ri, flagVars, loop, total, mutex, dogVars>>

MainStep ==
  \/ CreateGroup \/ ReadyBarrier \/ ReporterFirstSleep \/ ReporterTop
  \/ ReporterSleep \/ PendingInterrupt \/ WatchdogCheck \/ WatchdogClear
  \/ ReporterReturn \/ MainFinish \/ DoneBarrier

-----------------------------------------------------------------------------
\* The process has ended.
Terminated == retval # "none" /\ UNCHANGED vars

Next ==
  \/ \E g \in Groups, r \in Roles : WorkerStep(g, r)
  \/ \E g \in Groups : LowStep(g) \/ HighStep(g) \/ GroupBarrier(g)
  \/ MainStep
  \/ Terminated

\* The kernel always runs some runnable worker, and main.  The clock need not
\* pass the end of --duration, and nobody has to press Control-C.
Fairness ==
  /\ WF_vars(\E g \in Groups : GroupStep(g))
  /\ WF_vars(MainStep)

Spec     == Init /\ [][Next]_vars
FairSpec == Spec /\ Fairness

-----------------------------------------------------------------------------
(* Properties *)

\* Every variable of the workers and of main has its type.
TypeOK ==
  /\ pc \in [Groups -> [Roles -> WorkerLocs]]
  /\ mpc \in MainLocs /\ ri \in Groups
  /\ shutdown \in 0..1 /\ have_errors \in 0..1 /\ interrupted \in 0..1
  /\ loop \in [Groups -> 0..1]
  /\ total \in [Groups -> 0..TotalCap]
  /\ watchdog \in [Groups -> 0..1]
  /\ watchdog_hits \in [Groups -> Nat]
  /\ mutex \in [Groups -> {"none", "low", "high"}]
  /\ failures \in 0..1
  /\ retval \in {"none", "SUCCESS", "FAILURE"}

\* "Either all threads go through the loop_barr, or none do": no worker waits
\* at the loop barrier of a group that another worker has left for good.
AllOrNone ==
  \A g \in Groups, q, r \in Roles :
    ~(pc[g][q] = "loop_barr" /\ pc[g][r] \in LeftLoop)

\* The shutdown flag is turned into loop = 0 one barrier after the count is
\* reached: a group does at most one inversion more than --inversions asks for.
BoundedOvershoot ==
  Inversions >= 0 => \A g \in Groups : total[g] <= Inversions + 1

\* A process that reports success met no error, and every group has done an
\* inversion, has seen the shutdown and has released its mutex.
SuccessIsClean ==
  retval = "SUCCESS" =>
    /\ have_errors = 0 /\ interrupted = 0
    /\ \A g \in Groups : loop[g] = 0 /\ mutex[g] = "none" /\ total[g] > 0

\* A worker that is on the wrong CPU keeps every group out of its loop: no
\* inversion is ever counted by an incomplete program.
NobodyRunsShortHanded ==
  \A f, g \in Groups, q, r \in Roles :
    pc[f][q] = "failed" => pc[g][r] \in Outside \cup {"failed"}

Finished(g) == \A r \in Roles : pc[g][r] \in LeftLoop

\* "don't report deadlock if group is finished": watchdog_check never counts a
\* hit against a group whose workers have all left the loop.
FinishedGroupNeverHit ==
  [][\A g \in Groups : watchdog_hits'[g] > watchdog_hits[g] => ~Finished(g)]_vars

\* Each round really is an inversion: on one CPU under SCHED_FIFO the low thread
\* releases the mutex only while the high thread is blocked on it.
RealInversion ==
  [][\A g \in Groups :
       Fifo /\ pc[g]["low"] = "unlock" /\ pc'[g]["low"] # "unlock"
         => pc[g]["high"] = "hwait"]_vars

\* With --inversions the process ends: once a group has done its count, or on an
\* error, an interrupt or the end of --duration before, in whatever round the
\* groups are by then and whoever raises the shutdown flag; unless verify_cpu has
\* turned a worker away, for which main waits at all_threads_ready for ever.
ShutdownCompletes ==
  Inversions >= 0 =>
    <>(\/ retval # "none"
       \/ \E g \in Groups, r \in Roles : pc[g][r] = "failed")
=============================================================================

------------------------------ MODULE RtMigrate ------------------------------
(***************************************************************************)
(* rt-migrate-test (src/src/rt-migrate-test/rt-migrate-test.c): rounds in  *)
(* which main starts all tasks at a barrier, lets each of them run for a   *)
(* while and collects them at a second barrier.  A task records when it    *)
(* started, how long it took and how often it looped; with --check main    *)
(* compares the tasks of neighbouring priorities after every round.  The   *)
(* loop counter, its bound and done are shared without a lock: only the    *)
(* barriers keep main and the tasks apart.                                 *)
(*                                                                         *)
(* A record is one of a few measurements; it is stored with the round in   *)
(* which it was made and the CPU the task asked for.                       *)
(***************************************************************************)
EXTENDS Integers, FiniteSets

CONSTANTS
  NrTasks,            \* nr_tasks
  NrRuns,             \* the argument of --loops
  MaxErr,             \* max_err, --maxerr
  Measurements,       \* what a task may measure: start, end and loops
  Masks               \* the affinity masks the program may be started with

ASSUME ConstantsAssumption ==
  /\ NrTasks \in Nat \ {0} /\ NrRuns \in Nat \ {0} /\ MaxErr \in Nat
  /\ Measurements \subseteq [time : Nat, length : Nat, loops : Nat]
  /\ \A m \in Masks : m \subseteq Nat /\ m # {} /\ IsFiniteSet(m)

Tasks == 0 .. (NrTasks - 1)
High  == NrTasks - 1
Rows  == 0 .. (NrRuns - 1)

VARIABLES
  mask,               \* save_cpumask
  pc, mpc,            \* where the tasks and main are
  cpu, here,          \* the highest task's next CPU, and the one it asked for
  table,              \* intervals, intervals_length and intervals_loops
  loop, nr_runs, done, stop, check,     \* the globals
  i,                  \* main's index
  round,              \* history: the rounds that have been started
  status              \* the exit status

mainVars == <<loop, nr_runs, done, check, i, status>>
taskVars == <<cpu, here, table>>
vars == <<mask, pc, mpc, cpu, here, table, loop, nr_runs, done, stop, check, i,
          round, status>>

None == [round |-> -1, cpu |-> -1, time |-> 0, length |-> 0, loops |-> 0]

Init ==
  /\ mask \in Masks
  /\ pc = [t \in Tasks |-> "unborn"] /\ mpc = "create"
  /\ cpu = 0 /\ here = -1
  /\ table = [l \in Rows |-> [t \in Tasks |-> None]]
  /\ loop = 0 /\ nr_runs = NrRuns /\ done = 0 /\ stop = 0 /\ check \in {0, 1}
  /\ i = 0 /\ round = 0 /\ status = 2

-----------------------------------------------------------------------------
(* The barriers wait for the tasks and main. *)

Barrier(from, to) ==
  /\ \A t \in Tasks : pc[t] = from
  /\ pc' = [t \in Tasks |-> to]
  /\ UNCHANGED <<mask, taskVars, mainVars, stop>>

StartBarrier ==
  /\ (mpc = "start" /\ mpc' = "sleep") \/ (mpc = "last" /\ mpc' = "done")
  /\ Barrier("start", "bound")
  /\ round' = round + 1

EndBarrier ==
  /\ (mpc = "end" /\ mpc' = "check") \/ (mpc = "lastend" /\ mpc' = "join")
  /\ Barrier("end", "top")
  /\ UNCHANGED round

-----------------------------------------------------------------------------
(* start_task *)

Task(t, from, to) == mpc # "exit" /\ pc[t] = from /\ pc' = [pc EXCEPT ![t] = to]

\* Mutant: the highest task starts again one CPU too late.
Rotate_Ahead(c) == IF c \in mask THEN c ELSE 1

\* the CPU the highest task asks for next
Rotate(c) == IF c \in mask THEN c ELSE 0

\* while (!done); the highest task rotates around the CPUs
Top(t) ==
  /\ Task(t, "top", IF done = 0 THEN "start" ELSE "ended")
  /\ IF t = High /\ done = 0
     THEN here' = Rotate(cpu) /\ cpu' = Rotate(cpu) + 1
     ELSE UNCHANGED <<cpu, here>>
  /\ UNCHANGED <<mask, mpc, table, mainVars, stop, round>>

\* Mutant: record_time() records every round.
Bound_None(t) ==
  /\ Task(t, "bound", "record")
  /\ UNCHANGED <<mask, mpc, taskVars, mainVars, stop, round>>

\* busy_loop(), then the test in record_time()
Bound(t) ==
  /\ Task(t, "bound", IF loop >= nr_runs THEN "end" ELSE "record")
  /\ UNCHANGED <<mask, mpc, taskVars, mainVars, stop, round>>

\* the stores of record_time(), at the row that loop has now
Record(t) ==
  /\ Task(t, "record", "end")
  /\ \E m \in Measurements :
       table' = [table EXCEPT ![loop][t] =
                   [round |-> round - 1, cpu |-> IF t = High THEN here ELSE -1,
                    time |-> m.time, length |-> m.length, loops |-> m.loops]]
  /\ UNCHANGED <<mask, mpc, cpu, here, mainVars, stop, round>>

TaskStep(t) == Top(t) \/ Bound(t) \/ Record(t)

-----------------------------------------------------------------------------
(* main *)

Main(from, to) == mpc = from /\ mpc' = to

Create ==
  /\ Main("create", IF i + 1 < NrTasks THEN "create" ELSE "start")
  /\ pc' = [pc EXCEPT ![i] = "top"]
  /\ i' = i + 1
  /\ UNCHANGED <<mask, taskVars, loop, nr_runs, done, stop, check, round, status>>

\* perr() ends the process, whatever the tasks do.
CreateFails ==
  /\ Main("create", "exit")
  /\ status' = -1
  /\ UNCHANGED <<mask, pc, taskVars, loop, nr_runs, done, stop, check, i, round>>

Sleep ==
  /\ Main("sleep", "end")
  /\ UNCHANGED <<mask, pc, taskVars, mainVars, stop, round>>

\* Mutant: && for ||.
check_times_EveryReason(l) ==
  \E t \in Tasks \ {0} :
    LET high == table[l][t]
        last == table[l][t - 1]
    IN  /\ last.time < high.time /\ high.time - last.time > MaxErr
        /\ high.loops < last.loops /\ high.time > last.length
        /\ high.length > last.length /\ high.length - last.length > MaxErr

\* a task that started too late after its lower neighbour, and not because that one
\* had a CPU of its own all the time
check_times(l) ==
  \E t \in Tasks \ {0} :
    LET high == table[l][t]
        last == table[l][t - 1]
    IN  /\ last.time < high.time /\ high.time - last.time > MaxErr
        /\ \/ high.loops < last.loops
           \/ high.time > last.length
           \/ high.length > last.length /\ high.length - last.length > MaxErr

\* Mutant: done is set before the last round is started.
CheckRound_DoneFirst ==
  /\ mpc = "check" /\ loop' = loop + 1
  /\ nr_runs' = IF stop = 1 THEN loop + 1 ELSE nr_runs
  /\ mpc' = IF loop' < nr_runs' THEN "start" ELSE "last"
  /\ done' = IF loop' < nr_runs' THEN 0 ELSE 1
  /\ UNCHANGED <<mask, pc, taskVars, check, stop, i, round, status>>

\* if (stop || (check && check_times(loop))) ends the loop, which counts the round.
CheckRound ==
  /\ mpc = "check" /\ loop' = loop + 1
  /\ \/ /\ stop = 1 \/ (check = 1 /\ check_times(loop))
        /\ nr_runs' = loop + 1 /\ mpc' = "last"
        /\ check' = IF stop = 0 THEN -1 ELSE check
     \/ /\ ~(stop = 1 \/ (check = 1 /\ check_times(loop)))
        /\ mpc' = IF loop + 1 < nr_runs THEN "start" ELSE "last"
        /\ UNCHANGED <<nr_runs, check>>
  /\ UNCHANGED <<mask, pc, taskVars, done, stop, i, round, status>>

\* One more round lets the tasks see done.
SetDone ==
  /\ Main("done", "lastend")
  /\ done' = 1
  /\ UNCHANGED <<mask, pc, taskVars, loop, nr_runs, stop, check, i, round, status>>

\* print_results() and the exit status
Finish ==
  /\ \A t \in Tasks : pc[t] = "ended"
  /\ Main("join", "exit")
  /\ status' = CASE check = -1 -> -1
                 [] check # -1 /\ stop = 1 -> 1
                 [] OTHER -> 0
  /\ UNCHANGED <<mask, pc, taskVars, loop, nr_runs, done, stop, check, i, round>>

MainStep == Create \/ CreateFails \/ Sleep \/ CheckRound \/ SetDone \/ Finish

\* stop_log
Sigint ==
  /\ stop = 0 /\ mpc # "exit"
  /\ stop' = 1
  /\ UNCHANGED <<mask, pc, mpc, taskVars, mainVars, round>>

Next ==
  \/ StartBarrier \/ EndBarrier \/ MainStep
  \/ \E t \in Tasks : TaskStep(t)
  \/ Sigint

\* A task runs for a bounded time and then sleeps at a barrier; main sleeps: every
\* task gets a CPU in the end, also with more tasks than CPUs.
Fairness ==
  /\ WF_vars(MainStep) /\ WF_vars(StartBarrier \/ EndBarrier)
  /\ \A t \in Tasks : WF_vars(TaskStep(t))

Spec     == Init /\ [][Next]_vars
FairSpec == Spec /\ Fairness

-----------------------------------------------------------------------------
(* Properties *)

\* What print_results() prints is complete and nothing but the rounds: row l holds
\* what every task measured in round l, and the additional round that only ends the
\* tasks is recorded nowhere, although loop and nr_runs change under record_time().
TableComplete ==
  mpc = "join" \/ status \in 0..1 =>
    \A l \in Rows, t \in Tasks :
      table[l][t].round = IF l < nr_runs THEN l ELSE -1

\* "rotate around the CPUS" (start_task): the highest task runs on the CPUs from 0
\* to the first gap in turn, a new one every round: on every CPU if the affinity mask
\* has no gap; one without CPU 0 is treated as if it had it.
EveryCpuInTurn ==
  LET reach == {c \in mask \cup {0} : 1 .. c \subseteq mask}
  IN \A l \in Rows : table[l][High].round # -1 =>
       table[l][High].cpu = l % Cardinality(reach)

\* "Stop if lower prio task is quicker than higher" (usage): the exit status says
\* failed only when the last round of the table is one in which a task started
\* too late and was not excused by its neighbour; success is reported only for all
\* --loops rounds, with no such round among them when they were checked; Control-C
\* leaves at most the round it interrupts unchecked.
VerdictSound ==
  LET lateTask(l) == \E t \in Tasks \ {0} :
        LET high == table[l][t]
            low  == table[l][t - 1]
        IN  /\ high.time > low.time + MaxErr
            /\ ~ (/\ high.loops >= low.loops /\ high.time <= low.length
                  /\ high.length <= low.length + MaxErr)
      before(n) == {l \in Rows : l < n}
  IN /\ status = -1 /\ round > 0 =>
          check # 0 /\ lateTask(nr_runs - 1) /\ \A l \in before(nr_runs - 1) : ~lateTask(l)
     /\ status = 0 => nr_runs = NrRuns /\ (check # 0 => \A l \in Rows : ~lateTask(l))
     /\ status = 1 => stop = 1 /\ (check # 0 => \A l \in before(nr_runs - 1) : ~lateTask(l))

\* The run ends, after --loops rounds, a failed check or Control-C: the barriers
\* never wait for a task that has seen done.
Ends == <>(mpc = "exit")
=============================================================================

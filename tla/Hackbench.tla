------------------------------ MODULE Hackbench ------------------------------
(***************************************************************************)
(* hackbench (src/src/hackbench/hackbench.c): groups of senders and        *)
(* receivers, processes or threads, that pump messages through sockets or  *)
(* pipes.  Every worker writes a byte to main when it is ready and polls   *)
(* for main's byte; main stamps the start when all are ready, wakes them   *)
(* and waits for them to end.  Creating a group may fail halfway, signals  *)
(* make main longjmp into its cleanup, and a worker may be killed.         *)
(*                                                                         *)
(* The contents of a message do not matter: a stream is a number of bytes. *)
(* write() may take a part of a message.                                   *)
(***************************************************************************)
EXTENDS Integers, FiniteSets, FiniteSetsExt

CONSTANTS
  Shapes,             \* command lines: <<num_groups, num_fds>>
  Loops, Datasize,    \* loops, datasize
  Capacity            \* bytes a socket or pipe holds

ASSUME ConstantsAssumption ==
  /\ Shapes \subseteq ((Nat \ {0}) \X (Nat \ {0})) /\ IsFiniteSet(Shapes)
  /\ Loops \in Nat \ {0} /\ Datasize \in Nat \ {0} /\ Capacity \in Nat \ {0}

VARIABLES
  process_mode,       \* the command line: TRUE iff processes (-P)
  fifo,               \*   TRUE iff -F was given
  shape,              \*   num_groups and num_fds
  pc, mpc,            \* where the workers and main are
  moved,              \* bytes that worker w has written or read
  buffer,             \* bytes in the socket of receiver w
  readyfds, wakefds,  \* bytes in the ready and wake-up channels
  n, total_children,  \* workers started, and those of complete groups
  totchld, dokill,    \* the arguments of reap_workers
  i, reaped,          \* its index, and the children waited for or joined
  handler,            \* what SIGINT does to main's process
  signal_caught,      \* the flag
  timer_started,      \* 1 once the start is stamped
  out,                \* how main ended
  failed, died        \* history: a group failed; a worker was killed by others

cmdVars  == <<process_mode, fifo, shape>>
dataVars == <<moved, buffer>>
reapVars == <<totchld, dokill, i, reaped>>
sigVars  == <<handler, signal_caught>>
histVars == <<failed, died>>
vars == <<process_mode, fifo, shape, pc, mpc, moved, buffer, readyfds, wakefds, n,
          total_children, totchld, dokill, i, reaped, handler, signal_caught,
          timer_started, out, failed, died>>

num_fds    == shape[2]
Expected   == 2 * shape[1] * num_fds
Workers    == 0 .. (Expected - 1)
Offset(w)  == 2 * num_fds * (w \div (2 * num_fds))      \* tab_offset of its group
IsReceiver(w) == w - Offset(w) < num_fds

Ended    == {"ended", "killed"}
Alive(w) == pc[w] \notin Ended \cup {"unborn"}

Init ==
  /\ process_mode \in BOOLEAN /\ fifo \in BOOLEAN /\ shape \in Shapes
  /\ pc = [w \in Workers |-> "unborn"] /\ mpc = "create"
  /\ moved = [w \in Workers |-> 0] /\ buffer = [w \in Workers |-> 0]
  /\ readyfds = 0 /\ wakefds = 0
  /\ n = 0 /\ total_children = 0
  /\ totchld = 0 /\ dokill = FALSE /\ i = 0 /\ reaped = 0
  /\ handler = "sigcatcher" /\ signal_caught = 0 /\ timer_started = 0
  /\ out = "" /\ failed = FALSE /\ died = FALSE

-----------------------------------------------------------------------------
(* Workers.  Threads end with main, processes do not. *)

Worker(w, from, to) ==
  /\ process_mode \/ mpc \notin {"exit", "killed"}
  /\ pc[w] = from /\ pc' = [pc EXCEPT ![w] = to]

\* reset_worker_signals(), which for a thread is main's process as well
Reset(w) ==
  /\ Worker(w, "born", "ready")
  /\ handler' = IF process_mode THEN handler ELSE "default"
  /\ UNCHANGED <<cmdVars, mpc, dataVars, readyfds, wakefds, n, total_children, reapVars,
                 signal_caught, timer_started, out, histVars>>

\* ready(): write(ready_out)
Ready(w) ==
  /\ Worker(w, "ready", "poll")
  /\ readyfds' = readyfds + 1
  /\ UNCHANGED <<cmdVars, mpc, dataVars, wakefds, n, total_children, reapVars, sigVars,
                 timer_started, out, histVars>>

\* poll() leaves the byte to the others.
Poll(w) ==
  /\ wakefds > 0
  /\ Worker(w, "poll", "pump")
  /\ UNCHANGED <<cmdVars, mpc, dataVars, readyfds, wakefds, n, total_children, reapVars,
                 sigVars, timer_started, out, histVars>>

\* Mutant: a receiver expects the messages of one sender more.
Quota_OneMore(w) ==
  Loops * (IF IsReceiver(w) THEN num_fds + 1 ELSE num_fds) * Datasize

\* num_packets messages for a receiver; loops messages to every fd from a sender
Quota(w) == Loops * num_fds * Datasize

\* the receiver that sender w writes to next, and what is left of the message
Target(w) == Offset(w) + ((moved[w] \div Datasize) % num_fds)
Rest(w)   == Datasize - (moved[w] % Datasize)

\* write(): as much of the message as the stream takes
Write(w) ==
  LET r == Target(w)
  IN /\ ~IsReceiver(w) /\ moved[w] < Quota(w)
     /\ pc[r] # "killed" /\ buffer[r] < Capacity
     /\ \E k \in 1 .. Min({Rest(w), Capacity - buffer[r]}) :
          /\ moved' = [moved EXCEPT ![w] = @ + k]
          /\ buffer' = [buffer EXCEPT ![r] = @ + k]
          /\ Worker(w, "pump", IF moved[w] + k = Quota(w) THEN "ended" ELSE "pump")
     /\ UNCHANGED <<cmdVars, mpc, readyfds, wakefds, n, total_children, reapVars, sigVars,
                    timer_started, out, histVars>>

\* SIGPIPE: the receiver's process, which alone had the reading end, has gone.
WriteBroken(w) ==
  /\ ~IsReceiver(w) /\ moved[w] < Quota(w) /\ pc[Target(w)] = "killed"
  /\ Worker(w, "pump", "killed")
  /\ UNCHANGED <<cmdVars, mpc, dataVars, readyfds, wakefds, n, total_children, reapVars,
                 sigVars, timer_started, out, histVars>>

\* read(): at most the rest of a message
Read(w) ==
  /\ IsReceiver(w) /\ buffer[w] > 0
  /\ LET k == Min({Rest(w), buffer[w]})
     IN /\ moved' = [moved EXCEPT ![w] = @ + k]
        /\ buffer' = [buffer EXCEPT ![w] = @ - k]
        /\ Worker(w, "pump", IF moved[w] + k = Quota(w) THEN "ended" ELSE "pump")
  /\ UNCHANGED <<cmdVars, mpc, readyfds, wakefds, n, total_children, reapVars, sigVars,
                 timer_started, out, histVars>>

\* The writing end of receiver w is open in the senders of its group, and in the
\* receivers that were forked after it.
HoldsWriteEnd(v, w) == Offset(v) = Offset(w) /\ v > w /\ Alive(v)

\* read() returns 0 at the end of the stream, and the receiver tries again for ever.
ReadEof(w) ==
  /\ process_mode /\ IsReceiver(w) /\ buffer[w] = 0
  /\ ~\E v \in Workers : HoldsWriteEnd(v, w)
  /\ Worker(w, "pump", "spin")
  /\ UNCHANGED <<cmdVars, mpc, dataVars, readyfds, wakefds, n, total_children, reapVars,
                 sigVars, timer_started, out, histVars>>

WorkerStep(w) ==
  \/ Reset(w) \/ Ready(w) \/ Poll(w) \/ Write(w) \/ WriteBroken(w) \/ Read(w)
  \/ ReadEof(w)

\* Somebody else kills a process, once in a run.
Die(w) ==
  /\ process_mode /\ ~died /\ mpc # "exit" /\ Alive(w)
  /\ pc' = [pc EXCEPT ![w] = "killed"]
  /\ died' = TRUE
  /\ UNCHANGED <<cmdVars, mpc, dataVars, readyfds, wakefds, n, total_children, reapVars,
                 sigVars, timer_started, out, failed>>

-----------------------------------------------------------------------------
(* main *)

Main(from, to) == mpc = from /\ mpc' = to

GroupDone == (n + 1) % (2 * num_fds) = 0

\* create_worker() in group(), which returns num_fds * 2 after its last worker
CreateWorker ==
  /\ Main("create", IF n + 1 < Expected THEN "create" ELSE "fifo")
  /\ pc' = [pc EXCEPT ![n] = "born"]
  /\ n' = n + 1
  /\ total_children' = IF GroupDone THEN n + 1 ELSE total_children
  /\ UNCHANGED <<cmdVars, dataVars, readyfds, wakefds, reapVars, sigVars, timer_started,
                 out, histVars>>

\* reap_workers(child_tab, count, kill), of a run that has failed
Abort(count) ==
  /\ totchld' = count /\ dokill' = TRUE
  /\ failed' = TRUE
  /\ UNCHANGED <<cmdVars, i, reaped, pc, dataVars, readyfds, wakefds, n, total_children, sigVars,
                 timer_started, out, died>>

\* Mutant: a group that fails has nothing to reap.
GroupFails_Zero == Main("create", "signal") /\ Abort(total_children)

\* malloc(), fork() or pthread_create() fails and group() returns the number of
\* workers it has started minus one, or 0.
GroupFails ==
  /\ Main("create", "signal")
  /\ Abort(total_children + Max({n - total_children - 1, 0}))

\* barf(): fdpair() fails in group(), or main cannot become a SCHED_FIFO task.
Barf ==
  /\ \/ mpc = "create" /\ IsReceiver(n)
     \/ mpc = "fifo" /\ fifo
  /\ mpc' = "exit" /\ out' = "barf"
  /\ UNCHANGED <<cmdVars, pc, dataVars, readyfds, wakefds, n, total_children, reapVars,
                 sigVars, timer_started, histVars>>

SetFifo ==
  /\ Main("fifo", "wait")
  /\ UNCHANGED <<cmdVars, pc, dataVars, readyfds, wakefds, n, total_children, reapVars,
                 sigVars, timer_started, out, histVars>>

\* Mutant: main does not wait for the last worker.
ReadReady_OneLess ==
  /\ readyfds >= total_children - 1
  /\ Main("wait", "kick")
  /\ timer_started' = 1
  /\ UNCHANGED <<cmdVars, pc, dataVars, readyfds, wakefds, n, total_children, reapVars,
                 sigVars, out, histVars>>

\* total_children bytes are read from readyfds, and the start is stamped.
ReadReady ==
  /\ readyfds >= total_children
  /\ Main("wait", "kick")
  /\ timer_started' = 1
  /\ UNCHANGED <<cmdVars, pc, dataVars, readyfds, wakefds, n, total_children, reapVars,
                 sigVars, out, histVars>>

\* write(wakefds[1]), then reap_workers(child_tab, total_children, 0)
Kick ==
  /\ Main("kick", "reap")
  /\ wakefds' = 1
  /\ totchld' = total_children
  /\ UNCHANGED <<cmdVars, pc, dataVars, readyfds, n, total_children, dokill, i, reaped, sigVars,
                 timer_started, out, histVars>>

\* One of the calls on readyfds or wakefds fails.
KickFails ==
  /\ mpc \in {"wait", "kick"} /\ mpc' = "signal"
  /\ Abort(total_children)

\* signal_workers(): SIGTERM to every worker that is counted.  A process ends, also
\* one that still has main's handler; a thread's id is not a process.
SignalWorkers ==
  /\ Main("signal", "reap")
  /\ pc' = [w \in Workers |->
              IF process_mode /\ w < totchld /\ Alive(w) THEN "killed" ELSE pc[w]]
  /\ UNCHANGED <<cmdVars, dataVars, readyfds, wakefds, n, total_children, reapVars,
                 sigVars, timer_started, out, histVars>>

\* wait() for any child, or ECHILD; pthread_join() of the next one
Reap ==
  /\ i < totchld
  /\ Main("reap", "reap")
  /\ i' = i + 1
  /\ LET dead == Cardinality({w \in Workers : pc[w] \in Ended})
     IN \/ /\ IF process_mode THEN dead > reaped ELSE pc[i] = "ended"
           /\ reaped' = reaped + 1
        \/ /\ process_mode /\ dead = reaped /\ ~\E w \in Workers : Alive(w)
           /\ UNCHANGED reaped
  /\ UNCHANGED <<cmdVars, pc, dataVars, readyfds, wakefds, n, total_children, totchld,
                 dokill, sigVars, timer_started, out, histVars>>

\* barf(), or the time; after a longjmp timer_started may have its old value.
Finish ==
  /\ i = totchld
  /\ Main("reap", "exit")
  /\ \E started \in IF signal_caught = 1 THEN {0, timer_started} ELSE {timer_started} :
       out' = CASE dokill /\ signal_caught = 0 -> "barf"
                [] ~(dokill /\ signal_caught = 0) /\ started = 1 -> "time"
                [] OTHER -> "nothing"
  /\ UNCHANGED <<cmdVars, pc, dataVars, readyfds, wakefds, n, total_children, reapVars,
                 sigVars, timer_started, histVars>>

MainStep ==
  \/ CreateWorker \/ GroupFails \/ Barf \/ SetFifo \/ ReadReady \/ Kick \/ KickFails
  \/ SignalWorkers \/ Reap \/ Finish

\* SIGINT to main, or from the terminal to every process: sigcatcher() longjmps out
\* of whatever main does.
Sigcatcher ==
  /\ mpc \notin {"exit", "killed"} /\ handler = "sigcatcher"
  /\ handler' = "ignore" /\ signal_caught' = 1
  /\ mpc' = "signal"
  /\ totchld' = total_children /\ dokill' = TRUE /\ i' = 0
  /\ \E all \in {process_mode, FALSE} :
       pc' = [w \in Workers |-> IF all /\ Alive(w) THEN "killed" ELSE pc[w]]
  /\ UNCHANGED <<cmdVars, dataVars, readyfds, wakefds, n, total_children, reaped,
                 timer_started, out, histVars>>

\* A worker thread has reset the handler.
SignalDefault ==
  /\ mpc \notin {"exit", "killed"} /\ handler = "default"
  /\ mpc' = "killed"
  /\ UNCHANGED <<cmdVars, pc, dataVars, readyfds, wakefds, n, total_children, reapVars,
                 sigVars, timer_started, out, histVars>>

Next ==
  \/ \E w \in Workers : WorkerStep(w) \/ Die(w)
  \/ MainStep \/ Sigcatcher \/ SignalDefault

\* Everybody runs until he blocks and is scheduled again when he can go on; nobody
\* has to send signals.
Fairness ==
  /\ WF_vars(MainStep)
  /\ \A w \in 0 .. (Max({2 * s[1] * s[2] : s \in Shapes}) - 1) :
       WF_vars(w \in Workers /\ WorkerStep(w))

Spec     == Init /\ [][Next]_vars
FairSpec == Spec /\ Fairness

-----------------------------------------------------------------------------
(* Properties *)

\* The time that is printed is that of all the traffic and of nothing else: no byte
\* moves before every worker is ready and the start is stamped, and when main prints
\* the time every receiver has had all its bytes, no byte is left in a stream and
\* every worker has ended.  Main counts the workers it waits for and ignores their
\* status: a run that was interrupted or lost a worker prints a time as well.
TimeSpansTraffic ==
  /\ (\E w \in Workers : moved[w] > 0) =>
       /\ timer_started = 1
       /\ \A w \in Workers : pc[w] \notin {"unborn", "born", "ready"}
  /\ out = "time" /\ signal_caught = 0 /\ ~died =>
       \A w \in Workers : pc[w] = "ended" /\ moved[w] = Quota(w) /\ buffer[w] = 0

\* "sending SIGTERM to all child processes" (reap_workers): when main has ended no
\* process is left behind.  The exceptions: a group that fails leaves the last worker
\* it started, for group() returns one too few; a signal leaves those of the group
\* that was being created; barf() after fdpair() or sched_setscheduler() leaves all.
NobodyLeftBehind ==
  mpc = "exit" /\ process_mode =>
    LET left == {w \in Workers : Alive(w)}
    IN \/ left = {}
       \/ signal_caught = 1 /\ \A w \in left : w >= total_children
       \/ signal_caught = 0 /\ failed /\ left \subseteq {n - 1}
       \/ signal_caught = 0 /\ out = "barf" /\ ~failed

\* "All caught signals will cause the program to exit" (sigcatcher), and so does the
\* end of the traffic or a failure: main ends.  It waits for ever if it has to join
\* threads that it did not wake, which SIGTERM does not reach; if a signal makes it
\* wait again while the worker that a failed group left behind is alive; or if a
\* worker was killed by somebody else, for receivers do not see the end of a stream.
Ends ==
  <>(\/ mpc \in {"exit", "killed"}
     \/ ~process_mode /\ (signal_caught = 1 \/ failed)
     \/ process_mode /\ (died \/ (signal_caught = 1 /\ failed)))
=============================================================================

----------------------------- MODULE Sigwaittest -----------------------------
(***************************************************************************)
(* sigwaittest (src/src/sigwaittest/sigwaittest.c): pairs of threads, or   *)
(* with -f of processes, that wake each other with signals.  The sender    *)
(* stamps, sends SIGUSR2 and waits for SIGUSR1; the receiver waits for     *)
(* SIGUSR2, measures, sleeps and sends SIGUSR1.                            *)
(*                                                                         *)
(* A pending signal is a bit.  A signal that the target has not blocked    *)
(* kills its process: main gives a receiver 10 ms to block SIGUSR2 before  *)
(* it creates the sender, and late records that this was not long enough.  *)
(* A process learns its neighbor's pid from the shared memory, where the   *)
(* child itself writes it.                                                 *)
(***************************************************************************)
EXTENDS Naturals

CONSTANTS
  NThreads,           \* num_threads, -t
  MaxCycles,          \* max_cycles, -l (0, endless, is left out)
  Breaktrace          \* TRUE iff -b was given

ASSUME ConstantsAssumption ==
  /\ NThreads \in Nat \ {0}
  /\ MaxCycles \in Nat \ {0}
  /\ Breaktrace \in BOOLEAN

Pairs == 0 .. (NThreads - 1)

VARIABLES
  mustfork,               \* the command line: TRUE iff -f was given
  late,                   \* history: a receiver was not ready after launchdelay
  spc, rpc, mpc,          \* where the senders, the receivers and main are
  usr1, usr2,             \* SIGUSR1 pending at sender n, SIGUSR2 at receiver n
  blocked,                \* receiver n has blocked SIGUSR2
  rpid, spid,             \* receiver[n].pid and sender[n].pid
  sshutdown, rshutdown,   \* sender[n].shutdown, receiver[n].shutdown
  ssamples, rsamples,     \* sender[n].samples, receiver[n].samples
  sent,                   \* the number of the last stamp of sender n
  i, mustshutdown         \* main's index and flag

signalVars == <<usr1, usr2, blocked>>
pidVars    == <<rpid, spid>>
flagVars   == <<sshutdown, rshutdown>>
sampleVars == <<ssamples, rsamples, sent>>
mainVars   == <<i, mustshutdown>>
envVars    == <<mustfork, late>>
vars == <<mustfork, late, spc, rpc, mpc, usr1, usr2, blocked, rpid, spid,
          sshutdown, rshutdown, ssamples, rsamples, sent, i, mustshutdown>>

Ended     == {"stopped", "killed"}
Reporting == {"receiver", "sender", "loop"}
Returned  == {"exit", "failed"}

Init ==
  /\ mustfork \in BOOLEAN /\ late = FALSE
  /\ spc = [n \in Pairs |-> "unborn"] /\ rpc = [n \in Pairs |-> "unborn"]
  /\ mpc = "receiver"
  /\ usr1 = [n \in Pairs |-> 0] /\ usr2 = [n \in Pairs |-> 0]
  /\ blocked = [n \in Pairs |-> FALSE]
  /\ rpid = [n \in Pairs |-> "none"] /\ spid = [n \in Pairs |-> "none"]
  /\ sshutdown = [n \in Pairs |-> 0] /\ rshutdown = [n \in Pairs |-> 0]
  /\ ssamples = [n \in Pairs |-> 0] /\ rsamples = [n \in Pairs |-> 0]
  /\ sent = [n \in Pairs |-> 0]
  /\ i = 0 /\ mustshutdown = 0

-----------------------------------------------------------------------------
(* semathread.  Threads end with main, processes do not; nobody is followed once a   *)
(* child has gone astray.                                                            *)

Alive == mpc # "astray" /\ (mpc \notin Returned \cup {"killed"} \/ mustfork)

Sender(n, from, to) ==
  Alive /\ spc[n] = from /\ spc' = [spc EXCEPT ![n] = to]

Receiver(n, from, to) ==
  Alive /\ rpc[n] = from /\ rpc' = [rpc EXCEPT ![n] = to]

\* The child writes its pid and executes sigwaittest -fs or -fr, which returns at
\* once when main has unlinked the shared memory.
SenderExec(n) ==
  /\ Sender(n, "forked", IF mpc = "exit" THEN "stopped" ELSE "top")
  /\ spid' = [spid EXCEPT ![n] = "sender"]
  /\ UNCHANGED <<envVars, rpc, mpc, signalVars, rpid, flagVars, sampleVars, mainVars>>

ReceiverExec(n) ==
  /\ Receiver(n, "forked", IF mpc = "exit" THEN "stopped" ELSE "top")
  /\ rpid' = [rpid EXCEPT ![n] = "receiver"]
  /\ UNCHANGED <<envVars, spc, mpc, signalVars, spid, flagVars, sampleVars, mainVars>>

\* execvp() fails, and the child goes on in main's code: a second main on the same
\* shared memory, which the model does not follow.
ExecFails(n) ==
  /\ Alive /\ "forked" \in {spc[n], rpc[n]}
  /\ mpc' = "astray"
  /\ UNCHANGED <<envVars, spc, rpc, signalVars, pidVars, flagVars, sampleVars, mainVars>>

\* The sender blocks SIGUSR1 here, before anybody can send it.
SenderTop(n) ==
  /\ Sender(n, "top", IF sshutdown[n] = 1 THEN "stopped" ELSE "stamp")
  /\ UNCHANGED <<envVars, rpc, mpc, signalVars, pidVars, flagVars, sampleVars, mainVars>>

\* gettimeofday(&par->unblocked)
Stamp(n) ==
  /\ Sender(n, "stamp", "kill")
  /\ sent' = [sent EXCEPT ![n] = @ + 1]
  /\ UNCHANGED <<envVars, rpc, mpc, signalVars, pidVars, flagVars, ssamples, rsamples, mainVars>>

\* SIGUSR2 stays pending at a receiver that blocks it (one that has ended ignores
\* it).
SendUsr2(n) ==
  /\ rpc[n] \in Ended \/ blocked[n]
  /\ Sender(n, "kill", "count")
  /\ usr2' = [usr2 EXCEPT ![n] = 1]
  /\ UNCHANGED <<envVars, rpc, mpc, usr1, blocked, pidVars, flagVars, sampleVars, mainVars>>

\* SIGUSR2 kills the process of a receiver that does not block it yet: of all
\* threads, or of the receiver alone.  A pid that is not written yet is 0, and
\* kill(0, SIGUSR2) reaches main, the senders and every receiver.
SendUsr2Unblocked(n) ==
  /\ rpc[n] \notin Ended /\ ~blocked[n]
  /\ Alive /\ spc[n] = "kill"
  /\ IF mustfork /\ rpid[n] = "receiver"
     THEN /\ spc' = [spc EXCEPT ![n] = "count"]
          /\ rpc' = [rpc EXCEPT ![n] = "killed"]
          /\ UNCHANGED <<mpc, usr2>>
     ELSE /\ mpc' = IF mpc \in Returned THEN mpc ELSE "killed"
          /\ spc' = [m \in Pairs |-> IF spc[m] \in Ended THEN spc[m] ELSE "killed"]
          /\ rpc' = [m \in Pairs |-> IF rpc[m] \in Ended \/ (mustfork /\ blocked[m])
                                    THEN rpc[m] ELSE "killed"]
          /\ usr2' = [m \in Pairs |-> IF mustfork /\ blocked[m] THEN 1 ELSE usr2[m]]
  /\ UNCHANGED <<envVars, usr1, blocked, pidVars, flagVars, sampleVars, mainVars>>

\* Mutant: sigwait() is left out.
Count_NoWait(n) ==
  /\ Sender(n, "count", "top")
  /\ ssamples' = [ssamples EXCEPT ![n] = @ + 1]
  /\ sshutdown' = [sshutdown EXCEPT ![n] = IF ssamples'[n] >= MaxCycles THEN 1 ELSE @]
  /\ UNCHANGED <<envVars, rpc, mpc, signalVars, pidVars, rshutdown, rsamples, sent, mainVars>>

Count(n) ==
  /\ Sender(n, "count", "wait")
  /\ ssamples' = [ssamples EXCEPT ![n] = @ + 1]
  /\ sshutdown' = [sshutdown EXCEPT ![n] = IF ssamples'[n] >= MaxCycles THEN 1 ELSE @]
  /\ UNCHANGED <<envVars, rpc, mpc, signalVars, pidVars, rshutdown, rsamples, sent, mainVars>>

WaitUsr1(n) ==
  /\ usr1[n] = 1
  /\ Sender(n, "wait", "top")
  /\ usr1' = [usr1 EXCEPT ![n] = 0]
  /\ UNCHANGED <<envVars, rpc, mpc, usr2, blocked, pidVars, flagVars, sampleVars, mainVars>>

\* pthread_sigmask(SIG_SETMASK, {SIGUSR2}) in every iteration
ReceiverTop(n) ==
  /\ Receiver(n, "top", IF rshutdown[n] = 1 THEN "stopped" ELSE "wait")
  /\ blocked' = [blocked EXCEPT ![n] = @ \/ rshutdown[n] = 0]
  /\ UNCHANGED <<envVars, spc, mpc, usr1, usr2, pidVars, flagVars, sampleVars, mainVars>>

WaitUsr2(n) ==
  /\ usr2[n] = 1
  /\ Receiver(n, "wait", "measure")
  /\ usr2' = [usr2 EXCEPT ![n] = 0]
  /\ UNCHANGED <<envVars, spc, mpc, usr1, blocked, pidVars, flagVars, sampleVars, mainVars>>

\* samples++, the loops, the latency since the neighbor's stamp, the break trace
Measure(n) ==
  /\ Receiver(n, "measure", "reply")
  /\ rsamples' = [rsamples EXCEPT ![n] = @ + 1]
  /\ \E over \in IF Breaktrace THEN {0, 1} ELSE {0} :
       /\ rshutdown' = [rshutdown EXCEPT ![n] =
                           IF over = 1 \/ rsamples'[n] >= MaxCycles THEN 1 ELSE @]
       /\ sshutdown' = [sshutdown EXCEPT ![n] = IF over = 1 THEN 1 ELSE @]
  /\ UNCHANGED <<envVars, spc, mpc, signalVars, pidVars, ssamples, sent, mainVars>>

\* Mutant: the sender is not woken.
SendUsr1_Forgets(n) ==
  /\ Receiver(n, "reply", "top")
  /\ UNCHANGED <<envVars, spc, mpc, signalVars, pidVars, flagVars, sampleVars, mainVars>>

\* After its sleep the receiver sends SIGUSR1, which the sender blocks.
SendUsr1(n) ==
  /\ Receiver(n, "reply", "top")
  /\ usr1' = [usr1 EXCEPT ![n] = 1]
  /\ UNCHANGED <<envVars, spc, mpc, usr2, blocked, pidVars, flagVars, sampleVars, mainVars>>

SenderStep(n) ==
  \/ SenderExec(n) \/ SenderTop(n) \/ Stamp(n) \/ SendUsr2(n)
  \/ SendUsr2Unblocked(n) \/ Count(n) \/ WaitUsr1(n)
ReceiverStep(n) ==
  \/ ReceiverExec(n) \/ ReceiverTop(n) \/ WaitUsr2(n) \/ Measure(n) \/ SendUsr1(n)

-----------------------------------------------------------------------------
(* main *)

Main(from, to) == mpc = from /\ mpc' = to

\* When fork() fails, main returns 1: it signals nobody, and leaves the shared memory.
CreateReceiver ==
  /\ \/ /\ Main("receiver", "sender")
        /\ rpc' = [rpc EXCEPT ![i] = IF mustfork THEN "forked" ELSE "top"]
     \/ /\ mustfork /\ Main("receiver", "failed")
        /\ UNCHANGED rpc
  /\ UNCHANGED <<envVars, spc, signalVars, pidVars, flagVars, sampleVars, mainVars>>

\* nanosleep(&launchdelay), then memcpy(&sender[i], &receiver[i]), the pid included,
\* and the sender, unless fork() fails
CreateSender ==
  /\ spid' = [spid EXCEPT ![i] = rpid[i]]
  /\ ssamples' = [ssamples EXCEPT ![i] = rsamples[i]]
  /\ sshutdown' = [sshutdown EXCEPT ![i] = rshutdown[i]]
  /\ \/ /\ Main("sender", IF i + 1 < NThreads THEN "receiver" ELSE "loop")
        /\ spc' = [spc EXCEPT ![i] = IF mustfork THEN "forked" ELSE "top"]
        /\ late' = (late \/ ~blocked[i])
        /\ i' = IF i + 1 < NThreads THEN i + 1 ELSE 0
     \/ /\ mustfork /\ Main("sender", "failed")
        /\ UNCHANGED <<spc, late, i>>
  /\ UNCHANGED <<mustfork, rpc, signalVars, rpid, rshutdown, rsamples, sent, mustshutdown>>

\* mustshutdown |= receiver[i].shutdown | sender[i].shutdown; the report
Report ==
  /\ mustshutdown = 0
  /\ Main("loop", "loop")
  /\ \E n \in Pairs : sshutdown[n] = 1 \/ rshutdown[n] = 1
  /\ mustshutdown' = 1
  /\ UNCHANGED <<envVars, spc, rpc, signalVars, pidVars, flagVars, sampleVars, i>>

StopPairs ==
  /\ mustshutdown = 1
  /\ Main("loop", "terminate")
  /\ sshutdown' = [n \in Pairs |-> 1] /\ rshutdown' = [n \in Pairs |-> 1]
  /\ UNCHANGED <<envVars, spc, rpc, signalVars, pidVars, sampleVars, mainVars>>

\* SIGTERM to everybody who has not stopped, and main returns.  A thread handles
\* SIGTERM and goes on waiting; a process dies of it.  A sender's pid is that of
\* its receiver until its process has written it, and one that is 0 stands for the
\* whole group.  Main and a child before its execvp have a handler for SIGTERM.
Terminate ==
  LET group == \E n \in Pairs : \/ rpc[n] # "stopped" /\ rpid[n] = "none"
                                \/ spc[n] # "stopped" /\ spid[n] = "none"
      hitReceiver(n) == \/ group
                        \/ rpc[n] # "stopped" /\ rpid[n] = "receiver"
                        \/ spc[n] # "stopped" /\ spid[n] = "receiver"
      hitSender(n)   == group \/ spid[n] = "sender"
      hit(pc, is) == IF mustfork /\ is /\ pc \notin {"forked", "stopped"}
                     THEN "killed" ELSE pc
  IN /\ Main("terminate", "exit")
     /\ spc' = [n \in Pairs |-> hit(spc[n], hitSender(n))]
     /\ rpc' = [n \in Pairs |-> hit(rpc[n], hitReceiver(n))]
     /\ UNCHANGED <<envVars, signalVars, pidVars, flagVars, sampleVars, mainVars>>

MainStep == CreateReceiver \/ CreateSender \/ Report \/ StopPairs \/ Terminate

\* sighand, in main or in any thread
Sighand ==
  /\ mpc \notin Returned \cup {"killed", "astray"} /\ mustshutdown = 0
  /\ mustshutdown' = 1
  /\ UNCHANGED <<envVars, spc, rpc, mpc, signalVars, pidVars, flagVars, sampleVars, i>>

Terminated == mpc \in Returned \cup {"killed", "astray"} /\ UNCHANGED vars

Next ==
  \/ \E n \in Pairs : SenderStep(n) \/ ReceiverStep(n) \/ ExecFails(n)
  \/ MainStep \/ Sighand
  \/ Terminated

\* Threads and processes have real-time priorities and mostly sleep: each gets a
\* CPU in the end.  Signals from outside and failures are never owed.
Fairness ==
  /\ \A n \in Pairs : WF_vars(SenderStep(n)) /\ WF_vars(ReceiverStep(n))
  /\ WF_vars(MainStep)

Spec     == Init /\ [][Next]_vars
FairSpec == Spec /\ Fairness

-----------------------------------------------------------------------------
(* Properties *)

Abstract == INSTANCE PingPong WITH
              got <- rsamples,
              open <- [n \in Pairs |-> IF mpc \in Reporting THEN 1 ELSE 0]

\* "measure the latency between sending and receiving a signal" (sigwaittest.8):
\* while main reports, every latency is that of one signal, although signals that
\* are pending twice are one.
EveryLatencyItsEvent == Abstract!Spec

\* Main returns before it has forked the sender of this receiver.
Orphan(n) == mpc = "failed" /\ n = i /\ spc[n] = "unborn"

\* "sigwaittest is stopped once the number of timer intervals has been reached":
\* main returns, whatever the pairs still wait for, unless a receiver was not ready
\* for its first signal after launchdelay or a child has gone astray.  Then no
\* process stays behind: every sender and receiver main forked ends, also one that
\* waits for a signal nobody will send and one whose pid main did not know.  When a
\* fork() has failed, the pairs end by themselves, unless a receiver was late, and
\* the receiver whose sender is missing may wait for ever.
LoopsEnd ==
  /\ <>(mpc \in Returned \cup {"astray"} \/ late)
  /\ [](/\ mpc \in Returned /\ mustfork
        /\ mpc = "failed" => ~late
        => <>(\/ mpc = "astray"
              \/ \A n \in Pairs : \/ {spc[n], rpc[n]} \subseteq Ended \cup {"unborn"}
                                  \/ Orphan(n)))
=============================================================================

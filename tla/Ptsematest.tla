----------------------------- MODULE Ptsematest -----------------------------
(***************************************************************************)
(* ptsematest (src/src/ptsematest/ptsematest.c): pairs of threads that use *)
(* two pthread mutexes as binary semaphores.  The receiver waits for       *)
(* testmutex, which the sender releases; the sender waits for syncmutex,   *)
(* which the receiver releases.  At the end main releases both, although   *)
(* it owns neither, so that nobody stays blocked.                          *)
(*                                                                         *)
(* "first" is 1 for ever, so that the receiver never takes syncmutex.  The *)
(* SIGTERM main sends to a thread that has not stopped runs sighand, which *)
(* sets a flag that is set already; it is left out.                        *)
(***************************************************************************)
EXTENDS Naturals, FiniteSets

CONSTANTS
  NThreads,    \* num_threads, -t
  MaxCycles,   \* max_cycles, -l (0, endless, is left out)
  Breaktrace   \* TRUE iff -b was given

ASSUME ConstantsAssumption ==
  /\ NThreads \in Nat \ {0}
  /\ MaxCycles \in Nat \ {0}
  /\ Breaktrace \in BOOLEAN

Pairs == 0 .. (NThreads - 1)

VARIABLES
  spc, rpc, mpc,           \* where the senders, the receivers and main are
  testmutex, syncmutex,    \* 1 = locked
  sshutdown, rshutdown,    \* sender[n].shutdown, receiver[n].shutdown
  ssamples, rsamples,      \* sender[n].samples, receiver[n].samples
  unblocked,               \* the number of the last stamp of sender n
  i, shutdown              \* main's loop index and its flag

mutexVars  == <<testmutex, syncmutex>>
flagVars   == <<sshutdown, rshutdown>>
sampleVars == <<ssamples, rsamples, unblocked>>
vars == <<spc, rpc, mpc, testmutex, syncmutex, sshutdown, rshutdown, ssamples,
          rsamples, unblocked, i, shutdown>>

Reporting    == {"receiver", "sender", "loop"}

Init ==
  /\ spc = [n \in Pairs |-> "unborn"] /\ rpc = [n \in Pairs |-> "unborn"]
  /\ mpc = "receiver"
  /\ testmutex = [n \in Pairs |-> 0] /\ syncmutex = [n \in Pairs |-> 0]
  /\ sshutdown = [n \in Pairs |-> 0] /\ rshutdown = [n \in Pairs |-> 0]
  /\ ssamples = [n \in Pairs |-> 0] /\ rsamples = [n \in Pairs |-> 0]
  /\ unblocked = [n \in Pairs |-> 0]
  /\ i = 0 /\ shutdown = 0

-----------------------------------------------------------------------------
(* semathread *)

Sender(n, from, to) ==
  mpc # "exit" /\ spc[n] = from /\ spc' = [spc EXCEPT ![n] = to]

Receiver(n, from, to) ==
  mpc # "exit" /\ rpc[n] = from /\ rpc' = [rpc EXCEPT ![n] = to]

SenderTop(n) ==
  /\ Sender(n, "top", IF sshutdown[n] = 1 THEN "stopped" ELSE "lock")
  /\ UNCHANGED <<rpc, mpc, mutexVars, flagVars, sampleVars, i, shutdown>>

\* Mutant: the sender does not wait for syncmutex.
SenderLock_Open(n) ==
  /\ Sender(n, "lock", "stamp")
  /\ UNCHANGED <<rpc, mpc, mutexVars, flagVars, sampleVars, i, shutdown>>

SenderLock(n) ==
  /\ syncmutex[n] = 0
  /\ Sender(n, "lock", "stamp")
  /\ syncmutex' = [syncmutex EXCEPT ![n] = 1]
  /\ UNCHANGED <<rpc, mpc, testmutex, flagVars, sampleVars, i, shutdown>>

\* gettimeofday(&par->unblocked)
Stamp(n) ==
  /\ Sender(n, "stamp", "unlock")
  /\ unblocked' = [unblocked EXCEPT ![n] = @ + 1]
  /\ UNCHANGED <<rpc, mpc, mutexVars, flagVars, ssamples, rsamples, i, shutdown>>

SenderUnlock(n) ==
  /\ Sender(n, "unlock", "count")
  /\ testmutex' = [testmutex EXCEPT ![n] = 0]
  /\ UNCHANGED <<rpc, mpc, syncmutex, flagVars, sampleVars, i, shutdown>>

SenderCount(n) ==
  /\ Sender(n, "count", "top")
  /\ ssamples' = [ssamples EXCEPT ![n] = @ + 1]
  /\ sshutdown' = [sshutdown EXCEPT ![n] = IF ssamples'[n] >= MaxCycles THEN 1 ELSE @]
  /\ UNCHANGED <<rpc, mpc, mutexVars, rshutdown, rsamples, unblocked, i, shutdown>>

ReceiverTop(n) ==
  /\ Receiver(n, "top", IF rshutdown[n] = 1 THEN "stopped" ELSE "lock")
  /\ UNCHANGED <<spc, mpc, mutexVars, flagVars, sampleVars, i, shutdown>>

ReceiverLock(n) ==
  /\ testmutex[n] = 0
  /\ Receiver(n, "lock", "measure")
  /\ testmutex' = [testmutex EXCEPT ![n] = 1]
  /\ UNCHANGED <<spc, mpc, syncmutex, flagVars, sampleVars, i, shutdown>>

\* samples++, the latency since the neighbor's stamp, the extremes; a latency
\* above the limit stops the tracer and the pair, the last sample the receiver.
Measure(n) ==
  /\ Receiver(n, "measure", "unlock")
  /\ rsamples' = [rsamples EXCEPT ![n] = @ + 1]
  /\ \E over \in IF Breaktrace THEN {0, 1} ELSE {0} :
       /\ rshutdown' = [rshutdown EXCEPT ![n] =
                           IF over = 1 \/ rsamples'[n] >= MaxCycles THEN 1 ELSE @]
       /\ sshutdown' = [sshutdown EXCEPT ![n] = IF over = 1 THEN 1 ELSE @]
  /\ UNCHANGED <<spc, mpc, mutexVars, ssamples, unblocked, i, shutdown>>

\* Mutant: syncmutex is not released.
ReceiverUnlock_Keeps(n) ==
  /\ Receiver(n, "unlock", "top")
  /\ UNCHANGED <<spc, mpc, mutexVars, flagVars, sampleVars, i, shutdown>>

\* nanosleep, then the sender may go on.
ReceiverUnlock(n) ==
  /\ Receiver(n, "unlock", "top")
  /\ syncmutex' = [syncmutex EXCEPT ![n] = 0]
  /\ UNCHANGED <<spc, mpc, testmutex, flagVars, sampleVars, i, shutdown>>

SenderStep(n) ==
  \/ SenderTop(n) \/ SenderLock(n) \/ Stamp(n) \/ SenderUnlock(n) \/ SenderCount(n)
ReceiverStep(n) ==
  ReceiverTop(n) \/ ReceiverLock(n) \/ Measure(n) \/ ReceiverUnlock(n)

-----------------------------------------------------------------------------
(* main *)

Main(from, to) == mpc = from /\ mpc' = to

\* The mutexes of pair i, testmutex locked, and its receiver.
CreateReceiver ==
  /\ Main("receiver", "sender")
  /\ testmutex' = [testmutex EXCEPT ![i] = 1]
  /\ rpc' = [rpc EXCEPT ![i] = "top"]
  /\ UNCHANGED <<spc, syncmutex, flagVars, sampleVars, i, shutdown>>

\* memcpy(&sender[i], &receiver[i]): the receiver runs already.
CreateSender ==
  /\ Main("sender", IF i + 1 < NThreads THEN "receiver" ELSE "loop")
  /\ spc' = [spc EXCEPT ![i] = "top"]
  /\ ssamples' = [ssamples EXCEPT ![i] = rsamples[i]]
  /\ sshutdown' = [sshutdown EXCEPT ![i] = rshutdown[i]]
  /\ i' = IF i + 1 < NThreads THEN i + 1 ELSE 0
  /\ UNCHANGED <<rpc, mutexVars, rshutdown, rsamples, unblocked, shutdown>>

\* shutdown |= receiver[i].shutdown | sender[i].shutdown, the report, the sleep.
Report ==
  /\ shutdown = 0
  /\ Main("loop", "loop")
  /\ \E n \in Pairs : sshutdown[n] = 1 \/ rshutdown[n] = 1
  /\ shutdown' = 1
  /\ UNCHANGED <<spc, rpc, mutexVars, flagVars, sampleVars, i>>

LeaveLoop ==
  /\ shutdown = 1
  /\ Main("loop", "flags")
  /\ UNCHANGED <<spc, rpc, mutexVars, flagVars, sampleVars, i, shutdown>>

\* Mutant: the flags of the threads are not set.
StopPair_NoFlags ==
  /\ Main("flags", "utest")
  /\ UNCHANGED <<spc, rpc, mutexVars, flagVars, sampleVars, i, shutdown>>

StopPair ==
  /\ Main("flags", "utest")
  /\ sshutdown' = [sshutdown EXCEPT ![i] = 1]
  /\ rshutdown' = [rshutdown EXCEPT ![i] = 1]
  /\ UNCHANGED <<spc, rpc, mutexVars, sampleVars, i, shutdown>>

ReleaseTest ==
  /\ Main("utest", "usync")
  /\ testmutex' = [testmutex EXCEPT ![i] = 0]
  /\ UNCHANGED <<spc, rpc, syncmutex, flagVars, sampleVars, i, shutdown>>

ReleaseSync ==
  /\ Main("usync", IF i + 1 < NThreads THEN "flags" ELSE "delay")
  /\ syncmutex' = [syncmutex EXCEPT ![i] = 0]
  /\ i' = IF i + 1 < NThreads THEN i + 1 ELSE 0
  /\ UNCHANGED <<spc, rpc, testmutex, flagVars, sampleVars, shutdown>>

\* nanosleep, the SIGTERMs, the destruction of the mutexes, return 0.
Finish ==
  /\ \/ Main("delay", "destroy")
     \/ Main("destroy", "exit")
  /\ UNCHANGED <<spc, rpc, mutexVars, flagVars, sampleVars, i, shutdown>>

MainStep ==
  \/ CreateReceiver \/ CreateSender \/ Report \/ LeaveLoop \/ StopPair
  \/ ReleaseTest \/ ReleaseSync \/ Finish

\* sighand; SIGINT and SIGTERM are blocked only during main's sleep.
Sigint ==
  /\ mpc # "exit" /\ shutdown = 0
  /\ shutdown' = 1
  /\ UNCHANGED <<spc, rpc, mpc, mutexVars, flagVars, sampleVars, i>>

Terminated == mpc = "exit" /\ UNCHANGED vars

Next ==
  \/ \E n \in Pairs : SenderStep(n) \/ ReceiverStep(n)
  \/ MainStep \/ Sigint
  \/ Terminated

Fairness ==
  /\ \A n \in Pairs : WF_vars(SenderStep(n)) /\ WF_vars(ReceiverStep(n))
  /\ WF_vars(MainStep)

Spec     == Init /\ [][Next]_vars
FairSpec == Spec /\ Fairness

-----------------------------------------------------------------------------
(* Properties *)

Abstract == INSTANCE PingPong WITH
              sent <- unblocked, got <- rsamples,
              open <- [n \in Pairs |-> IF mpc \in Reporting THEN 1 ELSE 0]

\* Two mutexes, unlocked by the thread that did not lock them, make a strict
\* ping-pong: while main reports, every latency is that of one stamp.
EveryLatencyItsEvent == Abstract!Spec

\* Once main has released both mutexes of a pair, neither thread is, or ever
\* gets, blocked on them again, wherever the pair was when it was stopped.
Released(n) == \/ mpc \in {"delay", "destroy", "exit"}
               \/ mpc \in {"flags", "utest", "usync"} /\ n < i
NobodyStuck ==
  \A n \in Pairs : Released(n) =>
    /\ spc[n] = "lock" => syncmutex[n] = 0
    /\ rpc[n] = "lock" => testmutex[n] = 0

\* "ptsematest is stopped once the number of timer intervals has been reached":
\* the pairs make progress until one of them has done its loops.
LoopsEnd == <>(mpc = "exit")
=============================================================================

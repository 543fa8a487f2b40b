----------------------------- MODULE Svsematest -----------------------------
(***************************************************************************)
(* svsematest (src/src/svsematest/svsematest.c): pairs of threads that use *)
(* two System V semaphores, R = SEM_WAIT_FOR_RECEIVER and                  *)
(* S = SEM_WAIT_FOR_SENDER.  The sender releases S, waits for R and then   *)
(* for S; the receiver waits for S, measures, releases R, sleeps and       *)
(* releases S.  Both sides take S, and both release it.                    *)
(*                                                                         *)
(* semop is the kernel's: a decrement that cannot be done puts the thread  *)
(* into the semaphore's queue, and an increment serves the queue first.    *)
(***************************************************************************)
EXTENDS Naturals, Sequences

CONSTANTS
  NThreads,    \* num_threads, -t
  MaxCycles,   \* max_cycles, -l (0, endless, is left out)
  Breaktrace,  \* TRUE iff -b was given
  Exposed      \* the pairs whose threads the kernel may give a signal from outside
               \* (a bound for the runs: in the code, all)

ASSUME ConstantsAssumption ==
  /\ NThreads \in Nat \ {0}
  /\ MaxCycles \in Nat \ {0}
  /\ Breaktrace \in BOOLEAN
  /\ Exposed \subseteq 0 .. (NThreads - 1)

Pairs == 0 .. (NThreads - 1)
Sides == {"sender", "receiver"}

VARIABLES
  pc, mpc,     \* pc[n][side], and main
  R, S,        \* the values of the semaphores of pair n
  queue,       \* queue[n]: the sides that sleep in a decrement of S, in order
  flag,        \* flag[n][side]: the thread's shutdown
  samples,     \* samples[n][side]
  unblocked,   \* the number of the last stamp of sender n
  sigterm,     \* sigterm[n][side]: a SIGTERM main sent is not delivered yet
  trust,       \* history: what main can rely on in its reports of pair n
  i, mustshutdown

semVars  == <<R, S, queue>>
dataVars == <<flag, samples, unblocked, sigterm, trust>>
vars == <<pc, mpc, R, S, queue, flag, samples, unblocked, sigterm, trust, i,
          mustshutdown>>

\* Every latency is that of one release; only the stamps are whole, because the
\* sender was late; or nothing, because a signal from outside has ended a semop of
\* the pair or main has left its loop.
Trust == {"latency", "stamp", "none"}

Init ==
  /\ pc = [n \in Pairs |-> [s \in Sides |-> "unborn"]] /\ mpc = "receiver"
  /\ R = [n \in Pairs |-> 0] /\ S = [n \in Pairs |-> 0]
  /\ queue = [n \in Pairs |-> <<>>]
  /\ flag = [n \in Pairs |-> [s \in Sides |-> 0]]
  /\ samples = [n \in Pairs |-> [s \in Sides |-> 0]]
  /\ unblocked = [n \in Pairs |-> 0]
  /\ sigterm = [n \in Pairs |-> [s \in Sides |-> 0]]
  /\ trust = [n \in Pairs |-> "latency"]
  /\ i = 0 /\ mustshutdown = 0

-----------------------------------------------------------------------------
(* semop, and where a side goes when its decrement of S is done *)

AfterGetS == [sender |-> "top", receiver |-> "measure"]

Go(n, s, from, to) ==
  mpc # "exit" /\ pc[n][s] = from /\ pc' = [pc EXCEPT ![n][s] = to]

\* SEM_LOCK of S
GetS(n, s) ==
  /\ Go(n, s, "getS", IF S[n] > 0 THEN AfterGetS[s] ELSE "waitS")
  /\ S' = [S EXCEPT ![n] = IF @ > 0 THEN @ - 1 ELSE 0]
  /\ queue' = [queue EXCEPT ![n] = IF S[n] > 0 THEN @ ELSE Append(@, s)]
  /\ UNCHANGED <<mpc, R, dataVars, i, mustshutdown>>

\* SEM_UNLOCK of S by side s, which goes on to "to"
PostS(n, s, from, to) ==
  /\ mpc # "exit" /\ pc[n][s] = from
  /\ \/ /\ queue[n] = <<>>
        /\ S' = [S EXCEPT ![n] = @ + 1]
        /\ pc' = [pc EXCEPT ![n][s] = to]
        /\ UNCHANGED queue
     \/ /\ queue[n] # <<>>
        /\ pc' = [pc EXCEPT ![n] = [@ EXCEPT ![s] = to,
                                             ![Head(queue[n])] = AfterGetS[Head(queue[n])]]]
        /\ queue' = [queue EXCEPT ![n] = Tail(@)]
        /\ UNCHANGED S
  /\ UNCHANGED <<mpc, R, dataVars, i, mustshutdown>>

\* Mutant: the sender goes on without S.
GetR_SkipsS(n) ==
  /\ Go(n, "sender", "getR", IF R[n] > 0 THEN "top" ELSE "waitR")
  /\ R' = [R EXCEPT ![n] = IF @ > 0 THEN @ - 1 ELSE 0]
  /\ UNCHANGED <<mpc, S, queue, dataVars, i, mustshutdown>>

\* SEM_LOCK of R: only the sender waits for it.
GetR(n) ==
  /\ Go(n, "sender", "getR", IF R[n] > 0 THEN "getS" ELSE "waitR")
  /\ R' = [R EXCEPT ![n] = IF @ > 0 THEN @ - 1 ELSE 0]
  /\ UNCHANGED <<mpc, S, queue, dataVars, i, mustshutdown>>

\* SEM_UNLOCK of R by side s
PostR(n, s, from, to) ==
  /\ mpc # "exit" /\ pc[n][s] = from
  /\ \/ /\ pc[n]["sender"] = "waitR"
        /\ pc' = [pc EXCEPT ![n] = [@ EXCEPT ![s] = to, !["sender"] = "getS"]]
        /\ UNCHANGED R
     \/ /\ pc[n]["sender"] # "waitR"
        /\ R' = [R EXCEPT ![n] = @ + 1]
        /\ pc' = [pc EXCEPT ![n][s] = to]
  /\ UNCHANGED <<mpc, S, queue, dataVars, i, mustshutdown>>

-----------------------------------------------------------------------------
(* semathread *)

\* Mutant: the receiver does not wait for S.
Top_NoWait(n, s) ==
  /\ Go(n, s, "top", IF flag[n][s] = 0 THEN (IF s = "sender" THEN "stamp" ELSE "measure")
                     ELSE IF s = "sender" THEN "lastS" ELSE "stopped")
  /\ UNCHANGED <<mpc, semVars, dataVars, i, mustshutdown>>

\* while (!par->shutdown); a sender that leaves releases both semaphores.
Top(n, s) ==
  /\ Go(n, s, "top", IF flag[n][s] = 0 THEN (IF s = "sender" THEN "stamp" ELSE "getS")
                     ELSE IF s = "sender" THEN "lastS" ELSE "stopped")
  /\ UNCHANGED <<mpc, semVars, dataVars, i, mustshutdown>>

Stamp(n) ==
  /\ Go(n, "sender", "stamp", "postS")
  /\ unblocked' = [unblocked EXCEPT ![n] = @ + 1]
  /\ UNCHANGED <<mpc, semVars, flag, samples, sigterm, trust, i, mustshutdown>>

Count(n) ==
  /\ Go(n, "sender", "count", "getR")
  /\ samples' = [samples EXCEPT ![n]["sender"] = @ + 1]
  /\ flag' = [flag EXCEPT ![n]["sender"] = IF samples'[n]["sender"] >= MaxCycles THEN 1 ELSE @]
  /\ UNCHANGED <<mpc, semVars, unblocked, sigterm, trust, i, mustshutdown>>

\* samples++, the latency since the neighbor's stamp, the break trace.
Measure(n) ==
  /\ Go(n, "receiver", "measure", "postR")
  /\ samples' = [samples EXCEPT ![n]["receiver"] = @ + 1]
  /\ \E over \in IF Breaktrace THEN {0, 1} ELSE {0} :
       flag' = [flag EXCEPT ![n] =
                 [sender   |-> IF over = 1 THEN 1 ELSE @["sender"],
                  receiver |-> IF over = 1 \/ samples'[n]["receiver"] >= MaxCycles THEN 1
                               ELSE @["receiver"]]]
  /\ UNCHANGED <<mpc, semVars, unblocked, sigterm, trust, i, mustshutdown>>

\* nanosleep(&par->delay): the sender is in its second semop by then, unless it
\* is kept from the CPU, or a signal cuts the sleep short.
Sleep(n) ==
  /\ Go(n, "receiver", "sleep", "postS")
  /\ trust' = [trust EXCEPT ![n] =
       IF @ = "latency" /\ pc[n]["sender"] \notin {"waitS", "unborn", "stopped"}
       THEN "stamp" ELSE @]
  /\ UNCHANGED <<mpc, semVars, flag, samples, unblocked, sigterm, i, mustshutdown>>

SenderStep(n) ==
  \/ Top(n, "sender") \/ Stamp(n)
  \/ PostS(n, "sender", "postS", "count") \/ Count(n)
  \/ GetR(n) \/ GetS(n, "sender")
  \/ PostS(n, "sender", "lastS", "lastR") \/ PostR(n, "sender", "lastR", "stopped")

\* Mutant: the receiver does not release S.
ReceiverStep_KeepsS(n) ==
  \/ Top(n, "receiver") \/ GetS(n, "receiver") \/ Measure(n)
  \/ PostR(n, "receiver", "postR", "sleep") \/ Sleep(n)
  \/ /\ Go(n, "receiver", "postS", "top")
     /\ UNCHANGED <<mpc, semVars, dataVars, i, mustshutdown>>

ReceiverStep(n) ==
  \/ Top(n, "receiver") \/ GetS(n, "receiver") \/ Measure(n)
  \/ PostR(n, "receiver", "postR", "sleep") \/ Sleep(n)
  \/ PostS(n, "receiver", "postS", "top")

\* sighand in side s of pair n; a semop that sleeps returns EINTR, which nobody
\* looks at.
HandleSignal(n, s) ==
  /\ pc' = [pc EXCEPT ![n][s] = IF @ = "waitS" THEN AfterGetS[s]
                                ELSE IF @ = "waitR" THEN "getS" ELSE @]
  /\ queue' = [queue EXCEPT ![n] =
       IF pc[n][s] = "waitS" THEN SelectSeq(@, LAMBDA t : t # s) ELSE @]
  /\ mustshutdown' = 1
  /\ UNCHANGED <<mpc, R, S, flag, samples, unblocked, i>>

\* SIGTERM from main
Interrupt(n, s) ==
  /\ mpc # "exit" /\ sigterm[n][s] = 1
  /\ sigterm' = [sigterm EXCEPT ![n][s] = 0]
  /\ HandleSignal(n, s)
  /\ UNCHANGED trust

\* SIGINT or SIGTERM from outside while main blocks both to sleep: the kernel
\* gives it to a thread that does not.
OutsideSignal(n, s) ==
  /\ n \in Exposed /\ mpc = "loop" /\ pc[n][s] # "stopped"
  /\ HandleSignal(n, s)
  /\ trust' = [trust EXCEPT ![n] = IF pc[n][s] \in {"waitS", "waitR"} THEN "none" ELSE @]
  /\ UNCHANGED sigterm

-----------------------------------------------------------------------------
(* main *)

Main(from, to) == mpc = from /\ mpc' = to

\* The two semaphores of pair i are set to 1 and taken; then its receiver.
CreateReceiver ==
  /\ Main("receiver", "sender")
  /\ pc' = [pc EXCEPT ![i]["receiver"] = "top"]
  /\ UNCHANGED <<semVars, dataVars, i, mustshutdown>>

\* After the launch delay: memcpy(&sender[i], &receiver[i]) and the sender.
CreateSender ==
  /\ Main("sender", IF i + 1 < NThreads THEN "receiver" ELSE "loop")
  /\ pc' = [pc EXCEPT ![i]["sender"] = "top"]
  /\ samples' = [samples EXCEPT ![i]["sender"] = samples[i]["receiver"]]
  /\ flag' = [flag EXCEPT ![i]["sender"] = flag[i]["receiver"]]
  /\ i' = IF i + 1 < NThreads THEN i + 1 ELSE 0
  /\ UNCHANGED <<semVars, unblocked, sigterm, trust, mustshutdown>>

\* mustshutdown |= receiver[i].shutdown | sender[i].shutdown, report, sleep
Report ==
  /\ mustshutdown = 0
  /\ Main("loop", "loop")
  /\ \E n \in Pairs, s \in Sides : flag[n][s] = 1
  /\ mustshutdown' = 1
  /\ UNCHANGED <<pc, semVars, dataVars, i>>

LeaveLoop ==
  /\ mustshutdown = 1
  /\ Main("loop", "stop")
  /\ trust' = [n \in Pairs |-> "none"]
  /\ UNCHANGED <<pc, semVars, flag, samples, unblocked, sigterm, i, mustshutdown>>

\* All flags are set; main sleeps.
StopPairs ==
  /\ Main("stop", "kill")
  /\ flag' = [n \in Pairs |-> [s \in Sides |-> 1]]
  /\ UNCHANGED <<pc, semVars, samples, unblocked, sigterm, trust, i, mustshutdown>>

\* pthread_kill(SIGTERM) to the threads of pair i that have not stopped
KillPair ==
  /\ i + 1 < NThreads
  /\ Main("kill", "kill")
  /\ sigterm' = [sigterm EXCEPT ![i] =
                   [s \in Sides |-> IF pc[i][s] = "stopped" THEN 0 ELSE 1]]
  /\ i' = i + 1
  /\ UNCHANGED <<pc, semVars, flag, samples, unblocked, trust, mustshutdown>>

\* The same for the last pair; then the semaphores are removed, and main returns,
\* which ends the threads.
Exit ==
  /\ i + 1 = NThreads
  /\ Main("kill", "exit")
  /\ pc' = [n \in Pairs |-> [s \in Sides |-> "stopped"]]
  /\ R' = [n \in Pairs |-> 0] /\ S' = [n \in Pairs |-> 0]
  /\ queue' = [n \in Pairs |-> <<>>]
  /\ sigterm' = [n \in Pairs |-> [s \in Sides |-> 0]]
  /\ UNCHANGED <<flag, samples, unblocked, trust, i, mustshutdown>>

MainStep ==
  CreateReceiver \/ CreateSender \/ Report \/ LeaveLoop \/ StopPairs \/ KillPair \/ Exit

\* SIGINT or SIGTERM from outside while main does not block it
Sigint ==
  /\ mpc # "exit" /\ mustshutdown = 0
  /\ mustshutdown' = 1
  /\ UNCHANGED <<pc, mpc, semVars, dataVars, i>>

Terminated == mpc = "exit" /\ UNCHANGED vars

Next ==
  \/ \E n \in Pairs : SenderStep(n) \/ ReceiverStep(n)
  \/ \E n \in Pairs, s \in Sides : Interrupt(n, s) \/ OutsideSignal(n, s)
  \/ MainStep \/ Sigint
  \/ Terminated

\* Some thread that can go on does, and main does.
Fairness ==
  /\ WF_vars(\E n \in Pairs : SenderStep(n) \/ ReceiverStep(n))
  /\ WF_vars(MainStep)

Spec     == Init /\ [][Next]_vars
FairSpec == Spec /\ Fairness

-----------------------------------------------------------------------------
(* Properties *)

\* S is passed on, not shared: even when the receiver takes back the S it has
\* released, it never reads the stamp of a sender that is writing it.  A worker
\* whose semop a signal from outside has ended goes on without S.
NoTornStamp ==
  \A n \in Pairs :
    trust[n] # "none" => ~(pc[n]["sender"] = "stamp" /\ pc[n]["receiver"] = "measure")

Abstract == INSTANCE PingPong WITH
              sent <- unblocked,
              got  <- [n \in Pairs |-> samples[n]["receiver"]],
              open <- [n \in Pairs |-> IF trust[n] = "latency" THEN 1 ELSE 0]

\* "measures the latency between releasing a semaphore on one side and getting
\* it on the other side" (svsematest.8): one measurement per release, as long as
\* the sender has always been in time for its second semop and no signal from
\* outside has ended a semop of the pair.
EveryLatencyItsEvent == Abstract!Spec

\* "svsematest is stopped once the number of timer intervals has been reached":
\* the pairs cannot block each other for ever, whoever takes S or goes on without it.
LoopsEnd == <>(mpc = "exit")
=============================================================================

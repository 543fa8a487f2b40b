------------------------------- MODULE Pmqtest -------------------------------
(***************************************************************************)
(* pmqtest (src/src/pmqtest/pmqtest.c): pairs of threads and two POSIX     *)
(* message queues of one message each.  The sender sends a test message    *)
(* and waits for a sync message; the receiver waits for the test message,  *)
(* measures and sends the sync message.  With -T both wait with            *)
(* mq_timedreceive; with -f the sender delays its messages.                *)
(*                                                                         *)
(* The queues have names: they outlive a process that was killed, with the *)
(* message they hold.  A timeout is seconds long and everything else takes *)
(* microseconds, so that a receive times out only if the partner will not  *)
(* send by itself: it waits, has stopped, or is in its forced delay.       *)
(***************************************************************************)
EXTENDS Naturals

CONSTANTS
  NThreads,     \* num_threads, -t
  MaxCycles,    \* max_cycles, -l (0, endless, is left out)
  StalePairs,   \* bound: the pairs whose queues may hold an old message
  Styles        \* how the program may wait: "wait" (no option), "timed" (-T),
                \* "forced" (-T and -f)

ASSUME ConstantsAssumption ==
  /\ NThreads \in Nat \ {0}
  /\ MaxCycles \in Nat \ {0}
  /\ StalePairs \subseteq 0 .. (NThreads - 1)
  /\ Styles \subseteq {"wait", "timed", "forced"}

Pairs == 0 .. (NThreads - 1)

VARIABLES
  style, breaktrace,       \* the command line: one of Styles; TRUE iff -b was given
  stale,                   \* the pairs whose queues an earlier process has left
  timedout,                \* history: the pairs whose receiver has timed out
  spc, rpc, mpc,           \* where the senders, the receivers and main are
  testmq, syncmq,          \* the number of messages in the queues of pair n
  sshutdown, rshutdown,    \* sender[n].shutdown, receiver[n].shutdown
  ssamples, rsamples,      \* sender[n].samples, receiver[n].samples
  sent,                    \* the number of the last stamp of sender n
  i, shutdown, sigint      \* main's index and flag; a SIGINT was handled

queueVars  == <<testmq, syncmq>>
flagVars   == <<sshutdown, rshutdown>>
sampleVars == <<ssamples, rsamples, sent>>
mainVars   == <<i, shutdown, sigint>>
optVars    == <<style, breaktrace, stale>>
envVars    == <<style, breaktrace, stale, timedout>>
vars == <<style, breaktrace, stale, timedout, spc, rpc, mpc, testmq, syncmq,
          sshutdown, rshutdown, ssamples, rsamples, sent, i, shutdown, sigint>>

Timeout      == style # "wait"
ForceTimeout == style = "forced"

Reporting    == {"receiver", "sender", "loop"}

Init ==
  /\ style \in Styles /\ breaktrace \in BOOLEAN /\ stale \in SUBSET StalePairs
  /\ timedout = {}
  /\ spc = [n \in Pairs |-> "unborn"] /\ rpc = [n \in Pairs |-> "unborn"]
  /\ mpc = "receiver"
  /\ testmq \in [Pairs -> 0..1] /\ syncmq \in [Pairs -> 0..1]
  /\ stale = {n \in Pairs : testmq[n] = 1 \/ syncmq[n] = 1}
  /\ sshutdown = [n \in Pairs |-> 0] /\ rshutdown = [n \in Pairs |-> 0]
  /\ ssamples = [n \in Pairs |-> 0] /\ rsamples = [n \in Pairs |-> 0]
  /\ sent = [n \in Pairs |-> 0]
  /\ i = 0 /\ shutdown = 0 /\ sigint = 0

-----------------------------------------------------------------------------
(* pmqthread *)

Sender(n, from, to) ==
  mpc # "exit" /\ spc[n] = from /\ spc' = [spc EXCEPT ![n] = to]

Receiver(n, from, to) ==
  mpc # "exit" /\ rpc[n] = from /\ rpc' = [rpc EXCEPT ![n] = to]

SenderTop(n) ==
  /\ Sender(n, "top", IF sshutdown[n] = 1 THEN "stopped"
                      ELSE IF ForceTimeout THEN "delay" ELSE "stamp")
  /\ UNCHANGED <<envVars, rpc, mpc, queueVars, flagVars, sampleVars, mainVars>>

\* clock_nanosleep of forcetimeout seconds
Delay(n) ==
  /\ Sender(n, "delay", "stamp")
  /\ UNCHANGED <<envVars, rpc, mpc, queueVars, flagVars, sampleVars, mainVars>>

\* gettimeofday(&par->sent)
Stamp(n) ==
  /\ Sender(n, "stamp", "send")
  /\ sent' = [sent EXCEPT ![n] = @ + 1]
  /\ UNCHANGED <<envVars, rpc, mpc, queueVars, flagVars, ssamples, rsamples, mainVars>>

\* mq_send blocks while the queue is full.
SendTest(n) ==
  /\ testmq[n] = 0
  /\ Sender(n, "send", "count")
  /\ testmq' = [testmq EXCEPT ![n] = 1]
  /\ UNCHANGED <<envVars, rpc, mpc, syncmq, flagVars, sampleVars, mainVars>>

\* Mutant: the sender does not wait for the sync message.
SenderCount_NoWait(n) ==
  /\ Sender(n, "count", "top")
  /\ ssamples' = [ssamples EXCEPT ![n] = @ + 1]
  /\ sshutdown' = [sshutdown EXCEPT ![n] = IF ssamples'[n] >= MaxCycles THEN 1 ELSE @]
  /\ UNCHANGED <<envVars, rpc, mpc, queueVars, rshutdown, rsamples, sent, mainVars>>

SenderCount(n) ==
  /\ Sender(n, "count", IF Timeout THEN "timedrecv" ELSE "recv")
  /\ ssamples' = [ssamples EXCEPT ![n] = @ + 1]
  /\ sshutdown' = [sshutdown EXCEPT ![n] = IF ssamples'[n] >= MaxCycles THEN 1 ELSE @]
  /\ UNCHANGED <<envVars, rpc, mpc, queueVars, rshutdown, rsamples, sent, mainVars>>

\* mq_timedreceive of the sync message: it arrives, or the receiver is not going
\* to send it.  Either way mq_receive follows.
TimedReceiveSync(n) ==
  /\ Sender(n, "timedrecv", "recv")
  /\ \/ /\ syncmq[n] = 1
        /\ syncmq' = [syncmq EXCEPT ![n] = 0]
        /\ UNCHANGED sshutdown
     \/ /\ syncmq[n] = 0
        /\ \/ rpc[n] = "stopped"
           \/ rpc[n] = "recv" /\ testmq[n] = 0
        /\ sshutdown' = [sshutdown EXCEPT ![n] = 1]
        /\ UNCHANGED syncmq
  /\ UNCHANGED <<envVars, rpc, mpc, testmq, rshutdown, sampleVars, mainVars>>

ReceiveSync(n) ==
  /\ syncmq[n] = 1
  /\ Sender(n, "recv", "top")
  /\ syncmq' = [syncmq EXCEPT ![n] = 0]
  /\ UNCHANGED <<envVars, rpc, mpc, testmq, flagVars, sampleVars, mainVars>>

ReceiverTop(n) ==
  /\ Receiver(n, "top", IF rshutdown[n] = 1 THEN "stopped" ELSE "recv")
  /\ UNCHANGED <<envVars, spc, mpc, queueVars, flagVars, sampleVars, mainVars>>

\* mq_receive or mq_timedreceive of the test message
ReceiveTest(n) ==
  /\ testmq[n] = 1
  /\ Receiver(n, "recv", "measure")
  /\ testmq' = [testmq EXCEPT ![n] = 0]
  /\ UNCHANGED <<envVars, spc, mpc, syncmq, flagVars, sampleVars, mainVars>>

\* The timeout without -f: an error, after which the receiver goes on to measure.
\* With -f the receive is repeated, which changes nothing but a count.
ReceiveTimeout(n) ==
  /\ Timeout /\ ~ForceTimeout
  /\ testmq[n] = 0
  /\ \/ spc[n] = "stopped"
     \/ spc[n] \in {"timedrecv", "recv"} /\ syncmq[n] = 0
  /\ Receiver(n, "recv", "measure")
  /\ rshutdown' = [rshutdown EXCEPT ![n] = 1]
  /\ timedout' = timedout \cup {n}
  /\ UNCHANGED <<optVars, spc, mpc, queueVars, sshutdown, sampleVars, mainVars>>

\* samples++, the latency since the neighbor's stamp, the break trace, the loops.
Measure(n) ==
  /\ Receiver(n, "measure", "send")
  /\ rsamples' = [rsamples EXCEPT ![n] = @ + 1]
  /\ \E over \in IF breaktrace THEN {0, 1} ELSE {0} :
       /\ rshutdown' = [rshutdown EXCEPT ![n] =
                           IF over = 1 \/ rsamples'[n] >= MaxCycles THEN 1 ELSE @]
       /\ sshutdown' = [sshutdown EXCEPT ![n] = IF over = 1 THEN 1 ELSE @]
  /\ UNCHANGED <<envVars, spc, mpc, queueVars, ssamples, sent, mainVars>>

\* Mutant: the sync message is not sent.
SendSync_Forgets(n) ==
  /\ Receiver(n, "send", "top")
  /\ UNCHANGED <<envVars, spc, mpc, queueVars, flagVars, sampleVars, mainVars>>

SendSync(n) ==
  /\ syncmq[n] = 0
  /\ Receiver(n, "send", "top")
  /\ syncmq' = [syncmq EXCEPT ![n] = 1]
  /\ UNCHANGED <<envVars, spc, mpc, testmq, flagVars, sampleVars, mainVars>>

SenderStep(n) ==
  \/ SenderTop(n) \/ Delay(n) \/ Stamp(n) \/ SendTest(n) \/ SenderCount(n)
  \/ TimedReceiveSync(n) \/ ReceiveSync(n)
ReceiverStep(n) ==
  \/ ReceiverTop(n) \/ ReceiveTest(n) \/ ReceiveTimeout(n) \/ Measure(n)
  \/ SendSync(n)

-----------------------------------------------------------------------------
(* main *)

Main(from, to) == mpc = from /\ mpc' = to

\* mq_open (O_CREAT, not O_EXCL) and the receiver of pair i
CreateReceiver ==
  /\ Main("receiver", "sender")
  /\ rpc' = [rpc EXCEPT ![i] = "top"]
  /\ UNCHANGED <<envVars, spc, queueVars, flagVars, sampleVars, mainVars>>

\* memcpy(&sender[i], &receiver[i]): the receiver runs already.
CreateSender ==
  /\ Main("sender", IF i + 1 < NThreads THEN "receiver" ELSE "loop")
  /\ spc' = [spc EXCEPT ![i] = "top"]
  /\ ssamples' = [ssamples EXCEPT ![i] = rsamples[i]]
  /\ sshutdown' = [sshutdown EXCEPT ![i] = rshutdown[i]]
  /\ i' = IF i + 1 < NThreads THEN i + 1 ELSE 0
  /\ UNCHANGED <<envVars, rpc, queueVars, rshutdown, rsamples, sent, shutdown, sigint>>

\* The report, the sleep, shutdown |= ...
Report ==
  /\ shutdown = 0
  /\ Main("loop", "loop")
  /\ \E n \in Pairs : sshutdown[n] = 1 \/ rshutdown[n] = 1
  /\ shutdown' = 1
  /\ UNCHANGED <<envVars, spc, rpc, queueVars, flagVars, sampleVars, i, sigint>>

\* All flags are set.  The SIGTERMs stay pending: the threads have inherited the
\* mask that main had when it created them.
StopPairs ==
  /\ shutdown = 1
  /\ Main("loop", "close")
  /\ sshutdown' = [n \in Pairs |-> 1] /\ rshutdown' = [n \in Pairs |-> 1]
  /\ UNCHANGED <<envVars, spc, rpc, queueVars, sampleVars, mainVars>>

\* After a sleep the queues are unlinked and main returns.
Close ==
  /\ Main("close", "exit")
  /\ UNCHANGED <<envVars, spc, rpc, queueVars, flagVars, sampleVars, mainVars>>

MainStep == CreateReceiver \/ CreateSender \/ Report \/ StopPairs \/ Close

\* Main blocks SIGINT and SIGTERM until the threads are created.
Sigint ==
  /\ mpc \in {"loop", "close"} /\ sigint = 0
  /\ sigint' = 1 /\ shutdown' = 1
  /\ UNCHANGED <<envVars, spc, rpc, mpc, queueVars, flagVars, sampleVars, i>>

Terminated == mpc = "exit" /\ UNCHANGED vars

Next ==
  \/ \E n \in Pairs : SenderStep(n) \/ ReceiverStep(n)
  \/ MainStep \/ Sigint
  \/ Terminated

Fairness ==
  /\ \A n \in Pairs : WF_vars(SenderStep(n)) /\ WF_vars(ReceiverStep(n))
  /\ WF_vars(MainStep)

Spec     == Init /\ [][Next]_vars
FairSpec == Spec /\ Fairness

-----------------------------------------------------------------------------
(* Properties *)

Abstract == INSTANCE PingPong WITH
              got <- rsamples,
              open <- [n \in Pairs |->
                         IF mpc \in Reporting /\ n \notin stale \cup timedout
                         THEN 1 ELSE 0]

\* "measures the latency between sending and receiving the message"
\* (pmqtest.8): while main reports, every latency is that of one message, unless
\* the queue held a message of an earlier process, or the receiver has timed out,
\* after which it measures once more, without a message.
EveryLatencyItsEvent == Abstract!Spec

\* "pmqtest is stopped once the number of timer intervals has been reached", with
\* -T by a timeout: a sender that has received its sync message with
\* mq_timedreceive waits for a second one.  With -f a pair may wait for each other.
LoopsEnd == ~ForceTimeout => <>(mpc = "exit")
=============================================================================

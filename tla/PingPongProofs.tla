--------------------------- MODULE PingPongProofs ---------------------------
(***************************************************************************)
(* Proofs that the programs whose pairs hand a permission back and forth   *)
(* implement PingPong, for any number of pairs and of cycles: ptsematest,  *)
(* with mutexes, whose teardown also leaves nobody blocked; pmqtest, with  *)
(* message queues; sigwaittest, with signals.                              *)
(***************************************************************************)
EXTENDS Ptsematest, TLAPS

-----------------------------------------------------------------------------
(* The inductive invariant *)

\* The types of the variables.
TypeInv ==
  /\ spc \in [Pairs -> {"unborn", "top", "lock", "stamp", "unlock", "count", "stopped"}]
  /\ rpc \in [Pairs -> {"unborn", "top", "lock", "measure", "unlock", "stopped"}]
  /\ mpc \in {"receiver", "sender", "loop", "flags", "utest", "usync", "delay",
              "destroy", "exit"}
  /\ testmutex \in [Pairs -> {0, 1}] /\ syncmutex \in [Pairs -> {0, 1}]
  /\ sshutdown \in [Pairs -> {0, 1}] /\ rshutdown \in [Pairs -> {0, 1}]
  /\ ssamples \in [Pairs -> Nat] /\ rsamples \in [Pairs -> Nat]
  /\ unblocked \in [Pairs -> Nat]
  /\ i \in Pairs /\ shutdown \in {0, 1}

\* The threads main has not created yet; its index starts again when they all are.
Unborn ==
  /\ mpc = "loop" => i = 0
  /\ mpc = "receiver" => \A n \in Pairs : n >= i =>
       spc[n] = "unborn" /\ rpc[n] = "unborn"
  /\ mpc = "sender" =>
       /\ spc[i] = "unborn" /\ rpc[i] # "unborn"
       /\ \A n \in Pairs : n > i =>
            spc[n] = "unborn" /\ rpc[n] = "unborn"

\* The permission to go on is in one of four places: syncmutex, the sender,
\* testmutex, the receiver.
SyncFree(n)  == syncmutex[n] = 0
WithSender(n) == spc[n] \in {"stamp", "unlock"}
TestFree(n)  == testmutex[n] = 0
WithReceiver(n) == rpc[n] \in {"measure", "unlock"}

\* Two threads that wait for each other in turn: one permission, and a stamp that
\* is not measured yet exactly while it travels from the sender to the receiver.
Baton(n) ==
  /\ SyncFree(n) => ~WithSender(n) /\ ~TestFree(n) /\ ~WithReceiver(n)
  /\ WithSender(n) => ~TestFree(n) /\ ~WithReceiver(n)
  /\ TestFree(n) => ~WithReceiver(n)
  /\ unblocked[n] = IF spc[n] = "unlock" \/ TestFree(n) \/ rpc[n] = "measure"
                    THEN rsamples[n] + 1 ELSE rsamples[n]

\* A pair whose receiver is not created yet has measured nothing.
OneBaton ==
  \A n \in Pairs : mpc \in Reporting =>
    IF rpc[n] = "unborn" THEN spc[n] = "unborn" /\ unblocked[n] = 0 /\ rsamples[n] = 0
    ELSE Baton(n)

\* What main has done to a pair it is tearing down.
Teardown ==
  /\ \A n \in Pairs : Released(n) \/ (mpc \in {"utest", "usync"} /\ n = i) =>
       sshutdown[n] = 1 /\ rshutdown[n] = 1
  /\ mpc = "usync" => (rpc[i] = "lock" => testmutex[i] = 0)
  /\ NobodyStuck

Ind == TypeInv /\ Unborn /\ OneBaton /\ Teardown

-----------------------------------------------------------------------------
(* The steps *)

\* Pairs are numbered from 0.
LEMMA PairsAreNumbers ==
  /\ NThreads \in Nat /\ NThreads >= 1
  /\ \A n : n \in Pairs <=> n \in Nat /\ n < NThreads
  BY ConstantsAssumption DEF Pairs

\* The invariant holds before the first pair.
LEMMA IndInit == Init => Ind
<1> SUFFICES ASSUME Init
             PROVE  Ind
  OBVIOUS
<1>1. TypeInv
  BY PairsAreNumbers DEF Init, TypeInv
<1>2. Unborn
  BY DEF Init, Unborn
<1>3. OneBaton
  BY DEF Init, OneBaton
<1>4. Teardown
  BY PairsAreNumbers DEF Init, Teardown, NobodyStuck, Released
<1> QED
  BY <1>1, <1>2, <1>3, <1>4 DEF Ind

\* The sender looks at shutdown.
LEMMA SenderTopStep ==
  ASSUME Ind, NEW n \in Pairs, SenderTop(n)
  PROVE  Ind'
<1> USE PairsAreNumbers DEF SenderTop, Sender, mutexVars, flagVars, sampleVars
<1>1. TypeInv'
  BY DEF Ind, TypeInv
<1>2. Unborn'
  BY DEF Ind, TypeInv, Unborn
<1>3. OneBaton'
  BY DEF Ind, TypeInv, Unborn, OneBaton, Baton, SyncFree, WithSender, TestFree,
     WithReceiver, Reporting
<1>4. Teardown'
  BY DEF Ind, TypeInv, Unborn, Teardown, NobodyStuck, Released
<1> QED
  BY <1>1, <1>2, <1>3, <1>4 DEF Ind

\* The sender gets syncmutex, and with it the baton.
LEMMA SenderLockStep ==
  ASSUME Ind, NEW n \in Pairs, SenderLock(n)
  PROVE  Ind'
<1> USE PairsAreNumbers DEF SenderLock, Sender, mutexVars, flagVars, sampleVars
<1>1. TypeInv'
  BY DEF Ind, TypeInv
<1>2. Unborn'
  BY DEF Ind, TypeInv, Unborn
<1>3. OneBaton'
  BY DEF Ind, TypeInv, Unborn, OneBaton, Baton, SyncFree, WithSender, TestFree,
     WithReceiver, Reporting
<1>4. Teardown'
  BY DEF Ind, TypeInv, Unborn, Teardown, NobodyStuck, Released
<1> QED
  BY <1>1, <1>2, <1>3, <1>4 DEF Ind

\* The sender stamps while it has the baton.
LEMMA StampStep ==
  ASSUME Ind, NEW n \in Pairs, Stamp(n)
  PROVE  Ind'
<1> USE PairsAreNumbers DEF Stamp, Sender, mutexVars, flagVars, sampleVars
<1>1. TypeInv'
  BY DEF Ind, TypeInv
<1>2. Unborn'
  BY DEF Ind, TypeInv, Unborn
<1>3. OneBaton'
  BY DEF Ind, TypeInv, Unborn, OneBaton, Baton, SyncFree, WithSender, TestFree,
     WithReceiver, Reporting
<1>4. Teardown'
  BY DEF Ind, TypeInv, Unborn, Teardown, NobodyStuck, Released
<1> QED
  BY <1>1, <1>2, <1>3, <1>4 DEF Ind

\* The sender unlocks testmutex: the baton goes to the receiver.
LEMMA SenderUnlockStep ==
  ASSUME Ind, NEW n \in Pairs, SenderUnlock(n)
  PROVE  Ind'
<1> USE PairsAreNumbers DEF SenderUnlock, Sender, mutexVars, flagVars, sampleVars
<1>1. TypeInv'
  BY DEF Ind, TypeInv
<1>2. Unborn'
  BY DEF Ind, TypeInv, Unborn
<1>3. OneBaton'
  BY DEF Ind, TypeInv, Unborn, OneBaton, Baton, SyncFree, WithSender, TestFree,
     WithReceiver, Reporting
<1>4. Teardown'
  BY DEF Ind, TypeInv, Unborn, Teardown, NobodyStuck, Released
<1> QED
  BY <1>1, <1>2, <1>3, <1>4 DEF Ind

\* The sender counts its sample.
LEMMA SenderCountStep ==
  ASSUME Ind, NEW n \in Pairs, SenderCount(n)
  PROVE  Ind'
<1> USE PairsAreNumbers DEF SenderCount, Sender, mutexVars, flagVars, sampleVars
<1>1. TypeInv'
  BY DEF Ind, TypeInv
<1>2. Unborn'
  BY DEF Ind, TypeInv, Unborn
<1>3. OneBaton'
  BY DEF Ind, TypeInv, Unborn, OneBaton, Baton, SyncFree, WithSender, TestFree,
     WithReceiver, Reporting
<1>4. Teardown'
  BY DEF Ind, TypeInv, Unborn, Teardown, NobodyStuck, Released
<1> QED
  BY <1>1, <1>2, <1>3, <1>4 DEF Ind

\* The receiver looks at shutdown.
LEMMA ReceiverTopStep ==
  ASSUME Ind, NEW n \in Pairs, ReceiverTop(n)
  PROVE  Ind'
<1> USE PairsAreNumbers DEF ReceiverTop, Receiver, mutexVars, flagVars, sampleVars
<1>1. TypeInv'
  BY DEF Ind, TypeInv
<1>2. Unborn'
  BY DEF Ind, TypeInv, Unborn
<1>3. OneBaton'
  BY DEF Ind, TypeInv, Unborn, OneBaton, Baton, SyncFree, WithSender, TestFree,
     WithReceiver, Reporting
<1>4. Teardown'
  BY DEF Ind, TypeInv, Unborn, Teardown, NobodyStuck, Released
<1> QED
  BY <1>1, <1>2, <1>3, <1>4 DEF Ind

\* The receiver gets testmutex, and with it the baton.
LEMMA ReceiverLockStep ==
  ASSUME Ind, NEW n \in Pairs, ReceiverLock(n)
  PROVE  Ind'
<1> USE PairsAreNumbers DEF ReceiverLock, Receiver, mutexVars, flagVars, sampleVars
<1>1. TypeInv'
  BY DEF Ind, TypeInv
<1>2. Unborn'
  BY DEF Ind, TypeInv, Unborn
<1>3. OneBaton'
  BY DEF Ind, TypeInv, Unborn, OneBaton, Baton, SyncFree, WithSender, TestFree,
     WithReceiver, Reporting
<1>4. Teardown'
  BY DEF Ind, TypeInv, Unborn, Teardown, NobodyStuck, Released
<1> QED
  BY <1>1, <1>2, <1>3, <1>4 DEF Ind

\* The receiver measures the stamp of this baton.
LEMMA MeasureStep ==
  ASSUME Ind, NEW n \in Pairs, Measure(n)
  PROVE  Ind'
<1> USE PairsAreNumbers DEF Measure, Receiver, mutexVars, flagVars, sampleVars
<1>1. TypeInv'
  BY DEF Ind, TypeInv
<1>2. Unborn'
  BY DEF Ind, TypeInv, Unborn
<1>3. OneBaton'
  BY DEF Ind, TypeInv, Unborn, OneBaton, Baton, SyncFree, WithSender, TestFree,
     WithReceiver, Reporting
<1>4. Teardown'
  BY DEF Ind, TypeInv, Unborn, Teardown, NobodyStuck, Released
<1> QED
  BY <1>1, <1>2, <1>3, <1>4 DEF Ind

\* The receiver unlocks syncmutex: the baton goes back.
LEMMA ReceiverUnlockStep ==
  ASSUME Ind, NEW n \in Pairs, ReceiverUnlock(n)
  PROVE  Ind'
<1> USE PairsAreNumbers DEF ReceiverUnlock, Receiver, mutexVars, flagVars, sampleVars
<1>1. TypeInv'
  BY DEF Ind, TypeInv
<1>2. Unborn'
  BY DEF Ind, TypeInv, Unborn
<1>3. OneBaton'
  BY DEF Ind, TypeInv, Unborn, OneBaton, Baton, SyncFree, WithSender, TestFree,
     WithReceiver, Reporting
<1>4. Teardown'
  BY DEF Ind, TypeInv, Unborn, Teardown, NobodyStuck, Released
<1> QED
  BY <1>1, <1>2, <1>3, <1>4 DEF Ind

\* Main locks testmutex of pair i and creates its receiver.
LEMMA CreateReceiverStep ==
  ASSUME Ind, CreateReceiver
  PROVE  Ind'
<1> USE PairsAreNumbers DEF CreateReceiver, Main, mutexVars, flagVars, sampleVars
<1>1. TypeInv'
  BY DEF Ind, TypeInv
<1>2. Unborn'
  BY DEF Ind, TypeInv, Unborn
<1>3. OneBaton'
  BY DEF Ind, TypeInv, Unborn, OneBaton, Baton, SyncFree, WithSender, TestFree,
     WithReceiver, Reporting
<1>4. Teardown'
  BY DEF Ind, TypeInv, Unborn, Teardown, NobodyStuck, Released
<1> QED
  BY <1>1, <1>2, <1>3, <1>4 DEF Ind

\* Main creates the sender of pair i.
LEMMA CreateSenderStep ==
  ASSUME Ind, CreateSender
  PROVE  Ind'
<1> USE PairsAreNumbers DEF CreateSender, Main, mutexVars, flagVars, sampleVars
<1>1. TypeInv'
  BY DEF Ind, TypeInv
<1>2. Unborn'
  BY DEF Ind, TypeInv, Unborn
<1>3. OneBaton'
  BY DEF Ind, TypeInv, Unborn, OneBaton, Baton, SyncFree, WithSender, TestFree,
     WithReceiver, Reporting
<1>4. Teardown'
  BY DEF Ind, TypeInv, Unborn, Teardown, NobodyStuck, Released
<1> QED
  BY <1>1, <1>2, <1>3, <1>4 DEF Ind

\* Main sees the flag of a thread.
LEMMA ReportStep ==
  ASSUME Ind, Report
  PROVE  Ind'
<1> USE PairsAreNumbers DEF Report, Main, mutexVars, flagVars, sampleVars
<1>1. TypeInv'
  BY DEF Ind, TypeInv
<1>2. Unborn'
  BY DEF Ind, TypeInv, Unborn
<1>3. OneBaton'
  BY DEF Ind, TypeInv, Unborn, OneBaton, Baton, SyncFree, WithSender, TestFree,
     WithReceiver, Reporting
<1>4. Teardown'
  BY DEF Ind, TypeInv, Unborn, Teardown, NobodyStuck, Released
<1> QED
  BY <1>1, <1>2, <1>3, <1>4 DEF Ind

\* Main leaves its loop.
LEMMA LeaveLoopStep ==
  ASSUME Ind, LeaveLoop
  PROVE  Ind'
<1> USE PairsAreNumbers DEF LeaveLoop, Main, mutexVars, flagVars, sampleVars
<1>1. TypeInv'
  BY DEF Ind, TypeInv
<1>2. Unborn'
  BY DEF Ind, TypeInv, Unborn
<1>3. OneBaton'
  BY DEF Ind, TypeInv, Unborn, OneBaton, Baton, SyncFree, WithSender, TestFree,
     WithReceiver, Reporting
<1>4. Teardown'
  BY DEF Ind, TypeInv, Unborn, Teardown, NobodyStuck, Released
<1> QED
  BY <1>1, <1>2, <1>3, <1>4 DEF Ind

\* Main sets the flags of pair i.
LEMMA StopPairStep ==
  ASSUME Ind, StopPair
  PROVE  Ind'
<1> USE PairsAreNumbers DEF StopPair, Main, mutexVars, flagVars, sampleVars
<1>1. TypeInv'
  BY DEF Ind, TypeInv
<1>2. Unborn'
  BY DEF Ind, TypeInv, Unborn
<1>3. OneBaton'
  BY DEF Ind, TypeInv, Unborn, OneBaton, Baton, SyncFree, WithSender, TestFree,
     WithReceiver, Reporting
<1>4. Teardown'
  BY DEF Ind, TypeInv, Unborn, Teardown, NobodyStuck, Released
<1> QED
  BY <1>1, <1>2, <1>3, <1>4 DEF Ind

\* Main unlocks testmutex of pair i.
LEMMA ReleaseTestStep ==
  ASSUME Ind, ReleaseTest
  PROVE  Ind'
<1> USE PairsAreNumbers DEF ReleaseTest, Main, mutexVars, flagVars, sampleVars
<1>1. TypeInv'
  BY DEF Ind, TypeInv
<1>2. Unborn'
  BY DEF Ind, TypeInv, Unborn
<1>3. OneBaton'
  BY DEF Ind, TypeInv, Unborn, OneBaton, Baton, SyncFree, WithSender, TestFree,
     WithReceiver, Reporting
<1>4. Teardown'
  BY DEF Ind, TypeInv, Unborn, Teardown, NobodyStuck, Released
<1> QED
  BY <1>1, <1>2, <1>3, <1>4 DEF Ind

\* Main unlocks syncmutex of pair i: whoever waits can go on.
LEMMA ReleaseSyncStep ==
  ASSUME Ind, ReleaseSync
  PROVE  Ind'
<1> USE PairsAreNumbers DEF ReleaseSync, Main, mutexVars, flagVars, sampleVars
<1>1. TypeInv'
  BY DEF Ind, TypeInv
<1>2. Unborn'
  BY DEF Ind, TypeInv, Unborn
<1>3. OneBaton'
  BY DEF Ind, TypeInv, Unborn, OneBaton, Baton, SyncFree, WithSender, TestFree,
     WithReceiver, Reporting
<1>4. Teardown'
  <2>1. /\ mpc = "usync" /\ mpc' \in {"flags", "delay"} /\ i \in Nat
        /\ mpc' = "flags" => i' = i + 1
        /\ mpc' = "delay" => ~(i + 1 < NThreads)
        /\ syncmutex' = [syncmutex EXCEPT ![i] = 0]
        /\ UNCHANGED <<spc, rpc, testmutex, sshutdown, rshutdown>>
    BY DEF Ind, TypeInv
  <2>2. ASSUME NEW n \in Pairs, Released(n)'
        PROVE  Released(n) \/ n = i
    BY <2>1, <2>2 DEF Released
  <2>3. ASSUME NEW n \in Pairs, Released(n) \/ n = i
        PROVE  /\ sshutdown'[n] = 1 /\ rshutdown'[n] = 1
               /\ spc'[n] = "lock" => syncmutex'[n] = 0
               /\ rpc'[n] = "lock" => testmutex'[n] = 0
    BY <2>1, <2>3 DEF Ind, TypeInv, Teardown, NobodyStuck
  <2> QED
    BY <2>1, <2>2, <2>3 DEF Teardown, NobodyStuck
<1> QED
  BY <1>1, <1>2, <1>3, <1>4 DEF Ind

\* Main ends the process.
LEMMA FinishStep ==
  ASSUME Ind, Finish
  PROVE  Ind'
<1> USE PairsAreNumbers DEF Finish, Main, mutexVars, flagVars, sampleVars
<1>1. TypeInv'
  BY DEF Ind, TypeInv
<1>2. Unborn'
  BY DEF Ind, TypeInv, Unborn
<1>3. OneBaton'
  BY DEF Ind, TypeInv, Unborn, OneBaton, Baton, SyncFree, WithSender, TestFree,
     WithReceiver, Reporting
<1>4. Teardown'
  BY DEF Ind, TypeInv, Unborn, Teardown, NobodyStuck, Released
<1> QED
  BY <1>1, <1>2, <1>3, <1>4 DEF Ind

\* SIGINT sets the flag of main.
LEMMA SigintStep ==
  ASSUME Ind, Sigint
  PROVE  Ind'
<1> USE PairsAreNumbers DEF Sigint, mutexVars, flagVars, sampleVars
<1>1. TypeInv'
  BY DEF Ind, TypeInv
<1>2. Unborn'
  BY DEF Ind, TypeInv, Unborn
<1>3. OneBaton'
  BY DEF Ind, TypeInv, Unborn, OneBaton, Baton, SyncFree, WithSender, TestFree,
     WithReceiver, Reporting
<1>4. Teardown'
  BY DEF Ind, TypeInv, Unborn, Teardown, NobodyStuck, Released
<1> QED
  BY <1>1, <1>2, <1>3, <1>4 DEF Ind

\* Nothing happens.
LEMMA StutterStep ==
  ASSUME Ind, UNCHANGED vars
  PROVE  Ind'
  BY DEF Ind, TypeInv, Unborn, OneBaton, Baton, SyncFree, WithSender, TestFree,
         WithReceiver, Teardown, NobodyStuck, Released, vars

\* The invariant is inductive.
THEOREM Invariance == Spec => []Ind
<1>1. Ind /\ [Next]_vars => Ind'
  <2> SUFFICES ASSUME Ind, [Next]_vars
               PROVE  Ind'
    OBVIOUS
  <2>1. CASE \E n \in Pairs : SenderStep(n) \/ ReceiverStep(n)
    BY <2>1, SenderTopStep, SenderLockStep, StampStep, SenderUnlockStep, SenderCountStep,
       ReceiverTopStep, ReceiverLockStep, MeasureStep, ReceiverUnlockStep
       DEF SenderStep, ReceiverStep
  <2>2. CASE MainStep
    BY <2>2, CreateReceiverStep, CreateSenderStep, ReportStep, LeaveLoopStep,
       StopPairStep, ReleaseTestStep, ReleaseSyncStep, FinishStep DEF MainStep
  <2> QED
    BY <2>1, <2>2, SigintStep, StutterStep DEF Next, Terminated
<1> QED
  BY <1>1, IndInit, PTL DEF Spec

-----------------------------------------------------------------------------
(* The properties *)

\* Once main has unlocked both mutexes of a pair, neither of its threads is blocked
\* on them, or ever will be, for any number of pairs and wherever they were stopped.
THEOREM TeardownUnblocks == Spec => []NobodyStuck
<1>1. Ind => NobodyStuck
  BY DEF Ind, Teardown
<1> QED
  BY <1>1, Invariance, PTL

\* A step of the threads while main does not report any more.
LEMMA DrainStep ==
  ASSUME TypeInv, TypeInv', mpc \notin Reporting, mpc' = mpc
  PROVE  Abstract!Drain
<1> USE DEF Abstract!Drain
<1>1. \A n \in Pairs : [k \in Pairs |-> IF mpc \in Reporting THEN 1 ELSE 0][n] # 1
  OBVIOUS
<1> QED
  BY <1>1 DEF TypeInv

\* ptsematest implements PingPong: while main reports, a stamp is made after the last
\* one was measured and measured once, so that every latency is that of one event.
THEOREM ImplementsPingPong == Spec => EveryLatencyItsEvent
<1>1. Init => Abstract!Init
  BY DEF Init, Abstract!Init, Reporting
<1>2. Ind /\ Ind' /\ [Next]_vars => [Abstract!Next]_(Abstract!vars)
  <2> SUFFICES ASSUME Ind, Ind', [Next]_vars
               PROVE  Abstract!Next \/ UNCHANGED Abstract!vars
    OBVIOUS
  <2> USE DEF Abstract!vars, mutexVars, flagVars, sampleVars, Sender, Receiver, Main
  <2>1. ASSUME NEW n \in Pairs, Stamp(n)
        PROVE  Abstract!Next
    <3>1. CASE mpc \in Reporting
      <4>1. unblocked[n] = rsamples[n]
        BY <2>1, <3>1 DEF Ind, TypeInv, OneBaton, Baton, SyncFree, WithSender, TestFree,
           WithReceiver, Stamp
      <4>2. Abstract!Send(n)
        BY <2>1, <4>1 DEF Stamp, Abstract!Send
      <4> QED
        BY <4>2 DEF Abstract!Next
    <3>2. CASE mpc \notin Reporting
      BY <2>1, <3>2, DrainStep DEF Ind, Stamp, Abstract!Next
    <3> QED
      BY <3>1, <3>2
  <2>2. ASSUME NEW n \in Pairs, Measure(n)
        PROVE  Abstract!Next
    <3>1. CASE mpc \in Reporting
      <4>1. rsamples[n] < unblocked[n]
        BY <2>2, <3>1 DEF Ind, TypeInv, OneBaton, Baton, SyncFree, WithSender, TestFree,
           WithReceiver, Measure
      <4>2. Abstract!Receive(n)
        BY <2>2, <4>1 DEF Measure, Abstract!Receive
      <4> QED
        BY <4>2 DEF Abstract!Next
    <3>2. CASE mpc \notin Reporting
      BY <2>2, <3>2, DrainStep DEF Ind, Measure, Abstract!Next
    <3> QED
      BY <3>1, <3>2
  <2>3. ASSUME NEW n \in Pairs,
               \/ SenderTop(n) \/ SenderLock(n) \/ SenderUnlock(n) \/ SenderCount(n)
               \/ ReceiverTop(n) \/ ReceiverLock(n) \/ ReceiverUnlock(n)
        PROVE  UNCHANGED Abstract!vars
    BY <2>3 DEF SenderTop, SenderLock, SenderUnlock, SenderCount, ReceiverTop,
       ReceiverLock, ReceiverUnlock
  <2>4. ASSUME LeaveLoop
        PROVE  Abstract!Next
    <3>1. Abstract!Close
      <4>1. [n \in Pairs |-> IF mpc' \in Reporting THEN 1 ELSE 0]
              = [n \in Pairs |-> IF n \in Pairs THEN 0 ELSE
                   [k \in Pairs |-> IF mpc \in Reporting THEN 1 ELSE 0][n]]
        BY <2>4 DEF LeaveLoop, Reporting
      <4>2. Pairs \in SUBSET Pairs
        OBVIOUS
      <4> QED
        BY <2>4, <4>1, <4>2 DEF LeaveLoop, Abstract!Close
    <3> QED
      BY <3>1 DEF Abstract!Next
  <2>5. ASSUME \/ CreateReceiver \/ CreateSender \/ Report \/ StopPair \/ ReleaseTest
               \/ ReleaseSync \/ Finish \/ Sigint
        PROVE  UNCHANGED Abstract!vars
    BY <2>5 DEF CreateReceiver, CreateSender, Report, StopPair, ReleaseTest, ReleaseSync,
       Finish, Sigint, Reporting
  <2>6. ASSUME UNCHANGED vars
        PROVE  UNCHANGED Abstract!vars
    BY <2>6 DEF vars
  <2> QED
    BY <2>1, <2>2, <2>3, <2>4, <2>5, <2>6 DEF Next, SenderStep, ReceiverStep, MainStep,
       Terminated
<1> QED
  BY <1>1, <1>2, Invariance, PTL DEF Spec, EveryLatencyItsEvent, Abstract!Spec

-----------------------------------------------------------------------------
(* pmqtest and sigwaittest: they share the names of some variables with    *)
(* ptsematest, and have these besides.                                     *)

CONSTANTS StalePairs, Styles

VARIABLES
  style, breaktrace, stale, timedout, testmq, syncmq, sigint,      \* pmqtest
  mustfork, late, usr1, usr2, blocked, rpid, spid, mustshutdown,   \* sigwaittest
  sent                                                             \* both

\* pmqtest and sigwaittest with these variables.
Pmq == INSTANCE Pmqtest
Sig == INSTANCE Sigwaittest

-----------------------------------------------------------------------------
(* The inductive invariant of pmqtest *)

\* The types of the variables that the promise depends on.
PmqTypeInv ==
  /\ spc \in [Pmq!Pairs -> {"unborn", "top", "delay", "stamp", "send", "count", "timedrecv",
                        "recv", "stopped"}]
  /\ rpc \in [Pmq!Pairs -> {"unborn", "top", "recv", "measure", "send", "stopped"}]
  /\ mpc \in Pmq!Reporting \cup {"close", "exit"}
  /\ testmq \in [Pmq!Pairs -> {0, 1}] /\ syncmq \in [Pmq!Pairs -> {0, 1}]
  /\ rsamples \in [Pmq!Pairs -> Nat] /\ sent \in [Pmq!Pairs -> Nat]
  /\ i \in Pmq!Pairs

\* The threads main has not created yet.
PmqUnborn ==
  /\ mpc = "receiver" => \A n \in Pmq!Pairs : n >= i => spc[n] = "unborn" /\ rpc[n] = "unborn"
  /\ mpc = "sender" =>
       /\ spc[i] = "unborn"
       /\ \A n \in Pmq!Pairs : n > i => spc[n] = "unborn" /\ rpc[n] = "unborn"

\* The permission to go on is with the sender, in the test queue, with the receiver or in
\* the sync queue; a sender that main has not created has it.
PmqWithSender(n)   == spc[n] \in {"unborn", "top", "delay", "stamp", "send", "stopped"}
PmqInTest(n)       == testmq[n] = 1
PmqWithReceiver(n) == rpc[n] \in {"measure", "send"}
PmqInSync(n)       == syncmq[n] = 1

\* There is at most one permission (a sender that takes the sync message with
\* mq_timedreceive loses it), and a stamp is not measured yet exactly while it travels
\* from the sender to the receiver.
PmqBaton(n) ==
  /\ PmqInSync(n) => ~PmqWithSender(n) /\ ~PmqInTest(n) /\ ~PmqWithReceiver(n)
  /\ PmqWithSender(n) => ~PmqInTest(n) /\ ~PmqWithReceiver(n)
  /\ PmqInTest(n) => ~PmqWithReceiver(n)
  /\ sent[n] = IF spc[n] = "send" \/ PmqInTest(n) \/ rpc[n] = "measure"
               THEN rsamples[n] + 1 ELSE rsamples[n]

\* The pairs that started with empty queues and whose receiver has not timed out.
PmqOneBaton ==
  mpc \in Pmq!Reporting => \A n \in Pmq!Pairs \ (stale \cup timedout) : PmqBaton(n)

PmqInd == PmqTypeInv /\ PmqUnborn /\ PmqOneBaton

-----------------------------------------------------------------------------
(* The steps of pmqtest *)

USE DEF Pmq!Sender, Pmq!Receiver, Pmq!Main, Pmq!queueVars, Pmq!flagVars, Pmq!sampleVars,
        Pmq!mainVars, Pmq!optVars, Pmq!envVars

\* Pairs are numbered from 0.
LEMMA PmqPairsAreNumbers ==
  /\ NThreads \in Nat /\ NThreads >= 1
  /\ \A n : n \in Pmq!Pairs <=> n \in Nat /\ n < NThreads
  BY ConstantsAssumption DEF Pmq!Pairs

\* The invariant holds before the first pair.
LEMMA PmqIndInit == Pmq!Init => PmqInd
<1> SUFFICES ASSUME Pmq!Init
             PROVE  PmqInd
  OBVIOUS
<1>1. PmqTypeInv
  BY PmqPairsAreNumbers DEF Pmq!Init, PmqTypeInv, Pmq!Reporting
<1>2. PmqUnborn
  BY DEF Pmq!Init, PmqUnborn
<1>3. PmqOneBaton
  BY DEF Pmq!Init, PmqTypeInv, PmqOneBaton, PmqBaton, PmqInSync, PmqWithSender, PmqInTest,
     PmqWithReceiver
<1> QED
  BY <1>1, <1>2, <1>3 DEF PmqInd

\* The sender looks at shutdown.
LEMMA PmqSenderTopStep ==
  ASSUME PmqInd, NEW n \in Pmq!Pairs, Pmq!SenderTop(n)
  PROVE  PmqInd'
<1>1. PmqTypeInv'
  BY DEF PmqInd, PmqTypeInv, Pmq!Reporting, Pmq!SenderTop
<1>2. PmqUnborn'
  BY DEF PmqInd, PmqTypeInv, PmqUnborn, Pmq!SenderTop
<1>3. PmqOneBaton'
  BY DEF PmqInd, PmqTypeInv, PmqUnborn, PmqOneBaton, PmqBaton, PmqInSync, PmqWithSender,
     PmqInTest, PmqWithReceiver, Pmq!Reporting, Pmq!SenderTop
<1> QED
  BY <1>1, <1>2, <1>3 DEF PmqInd

\* The forced delay of the sender is over.
LEMMA PmqDelayStep ==
  ASSUME PmqInd, NEW n \in Pmq!Pairs, Pmq!Delay(n)
  PROVE  PmqInd'
<1>1. PmqTypeInv'
  BY DEF PmqInd, PmqTypeInv, Pmq!Reporting, Pmq!Delay
<1>2. PmqUnborn'
  BY DEF PmqInd, PmqTypeInv, PmqUnborn, Pmq!Delay
<1>3. PmqOneBaton'
  BY DEF PmqInd, PmqTypeInv, PmqUnborn, PmqOneBaton, PmqBaton, PmqInSync, PmqWithSender,
     PmqInTest, PmqWithReceiver, Pmq!Reporting, Pmq!Delay
<1> QED
  BY <1>1, <1>2, <1>3 DEF PmqInd

\* The sender stamps while it has the baton.
LEMMA PmqStampStep ==
  ASSUME PmqInd, NEW n \in Pmq!Pairs, Pmq!Stamp(n)
  PROVE  PmqInd'
<1>1. PmqTypeInv'
  BY DEF PmqInd, PmqTypeInv, Pmq!Reporting, Pmq!Stamp
<1>2. PmqUnborn'
  BY DEF PmqInd, PmqTypeInv, PmqUnborn, Pmq!Stamp
<1>3. PmqOneBaton'
  BY DEF PmqInd, PmqTypeInv, PmqUnborn, PmqOneBaton, PmqBaton, PmqInSync, PmqWithSender,
     PmqInTest, PmqWithReceiver, Pmq!Reporting, Pmq!Stamp
<1> QED
  BY <1>1, <1>2, <1>3 DEF PmqInd

\* The sender sends the test message, and the baton with it.
LEMMA PmqSendTestStep ==
  ASSUME PmqInd, NEW n \in Pmq!Pairs, Pmq!SendTest(n)
  PROVE  PmqInd'
<1>1. PmqTypeInv'
  BY DEF PmqInd, PmqTypeInv, Pmq!Reporting, Pmq!SendTest
<1>2. PmqUnborn'
  BY DEF PmqInd, PmqTypeInv, PmqUnborn, Pmq!SendTest
<1>3. PmqOneBaton'
  BY DEF PmqInd, PmqTypeInv, PmqUnborn, PmqOneBaton, PmqBaton, PmqInSync, PmqWithSender,
     PmqInTest, PmqWithReceiver, Pmq!Reporting, Pmq!SendTest
<1> QED
  BY <1>1, <1>2, <1>3 DEF PmqInd

\* The sender counts its message.
LEMMA PmqSenderCountStep ==
  ASSUME PmqInd, NEW n \in Pmq!Pairs, Pmq!SenderCount(n)
  PROVE  PmqInd'
<1>1. PmqTypeInv'
  BY DEF PmqInd, PmqTypeInv, Pmq!Reporting, Pmq!SenderCount
<1>2. PmqUnborn'
  BY DEF PmqInd, PmqTypeInv, PmqUnborn, Pmq!SenderCount
<1>3. PmqOneBaton'
  BY DEF PmqInd, PmqTypeInv, PmqUnborn, PmqOneBaton, PmqBaton, PmqInSync, PmqWithSender,
     PmqInTest, PmqWithReceiver, Pmq!Reporting, Pmq!SenderCount
<1> QED
  BY <1>1, <1>2, <1>3 DEF PmqInd

\* The sender receives the sync message or gives it up: the baton is lost or nowhere.
LEMMA PmqTimedReceiveSyncStep ==
  ASSUME PmqInd, NEW n \in Pmq!Pairs, Pmq!TimedReceiveSync(n)
  PROVE  PmqInd'
<1>1. PmqTypeInv'
  BY DEF PmqInd, PmqTypeInv, Pmq!Reporting, Pmq!TimedReceiveSync
<1>2. PmqUnborn'
  BY DEF PmqInd, PmqTypeInv, PmqUnborn, Pmq!TimedReceiveSync
<1>3. PmqOneBaton'
  BY DEF PmqInd, PmqTypeInv, PmqUnborn, PmqOneBaton, PmqBaton, PmqInSync, PmqWithSender,
     PmqInTest, PmqWithReceiver, Pmq!Reporting, Pmq!TimedReceiveSync
<1> QED
  BY <1>1, <1>2, <1>3 DEF PmqInd

\* The sender receives the sync message, and the baton.
LEMMA PmqReceiveSyncStep ==
  ASSUME PmqInd, NEW n \in Pmq!Pairs, Pmq!ReceiveSync(n)
  PROVE  PmqInd'
<1>1. PmqTypeInv'
  BY DEF PmqInd, PmqTypeInv, Pmq!Reporting, Pmq!ReceiveSync
<1>2. PmqUnborn'
  BY DEF PmqInd, PmqTypeInv, PmqUnborn, Pmq!ReceiveSync
<1>3. PmqOneBaton'
  BY DEF PmqInd, PmqTypeInv, PmqUnborn, PmqOneBaton, PmqBaton, PmqInSync, PmqWithSender,
     PmqInTest, PmqWithReceiver, Pmq!Reporting, Pmq!ReceiveSync
<1> QED
  BY <1>1, <1>2, <1>3 DEF PmqInd

\* The receiver looks at shutdown.
LEMMA PmqReceiverTopStep ==
  ASSUME PmqInd, NEW n \in Pmq!Pairs, Pmq!ReceiverTop(n)
  PROVE  PmqInd'
<1>1. PmqTypeInv'
  BY DEF PmqInd, PmqTypeInv, Pmq!Reporting, Pmq!ReceiverTop
<1>2. PmqUnborn'
  BY DEF PmqInd, PmqTypeInv, PmqUnborn, Pmq!ReceiverTop
<1>3. PmqOneBaton'
  BY DEF PmqInd, PmqTypeInv, PmqUnborn, PmqOneBaton, PmqBaton, PmqInSync, PmqWithSender,
     PmqInTest, PmqWithReceiver, Pmq!Reporting, Pmq!ReceiverTop
<1> QED
  BY <1>1, <1>2, <1>3 DEF PmqInd

\* The receiver receives the test message, and the baton.
LEMMA PmqReceiveTestStep ==
  ASSUME PmqInd, NEW n \in Pmq!Pairs, Pmq!ReceiveTest(n)
  PROVE  PmqInd'
<1>1. PmqTypeInv'
  BY DEF PmqInd, PmqTypeInv, Pmq!Reporting, Pmq!ReceiveTest
<1>2. PmqUnborn'
  BY DEF PmqInd, PmqTypeInv, PmqUnborn, Pmq!ReceiveTest
<1>3. PmqOneBaton'
  BY DEF PmqInd, PmqTypeInv, PmqUnborn, PmqOneBaton, PmqBaton, PmqInSync, PmqWithSender,
     PmqInTest, PmqWithReceiver, Pmq!Reporting, Pmq!ReceiveTest
<1> QED
  BY <1>1, <1>2, <1>3 DEF PmqInd

\* The receiver times out: the promise of its pair ends.
LEMMA PmqReceiveTimeoutStep ==
  ASSUME PmqInd, NEW n \in Pmq!Pairs, Pmq!ReceiveTimeout(n)
  PROVE  PmqInd'
<1>1. PmqTypeInv'
  BY DEF PmqInd, PmqTypeInv, Pmq!Reporting, Pmq!ReceiveTimeout
<1>2. PmqUnborn'
  BY DEF PmqInd, PmqTypeInv, PmqUnborn, Pmq!ReceiveTimeout
<1>3. PmqOneBaton'
  BY DEF PmqInd, PmqTypeInv, PmqUnborn, PmqOneBaton, PmqBaton, PmqInSync, PmqWithSender,
     PmqInTest, PmqWithReceiver, Pmq!Reporting, Pmq!ReceiveTimeout
<1> QED
  BY <1>1, <1>2, <1>3 DEF PmqInd

\* The receiver measures the stamp, which it has the baton for.
LEMMA PmqMeasureStep ==
  ASSUME PmqInd, NEW n \in Pmq!Pairs, Pmq!Measure(n)
  PROVE  PmqInd'
<1>1. PmqTypeInv'
  BY DEF PmqInd, PmqTypeInv, Pmq!Reporting, Pmq!Measure
<1>2. PmqUnborn'
  BY DEF PmqInd, PmqTypeInv, PmqUnborn, Pmq!Measure
<1>3. PmqOneBaton'
  BY DEF PmqInd, PmqTypeInv, PmqUnborn, PmqOneBaton, PmqBaton, PmqInSync, PmqWithSender,
     PmqInTest, PmqWithReceiver, Pmq!Reporting, Pmq!Measure
<1> QED
  BY <1>1, <1>2, <1>3 DEF PmqInd

\* The receiver sends the sync message, and the baton with it.
LEMMA PmqSendSyncStep ==
  ASSUME PmqInd, NEW n \in Pmq!Pairs, Pmq!SendSync(n)
  PROVE  PmqInd'
<1>1. PmqTypeInv'
  BY DEF PmqInd, PmqTypeInv, Pmq!Reporting, Pmq!SendSync
<1>2. PmqUnborn'
  BY DEF PmqInd, PmqTypeInv, PmqUnborn, Pmq!SendSync
<1>3. PmqOneBaton'
  BY DEF PmqInd, PmqTypeInv, PmqUnborn, PmqOneBaton, PmqBaton, PmqInSync, PmqWithSender,
     PmqInTest, PmqWithReceiver, Pmq!Reporting, Pmq!SendSync
<1> QED
  BY <1>1, <1>2, <1>3 DEF PmqInd

\* Main creates the receiver of pair i.
LEMMA PmqCreateReceiverStep ==
  ASSUME PmqInd, Pmq!CreateReceiver
  PROVE  PmqInd'
<1>1. PmqTypeInv'
  BY PmqPairsAreNumbers DEF PmqInd, PmqTypeInv, Pmq!Reporting, Pmq!CreateReceiver
<1>2. PmqUnborn'
  BY PmqPairsAreNumbers DEF PmqInd, PmqTypeInv, PmqUnborn, Pmq!CreateReceiver
<1>3. PmqOneBaton'
  BY PmqPairsAreNumbers DEF PmqInd, PmqTypeInv, PmqUnborn, PmqOneBaton, PmqBaton, PmqInSync,
     PmqWithSender, PmqInTest, PmqWithReceiver, Pmq!Reporting, Pmq!CreateReceiver
<1> QED
  BY <1>1, <1>2, <1>3 DEF PmqInd

\* Main creates the sender of pair i.
LEMMA PmqCreateSenderStep ==
  ASSUME PmqInd, Pmq!CreateSender
  PROVE  PmqInd'
<1>1. PmqTypeInv'
  BY PmqPairsAreNumbers DEF PmqInd, PmqTypeInv, Pmq!Reporting, Pmq!CreateSender
<1>2. PmqUnborn'
  BY PmqPairsAreNumbers DEF PmqInd, PmqTypeInv, PmqUnborn, Pmq!CreateSender
<1>3. PmqOneBaton'
  BY PmqPairsAreNumbers DEF PmqInd, PmqTypeInv, PmqUnborn, PmqOneBaton, PmqBaton, PmqInSync,
     PmqWithSender, PmqInTest, PmqWithReceiver, Pmq!Reporting, Pmq!CreateSender
<1> QED
  BY <1>1, <1>2, <1>3 DEF PmqInd

\* Main sees the flag of a thread.
LEMMA PmqReportStep ==
  ASSUME PmqInd, Pmq!Report
  PROVE  PmqInd'
<1>1. PmqTypeInv'
  BY PmqPairsAreNumbers DEF PmqInd, PmqTypeInv, Pmq!Reporting, Pmq!Report
<1>2. PmqUnborn'
  BY PmqPairsAreNumbers DEF PmqInd, PmqTypeInv, PmqUnborn, Pmq!Report
<1>3. PmqOneBaton'
  BY PmqPairsAreNumbers DEF PmqInd, PmqTypeInv, PmqUnborn, PmqOneBaton, PmqBaton, PmqInSync,
     PmqWithSender, PmqInTest, PmqWithReceiver, Pmq!Reporting, Pmq!Report
<1> QED
  BY <1>1, <1>2, <1>3 DEF PmqInd

\* Main stops the pairs.
LEMMA PmqStopPairsStep ==
  ASSUME PmqInd, Pmq!StopPairs
  PROVE  PmqInd'
<1>1. PmqTypeInv'
  BY PmqPairsAreNumbers DEF PmqInd, PmqTypeInv, Pmq!Reporting, Pmq!StopPairs
<1>2. PmqUnborn'
  BY PmqPairsAreNumbers DEF PmqInd, PmqTypeInv, PmqUnborn, Pmq!StopPairs
<1>3. PmqOneBaton'
  BY PmqPairsAreNumbers DEF PmqInd, PmqTypeInv, PmqUnborn, PmqOneBaton, PmqBaton, PmqInSync,
     PmqWithSender, PmqInTest, PmqWithReceiver, Pmq!Reporting, Pmq!StopPairs
<1> QED
  BY <1>1, <1>2, <1>3 DEF PmqInd

\* Main returns.
LEMMA PmqCloseStep ==
  ASSUME PmqInd, Pmq!Close
  PROVE  PmqInd'
<1>1. PmqTypeInv'
  BY DEF PmqInd, PmqTypeInv, Pmq!Reporting, Pmq!Close
<1>2. PmqUnborn'
  BY DEF PmqInd, PmqTypeInv, PmqUnborn, Pmq!Close
<1>3. PmqOneBaton'
  BY DEF PmqInd, PmqTypeInv, PmqUnborn, PmqOneBaton, PmqBaton, PmqInSync, PmqWithSender,
     PmqInTest, PmqWithReceiver, Pmq!Reporting, Pmq!Close
<1> QED
  BY <1>1, <1>2, <1>3 DEF PmqInd

\* SIGINT sets the flag of main.
LEMMA PmqSigintStep ==
  ASSUME PmqInd, Pmq!Sigint
  PROVE  PmqInd'
<1>1. PmqTypeInv'
  BY DEF PmqInd, PmqTypeInv, Pmq!Reporting, Pmq!Sigint
<1>2. PmqUnborn'
  BY DEF PmqInd, PmqTypeInv, PmqUnborn, Pmq!Sigint
<1>3. PmqOneBaton'
  BY DEF PmqInd, PmqTypeInv, PmqUnborn, PmqOneBaton, PmqBaton, PmqInSync, PmqWithSender,
     PmqInTest, PmqWithReceiver, Pmq!Reporting, Pmq!Sigint
<1> QED
  BY <1>1, <1>2, <1>3 DEF PmqInd

\* Nothing happens.
LEMMA PmqStutterStep ==
  ASSUME PmqInd, UNCHANGED Pmq!vars
  PROVE  PmqInd'
  BY DEF PmqInd, PmqTypeInv, PmqUnborn, PmqOneBaton, PmqBaton, PmqInSync, PmqWithSender,
     PmqInTest, PmqWithReceiver, Pmq!vars

\* The invariant is inductive.
THEOREM PmqInvariance == Pmq!Spec => []PmqInd
<1>1. PmqInd /\ [Pmq!Next]_(Pmq!vars) => PmqInd'
  <2> SUFFICES ASSUME PmqInd, [Pmq!Next]_(Pmq!vars)
               PROVE  PmqInd'
    OBVIOUS
  <2>1. CASE \E n \in Pmq!Pairs : Pmq!SenderStep(n) \/ Pmq!ReceiverStep(n)
    BY <2>1, PmqSenderTopStep, PmqDelayStep, PmqStampStep, PmqSendTestStep,
       PmqSenderCountStep, PmqTimedReceiveSyncStep, PmqReceiveSyncStep, PmqReceiverTopStep,
       PmqReceiveTestStep, PmqReceiveTimeoutStep, PmqMeasureStep, PmqSendSyncStep
       DEF Pmq!SenderStep, Pmq!ReceiverStep
  <2>2. CASE Pmq!MainStep
    BY <2>2, PmqCreateReceiverStep, PmqCreateSenderStep, PmqReportStep, PmqStopPairsStep,
       PmqCloseStep DEF Pmq!MainStep
  <2> QED
    BY <2>1, <2>2, PmqSigintStep, PmqStutterStep DEF Pmq!Next, Pmq!Terminated
<1> QED
  BY <1>1, PmqIndInit, PTL DEF Pmq!Spec

-----------------------------------------------------------------------------
(* The refinement of pmqtest *)

\* The promise to pair n holds.
PmqOpen(n) == mpc \in Pmq!Reporting /\ n \notin stale \cup timedout

\* The promise to a pair ends when its receiver times out or main leaves its loop.
LEMMA PmqEndOfPromise ==
  ASSUME UNCHANGED <<sent, rsamples>>, \A n \in Pmq!Pairs : PmqOpen(n)' => PmqOpen(n)
  PROVE  Pmq!Abstract!Close
<1> DEFINE open == [n \in Pmq!Pairs |-> IF mpc \in Pmq!Reporting /\ n \notin stale \cup timedout
                                   THEN 1 ELSE 0]
           open2 == [n \in Pmq!Pairs |-> IF mpc' \in Pmq!Reporting /\ n \notin stale' \cup timedout'
                                    THEN 1 ELSE 0]
           ps == {n \in Pmq!Pairs : ~PmqOpen(n)'}
<1>1. open2 = [n \in Pmq!Pairs |-> IF n \in ps THEN 0 ELSE open[n]]
  BY DEF PmqOpen
<1>2. ps \in SUBSET Pmq!Pairs
  OBVIOUS
<1> QED
  BY <1>1, <1>2 DEF Pmq!Abstract!Close

\* A step of a pair that nothing is promised to any more.
LEMMA PmqDrainStep ==
  ASSUME PmqTypeInv, PmqTypeInv', NEW n \in Pmq!Pairs, ~PmqOpen(n), UNCHANGED <<mpc, stale, timedout>>,
         \A m \in Pmq!Pairs \ {n} : rsamples'[m] = rsamples[m] /\ sent'[m] = sent[m]
  PROVE  Pmq!Abstract!Drain
  BY DEF PmqTypeInv, PmqOpen, Pmq!Abstract!Drain

\* pmqtest implements PingPong: while main reports, a stamp is made after the last one was
\* measured and measured once, of every pair that found its queues empty and whose receiver
\* has not timed out.
THEOREM PmqImplementsPingPong == Pmq!Spec => Pmq!EveryLatencyItsEvent
<1>1. Pmq!Init => Pmq!Abstract!Init
  BY DEF Pmq!Init, Pmq!Abstract!Init
<1>2. PmqInd /\ PmqInd' /\ [Pmq!Next]_(Pmq!vars) => [Pmq!Abstract!Next]_(Pmq!Abstract!vars)
  <2> SUFFICES ASSUME PmqInd, PmqInd', [Pmq!Next]_(Pmq!vars)
               PROVE  Pmq!Abstract!Next \/ UNCHANGED Pmq!Abstract!vars
    OBVIOUS
  <2> USE DEF Pmq!Abstract!vars
  <2>1. ASSUME NEW n \in Pmq!Pairs, Pmq!Stamp(n)
        PROVE  Pmq!Abstract!Next
    <3>1. CASE PmqOpen(n)
      <4>1. sent[n] = rsamples[n]
        BY <2>1, <3>1 DEF PmqInd, PmqTypeInv, PmqOneBaton, PmqBaton, PmqInSync, PmqWithSender,
           PmqInTest, PmqWithReceiver, Pmq!Stamp, PmqOpen
      <4>2. Pmq!Abstract!Send(n)
        BY <2>1, <4>1 DEF Pmq!Stamp, Pmq!Abstract!Send
      <4> QED
        BY <4>2 DEF Pmq!Abstract!Next
    <3>2. CASE ~PmqOpen(n)
      <4>1. /\ UNCHANGED <<mpc, stale, timedout, rsamples>>
            /\ \A m \in Pmq!Pairs \ {n} : sent'[m] = sent[m]
        BY <2>1 DEF Pmq!Stamp, PmqInd, PmqTypeInv
      <4> QED
        BY <3>2, <4>1, PmqDrainStep DEF PmqInd, Pmq!Abstract!Next
    <3> QED
      BY <3>1, <3>2
  <2>2. ASSUME NEW n \in Pmq!Pairs, Pmq!Measure(n)
        PROVE  Pmq!Abstract!Next
    <3>1. CASE PmqOpen(n)
      <4>1. rsamples[n] < sent[n]
        BY <2>2, <3>1 DEF PmqInd, PmqTypeInv, PmqOneBaton, PmqBaton, PmqInSync, PmqWithSender,
           PmqInTest, PmqWithReceiver, Pmq!Measure, PmqOpen
      <4>2. Pmq!Abstract!Receive(n)
        BY <2>2, <4>1 DEF Pmq!Measure, Pmq!Abstract!Receive
      <4> QED
        BY <4>2 DEF Pmq!Abstract!Next
    <3>2. CASE ~PmqOpen(n)
      <4>1. /\ UNCHANGED <<mpc, stale, timedout, sent>>
            /\ \A m \in Pmq!Pairs \ {n} : rsamples'[m] = rsamples[m]
        BY <2>2 DEF Pmq!Measure, PmqInd, PmqTypeInv
      <4> QED
        BY <3>2, <4>1, PmqDrainStep DEF PmqInd, Pmq!Abstract!Next
    <3> QED
      BY <3>1, <3>2
  <2>3. ASSUME NEW n \in Pmq!Pairs, Pmq!ReceiveTimeout(n)
        PROVE  Pmq!Abstract!Next
    BY <2>3, PmqEndOfPromise DEF Pmq!ReceiveTimeout, PmqOpen, Pmq!Abstract!Next
  <2>4. ASSUME Pmq!StopPairs
        PROVE  Pmq!Abstract!Next
    BY <2>4, PmqEndOfPromise DEF Pmq!StopPairs, PmqOpen, Pmq!Reporting, Pmq!Abstract!Next
  <2>5. ASSUME NEW n \in Pmq!Pairs,
               \/ Pmq!SenderTop(n) \/ Pmq!Delay(n) \/ Pmq!SendTest(n) \/ Pmq!SenderCount(n)
               \/ Pmq!TimedReceiveSync(n) \/ Pmq!ReceiveSync(n)
               \/ Pmq!ReceiverTop(n) \/ Pmq!ReceiveTest(n) \/ Pmq!SendSync(n)
        PROVE  UNCHANGED Pmq!Abstract!vars
    BY <2>5 DEF Pmq!SenderTop, Pmq!Delay, Pmq!SendTest, Pmq!SenderCount, Pmq!TimedReceiveSync,
       Pmq!ReceiveSync, Pmq!ReceiverTop, Pmq!ReceiveTest, Pmq!SendSync
  <2>6. ASSUME Pmq!CreateReceiver \/ Pmq!CreateSender \/ Pmq!Report \/ Pmq!Close \/ Pmq!Sigint
        PROVE  UNCHANGED Pmq!Abstract!vars
    BY <2>6 DEF Pmq!CreateReceiver, Pmq!CreateSender, Pmq!Report, Pmq!Close, Pmq!Sigint,
       Pmq!Reporting
  <2>7. ASSUME UNCHANGED Pmq!vars
        PROVE  UNCHANGED Pmq!Abstract!vars
    BY <2>7 DEF Pmq!vars
  <2> QED
    BY <2>1, <2>2, <2>3, <2>4, <2>5, <2>6, <2>7 DEF Pmq!Next, Pmq!SenderStep,
       Pmq!ReceiverStep, Pmq!MainStep, Pmq!Terminated
<1> QED
  BY <1>1, <1>2, PmqInvariance, PTL DEF Pmq!Spec, Pmq!EveryLatencyItsEvent, Pmq!Abstract!Spec

-----------------------------------------------------------------------------
(* The inductive invariant of sigwaittest *)

\* The types of the variables that the promise depends on.
SigTypeInv ==
  /\ spc \in [Sig!Pairs -> {"unborn", "forked", "top", "stamp", "kill", "count", "wait",
                        "stopped", "killed"}]
  /\ rpc \in [Sig!Pairs -> {"unborn", "forked", "top", "wait", "measure", "reply", "stopped",
                        "killed"}]
  /\ mpc \in Sig!Reporting \cup {"terminate", "exit", "failed", "killed", "astray"}
  /\ usr1 \in [Sig!Pairs -> {0, 1}] /\ usr2 \in [Sig!Pairs -> {0, 1}]
  /\ rsamples \in [Sig!Pairs -> Nat] /\ sent \in [Sig!Pairs -> Nat]
  /\ i \in Sig!Pairs

\* The threads main has not created yet.
SigUnborn ==
  /\ mpc = "receiver" => \A n \in Sig!Pairs : n >= i => spc[n] = "unborn" /\ rpc[n] = "unborn"
  /\ mpc = "sender" =>
       /\ spc[i] = "unborn"
       /\ \A n \in Sig!Pairs : n > i => spc[n] = "unborn" /\ rpc[n] = "unborn"

\* The permission to go on is with the sender, in a pending SIGUSR2, with the receiver or
\* in a pending SIGUSR1; it is lost with a receiver that SIGUSR2 has killed.  A sender
\* that main has not created has it.
SigWithSender(n)   == spc[n] \in {"unborn", "forked", "top", "stamp", "kill", "stopped"}
SigInUsr2(n)       == usr2[n] = 1
SigWithReceiver(n) == rpc[n] \in {"measure", "reply"}
SigInUsr1(n)       == usr1[n] = 1
SigLost(n)         == rpc[n] = "killed"

\* There is at most one permission, and a stamp is not measured yet exactly while it
\* travels from the sender to the receiver, or is lost.
SigBaton(n) ==
  /\ SigWithSender(n) => ~SigInUsr2(n) /\ ~SigWithReceiver(n) /\ ~SigInUsr1(n) /\ ~SigLost(n)
  /\ SigInUsr2(n) => ~SigWithReceiver(n) /\ ~SigInUsr1(n) /\ ~SigLost(n)
  /\ SigInUsr1(n) => ~SigWithReceiver(n) /\ ~SigLost(n)
  /\ sent[n] = IF spc[n] = "kill" \/ SigInUsr2(n) \/ rpc[n] = "measure" \/ SigLost(n)
               THEN rsamples[n] + 1 ELSE rsamples[n]

\* The promise is open while main reports.
SigOneBaton == mpc \in Sig!Reporting => \A n \in Sig!Pairs : SigBaton(n)

SigInd == SigTypeInv /\ SigUnborn /\ SigOneBaton

-----------------------------------------------------------------------------
(* The steps of sigwaittest *)

USE DEF Sig!Sender, Sig!Receiver, Sig!Main, Sig!signalVars, Sig!pidVars, Sig!flagVars,
        Sig!sampleVars, Sig!mainVars, Sig!envVars

\* Pairs are numbered from 0.
LEMMA SigPairsAreNumbers ==
  /\ NThreads \in Nat /\ NThreads >= 1
  /\ \A n : n \in Sig!Pairs <=> n \in Nat /\ n < NThreads
  BY ConstantsAssumption DEF Sig!Pairs

\* The invariant holds before the first pair.
LEMMA SigIndInit == Sig!Init => SigInd
<1> SUFFICES ASSUME Sig!Init
             PROVE  SigInd
  OBVIOUS
<1>1. SigTypeInv
  BY SigPairsAreNumbers DEF Sig!Init, SigTypeInv, Sig!Reporting
<1>2. SigUnborn
  BY DEF Sig!Init, SigUnborn
<1>3. SigOneBaton
  BY DEF Sig!Init, SigTypeInv, SigOneBaton, SigBaton, SigInUsr1, SigWithSender, SigInUsr2,
     SigWithReceiver, SigLost
<1> QED
  BY <1>1, <1>2, <1>3 DEF SigInd

\* The child becomes the sender.
LEMMA SigSenderExecStep ==
  ASSUME SigInd, NEW n \in Sig!Pairs, Sig!SenderExec(n)
  PROVE  SigInd'
<1>1. SigTypeInv'
  BY DEF SigInd, SigTypeInv, Sig!Reporting, Sig!SenderExec
<1>2. SigUnborn'
  BY DEF SigInd, SigTypeInv, SigUnborn, Sig!SenderExec
<1>3. SigOneBaton'
  BY DEF SigInd, SigTypeInv, SigUnborn, SigOneBaton, SigBaton, SigWithSender, SigInUsr2,
     SigWithReceiver, SigInUsr1, SigLost, Sig!Reporting, Sig!SenderExec
<1> QED
  BY <1>1, <1>2, <1>3 DEF SigInd

\* The sender looks at shutdown.
LEMMA SigSenderTopStep ==
  ASSUME SigInd, NEW n \in Sig!Pairs, Sig!SenderTop(n)
  PROVE  SigInd'
<1>1. SigTypeInv'
  BY DEF SigInd, SigTypeInv, Sig!Reporting, Sig!SenderTop
<1>2. SigUnborn'
  BY DEF SigInd, SigTypeInv, SigUnborn, Sig!SenderTop
<1>3. SigOneBaton'
  BY DEF SigInd, SigTypeInv, SigUnborn, SigOneBaton, SigBaton, SigWithSender, SigInUsr2,
     SigWithReceiver, SigInUsr1, SigLost, Sig!Reporting, Sig!SenderTop
<1> QED
  BY <1>1, <1>2, <1>3 DEF SigInd

\* The sender stamps while it has the baton.
LEMMA SigStampStep ==
  ASSUME SigInd, NEW n \in Sig!Pairs, Sig!Stamp(n)
  PROVE  SigInd'
<1>1. SigTypeInv'
  BY DEF SigInd, SigTypeInv, Sig!Reporting, Sig!Stamp
<1>2. SigUnborn'
  BY DEF SigInd, SigTypeInv, SigUnborn, Sig!Stamp
<1>3. SigOneBaton'
  BY DEF SigInd, SigTypeInv, SigUnborn, SigOneBaton, SigBaton, SigWithSender, SigInUsr2,
     SigWithReceiver, SigInUsr1, SigLost, Sig!Reporting, Sig!Stamp
<1> QED
  BY <1>1, <1>2, <1>3 DEF SigInd

\* The sender sends SIGUSR2, and the baton with it.
LEMMA SigSendUsr2Step ==
  ASSUME SigInd, NEW n \in Sig!Pairs, Sig!SendUsr2(n)
  PROVE  SigInd'
<1>1. SigTypeInv'
  BY DEF SigInd, SigTypeInv, Sig!Reporting, Sig!SendUsr2, Sig!Ended
<1>2. SigUnborn'
  BY DEF SigInd, SigTypeInv, SigUnborn, Sig!SendUsr2, Sig!Ended
<1>3. SigOneBaton'
  BY DEF SigInd, SigTypeInv, SigUnborn, SigOneBaton, SigBaton, SigWithSender, SigInUsr2,
     SigWithReceiver, SigInUsr1, SigLost, Sig!Reporting, Sig!SendUsr2, Sig!Ended
<1> QED
  BY <1>1, <1>2, <1>3 DEF SigInd

\* A child that cannot become a sender or a receiver goes astray.
LEMMA SigExecFailsStep ==
  ASSUME SigInd, NEW n \in Sig!Pairs, Sig!ExecFails(n)
  PROVE  SigInd'
<1>1. SigTypeInv'
  BY DEF SigInd, SigTypeInv, Sig!ExecFails
<1>2. SigUnborn' /\ SigOneBaton'
  BY DEF SigUnborn, SigOneBaton, Sig!Reporting, Sig!ExecFails
<1> QED
  BY <1>1, <1>2 DEF SigInd

\* SIGUSR2 kills a receiver, or the program: the baton is lost.
LEMMA SigSendUsr2UnblockedStep ==
  ASSUME SigInd, NEW n \in Sig!Pairs, Sig!SendUsr2Unblocked(n)
  PROVE  SigInd'
<1>1. SigTypeInv'
  BY DEF SigInd, SigTypeInv, Sig!Reporting, Sig!SendUsr2Unblocked, Sig!Ended, Sig!Returned
<1>2. SigUnborn'
  BY DEF SigInd, SigTypeInv, SigUnborn, SigOneBaton, SigBaton, SigWithSender, Sig!Reporting,
     Sig!SendUsr2Unblocked, Sig!Ended, Sig!Returned
<1>3. SigOneBaton'
  BY DEF SigInd, SigTypeInv, SigUnborn, SigOneBaton, SigBaton, SigWithSender, SigInUsr2,
     SigWithReceiver, SigInUsr1, SigLost, Sig!Reporting, Sig!SendUsr2Unblocked, Sig!Ended, Sig!Returned
<1> QED
  BY <1>1, <1>2, <1>3 DEF SigInd

\* The sender counts its signal.
LEMMA SigCountStep ==
  ASSUME SigInd, NEW n \in Sig!Pairs, Sig!Count(n)
  PROVE  SigInd'
<1>1. SigTypeInv'
  BY DEF SigInd, SigTypeInv, Sig!Reporting, Sig!Count
<1>2. SigUnborn'
  BY DEF SigInd, SigTypeInv, SigUnborn, Sig!Count
<1>3. SigOneBaton'
  BY DEF SigInd, SigTypeInv, SigUnborn, SigOneBaton, SigBaton, SigWithSender, SigInUsr2,
     SigWithReceiver, SigInUsr1, SigLost, Sig!Reporting, Sig!Count
<1> QED
  BY <1>1, <1>2, <1>3 DEF SigInd

\* The sender takes SIGUSR1, and the baton.
LEMMA SigWaitUsr1Step ==
  ASSUME SigInd, NEW n \in Sig!Pairs, Sig!WaitUsr1(n)
  PROVE  SigInd'
<1>1. SigTypeInv'
  BY DEF SigInd, SigTypeInv, Sig!Reporting, Sig!WaitUsr1
<1>2. SigUnborn'
  BY DEF SigInd, SigTypeInv, SigUnborn, Sig!WaitUsr1
<1>3. SigOneBaton'
  BY DEF SigInd, SigTypeInv, SigUnborn, SigOneBaton, SigBaton, SigWithSender, SigInUsr2,
     SigWithReceiver, SigInUsr1, SigLost, Sig!Reporting, Sig!WaitUsr1
<1> QED
  BY <1>1, <1>2, <1>3 DEF SigInd

\* The child becomes the receiver.
LEMMA SigReceiverExecStep ==
  ASSUME SigInd, NEW n \in Sig!Pairs, Sig!ReceiverExec(n)
  PROVE  SigInd'
<1>1. SigTypeInv'
  BY DEF SigInd, SigTypeInv, Sig!Reporting, Sig!ReceiverExec
<1>2. SigUnborn'
  BY DEF SigInd, SigTypeInv, SigUnborn, Sig!ReceiverExec
<1>3. SigOneBaton'
  BY DEF SigInd, SigTypeInv, SigUnborn, SigOneBaton, SigBaton, SigWithSender, SigInUsr2,
     SigWithReceiver, SigInUsr1, SigLost, Sig!Reporting, Sig!ReceiverExec
<1> QED
  BY <1>1, <1>2, <1>3 DEF SigInd

\* The receiver looks at shutdown.
LEMMA SigReceiverTopStep ==
  ASSUME SigInd, NEW n \in Sig!Pairs, Sig!ReceiverTop(n)
  PROVE  SigInd'
<1>1. SigTypeInv'
  BY DEF SigInd, SigTypeInv, Sig!Reporting, Sig!ReceiverTop
<1>2. SigUnborn'
  BY DEF SigInd, SigTypeInv, SigUnborn, Sig!ReceiverTop
<1>3. SigOneBaton'
  BY DEF SigInd, SigTypeInv, SigUnborn, SigOneBaton, SigBaton, SigWithSender, SigInUsr2,
     SigWithReceiver, SigInUsr1, SigLost, Sig!Reporting, Sig!ReceiverTop
<1> QED
  BY <1>1, <1>2, <1>3 DEF SigInd

\* The receiver takes SIGUSR2, and the baton.
LEMMA SigWaitUsr2Step ==
  ASSUME SigInd, NEW n \in Sig!Pairs, Sig!WaitUsr2(n)
  PROVE  SigInd'
<1>1. SigTypeInv'
  BY DEF SigInd, SigTypeInv, Sig!Reporting, Sig!WaitUsr2
<1>2. SigUnborn'
  BY DEF SigInd, SigTypeInv, SigUnborn, Sig!WaitUsr2
<1>3. SigOneBaton'
  BY DEF SigInd, SigTypeInv, SigUnborn, SigOneBaton, SigBaton, SigWithSender, SigInUsr2,
     SigWithReceiver, SigInUsr1, SigLost, Sig!Reporting, Sig!WaitUsr2
<1> QED
  BY <1>1, <1>2, <1>3 DEF SigInd

\* The receiver measures the stamp, which it has the baton for.
LEMMA SigMeasureStep ==
  ASSUME SigInd, NEW n \in Sig!Pairs, Sig!Measure(n)
  PROVE  SigInd'
<1>1. SigTypeInv'
  BY DEF SigInd, SigTypeInv, Sig!Reporting, Sig!Measure
<1>2. SigUnborn'
  BY DEF SigInd, SigTypeInv, SigUnborn, Sig!Measure
<1>3. SigOneBaton'
  BY DEF SigInd, SigTypeInv, SigUnborn, SigOneBaton, SigBaton, SigWithSender, SigInUsr2,
     SigWithReceiver, SigInUsr1, SigLost, Sig!Reporting, Sig!Measure
<1> QED
  BY <1>1, <1>2, <1>3 DEF SigInd

\* The receiver sends SIGUSR1, and the baton with it.
LEMMA SigSendUsr1Step ==
  ASSUME SigInd, NEW n \in Sig!Pairs, Sig!SendUsr1(n)
  PROVE  SigInd'
<1>1. SigTypeInv'
  BY DEF SigInd, SigTypeInv, Sig!Reporting, Sig!SendUsr1
<1>2. SigUnborn'
  BY DEF SigInd, SigTypeInv, SigUnborn, Sig!SendUsr1
<1>3. SigOneBaton'
  BY DEF SigInd, SigTypeInv, SigUnborn, SigOneBaton, SigBaton, SigWithSender, SigInUsr2,
     SigWithReceiver, SigInUsr1, SigLost, Sig!Reporting, Sig!SendUsr1
<1> QED
  BY <1>1, <1>2, <1>3 DEF SigInd

\* Main creates the receiver of pair i.
LEMMA SigCreateReceiverStep ==
  ASSUME SigInd, Sig!CreateReceiver
  PROVE  SigInd'
<1>1. SigTypeInv'
  BY SigPairsAreNumbers DEF SigInd, SigTypeInv, Sig!Reporting, Sig!CreateReceiver
<1>2. SigUnborn'
  BY SigPairsAreNumbers DEF SigInd, SigTypeInv, SigUnborn, Sig!CreateReceiver
<1>3. SigOneBaton'
  BY SigPairsAreNumbers DEF SigInd, SigTypeInv, SigUnborn, SigOneBaton, SigBaton,
     SigWithSender, SigInUsr2, SigWithReceiver, SigInUsr1, SigLost, Sig!Reporting,
     Sig!CreateReceiver
<1> QED
  BY <1>1, <1>2, <1>3 DEF SigInd

\* Main creates the sender of pair i.
LEMMA SigCreateSenderStep ==
  ASSUME SigInd, Sig!CreateSender
  PROVE  SigInd'
<1>1. SigTypeInv'
  BY SigPairsAreNumbers DEF SigInd, SigTypeInv, Sig!Reporting, Sig!CreateSender
<1>2. SigUnborn'
  BY SigPairsAreNumbers DEF SigInd, SigTypeInv, SigUnborn, Sig!CreateSender
<1>3. SigOneBaton'
  BY SigPairsAreNumbers DEF SigInd, SigTypeInv, SigUnborn, SigOneBaton, SigBaton,
     SigWithSender, SigInUsr2, SigWithReceiver, SigInUsr1, SigLost, Sig!Reporting,
     Sig!CreateSender
<1> QED
  BY <1>1, <1>2, <1>3 DEF SigInd

\* Main sees the flag of a thread.
LEMMA SigReportStep ==
  ASSUME SigInd, Sig!Report
  PROVE  SigInd'
<1>1. SigTypeInv'
  BY SigPairsAreNumbers DEF SigInd, SigTypeInv, Sig!Reporting, Sig!Report
<1>2. SigUnborn'
  BY SigPairsAreNumbers DEF SigInd, SigTypeInv, SigUnborn, Sig!Report
<1>3. SigOneBaton'
  BY SigPairsAreNumbers DEF SigInd, SigTypeInv, SigUnborn, SigOneBaton, SigBaton,
     SigWithSender, SigInUsr2, SigWithReceiver, SigInUsr1, SigLost, Sig!Reporting, Sig!Report
<1> QED
  BY <1>1, <1>2, <1>3 DEF SigInd

\* Main stops the pairs.
LEMMA SigStopPairsStep ==
  ASSUME SigInd, Sig!StopPairs
  PROVE  SigInd'
<1>1. SigTypeInv'
  BY SigPairsAreNumbers DEF SigInd, SigTypeInv, Sig!Reporting, Sig!StopPairs
<1>2. SigUnborn'
  BY SigPairsAreNumbers DEF SigInd, SigTypeInv, SigUnborn, Sig!StopPairs
<1>3. SigOneBaton'
  BY SigPairsAreNumbers DEF SigInd, SigTypeInv, SigUnborn, SigOneBaton, SigBaton,
     SigWithSender, SigInUsr2, SigWithReceiver, SigInUsr1, SigLost, Sig!Reporting,
     Sig!StopPairs
<1> QED
  BY <1>1, <1>2, <1>3 DEF SigInd

\* Main terminates the pairs and returns.
LEMMA SigTerminateStep ==
  ASSUME SigInd, Sig!Terminate
  PROVE  SigInd'
<1>1. SigTypeInv'
  BY SigPairsAreNumbers DEF SigInd, SigTypeInv, Sig!Reporting, Sig!Terminate
<1>2. SigUnborn'
  BY SigPairsAreNumbers DEF SigInd, SigTypeInv, SigUnborn, Sig!Terminate
<1>3. SigOneBaton'
  BY SigPairsAreNumbers DEF SigInd, SigTypeInv, SigUnborn, SigOneBaton, SigBaton,
     SigWithSender, SigInUsr2, SigWithReceiver, SigInUsr1, SigLost, Sig!Reporting,
     Sig!Terminate
<1> QED
  BY <1>1, <1>2, <1>3 DEF SigInd

\* A signal sets the flag of main.
LEMMA SigSighandStep ==
  ASSUME SigInd, Sig!Sighand
  PROVE  SigInd'
<1>1. SigTypeInv'
  BY DEF SigInd, SigTypeInv, Sig!Reporting, Sig!Returned, Sig!Sighand
<1>2. SigUnborn'
  BY DEF SigInd, SigTypeInv, SigUnborn, Sig!Sighand
<1>3. SigOneBaton'
  BY DEF SigInd, SigTypeInv, SigUnborn, SigOneBaton, SigBaton, SigWithSender, SigInUsr2,
     SigWithReceiver, SigInUsr1, SigLost, Sig!Reporting, Sig!Sighand
<1> QED
  BY <1>1, <1>2, <1>3 DEF SigInd


\* Nothing happens.
LEMMA SigStutterStep ==
  ASSUME SigInd, UNCHANGED Sig!vars
  PROVE  SigInd'
  BY DEF SigInd, SigTypeInv, SigUnborn, SigOneBaton, SigBaton, SigWithSender, SigInUsr2,
     SigWithReceiver, SigInUsr1, SigLost, Sig!vars

\* The invariant is inductive.
THEOREM SigInvariance == Sig!Spec => []SigInd
<1>1. SigInd /\ [Sig!Next]_(Sig!vars) => SigInd'
  <2> SUFFICES ASSUME SigInd, [Sig!Next]_(Sig!vars)
               PROVE  SigInd'
    OBVIOUS
  <2>1. CASE \E n \in Sig!Pairs : Sig!SenderStep(n) \/ Sig!ReceiverStep(n) \/ Sig!ExecFails(n)
    BY <2>1, SigSenderExecStep, SigSenderTopStep, SigStampStep, SigSendUsr2Step,
       SigSendUsr2UnblockedStep, SigCountStep, SigWaitUsr1Step, SigReceiverExecStep,
       SigReceiverTopStep, SigWaitUsr2Step, SigMeasureStep, SigSendUsr1Step, SigExecFailsStep
       DEF Sig!SenderStep, Sig!ReceiverStep
  <2>2. CASE Sig!MainStep
    BY <2>2, SigCreateReceiverStep, SigCreateSenderStep, SigReportStep, SigStopPairsStep,
       SigTerminateStep DEF Sig!MainStep
  <2> QED
    BY <2>1, <2>2, SigSighandStep, SigStutterStep DEF Sig!Next, Sig!Terminated
<1> QED
  BY <1>1, SigIndInit, PTL DEF Sig!Spec

-----------------------------------------------------------------------------
(* The refinement of sigwaittest *)

\* The promise to all pairs ends when a signal kills main or main leaves its loop.
LEMMA SigEndOfPromise ==
  ASSUME UNCHANGED <<sent, rsamples>>, mpc' \notin Sig!Reporting
  PROVE  Sig!Abstract!Close
<1> DEFINE open  == [n \in Sig!Pairs |-> IF mpc \in Sig!Reporting THEN 1 ELSE 0]
           open2 == [n \in Sig!Pairs |-> IF mpc' \in Sig!Reporting THEN 1 ELSE 0]
<1>1. open2 = [n \in Sig!Pairs |-> IF n \in Sig!Pairs THEN 0 ELSE open[n]]
  OBVIOUS
<1>2. Sig!Pairs \in SUBSET Sig!Pairs
  OBVIOUS
<1> QED
  BY <1>1, <1>2 DEF Sig!Abstract!Close

\* A step of a pair while nothing is promised any more.
LEMMA SigDrainStep ==
  ASSUME SigTypeInv, SigTypeInv', mpc \notin Sig!Reporting, UNCHANGED mpc
  PROVE  Sig!Abstract!Drain
  BY DEF SigTypeInv, Sig!Abstract!Drain

\* sigwaittest implements PingPong: while main reports, a stamp is made after the last one
\* was measured and measured once, for threads and for processes, although a signal that is
\* sent twice is pending once, and also where a receiver was not ready for its signal.
THEOREM SigImplementsPingPong == Sig!Spec => Sig!EveryLatencyItsEvent
<1>1. Sig!Init => Sig!Abstract!Init
  BY DEF Sig!Init, Sig!Abstract!Init
<1>2. SigInd /\ SigInd' /\ [Sig!Next]_(Sig!vars) => [Sig!Abstract!Next]_(Sig!Abstract!vars)
  <2> SUFFICES ASSUME SigInd, SigInd', [Sig!Next]_(Sig!vars)
               PROVE  Sig!Abstract!Next \/ UNCHANGED Sig!Abstract!vars
    OBVIOUS
  <2> USE DEF Sig!Abstract!vars
  <2>1. ASSUME NEW n \in Sig!Pairs, Sig!Stamp(n)
        PROVE  Sig!Abstract!Next
    <3>1. CASE mpc \in Sig!Reporting
      <4>1. sent[n] = rsamples[n]
        BY <2>1, <3>1 DEF SigInd, SigTypeInv, SigOneBaton, SigBaton, SigInUsr1, SigWithSender,
           SigInUsr2, SigWithReceiver, SigLost, Sig!Stamp
      <4>2. Sig!Abstract!Send(n)
        BY <2>1, <4>1 DEF Sig!Stamp, Sig!Abstract!Send
      <4> QED
        BY <4>2 DEF Sig!Abstract!Next
    <3>2. CASE mpc \notin Sig!Reporting
      BY <2>1, <3>2, SigDrainStep DEF SigInd, Sig!Stamp, Sig!Abstract!Next
    <3> QED
      BY <3>1, <3>2
  <2>2. ASSUME NEW n \in Sig!Pairs, Sig!Measure(n)
        PROVE  Sig!Abstract!Next
    <3>1. CASE mpc \in Sig!Reporting
      <4>1. rsamples[n] < sent[n]
        BY <2>2, <3>1 DEF SigInd, SigTypeInv, SigOneBaton, SigBaton, SigInUsr1, SigWithSender,
           SigInUsr2, SigWithReceiver, SigLost, Sig!Measure
      <4>2. Sig!Abstract!Receive(n)
        BY <2>2, <4>1 DEF Sig!Measure, Sig!Abstract!Receive
      <4> QED
        BY <4>2 DEF Sig!Abstract!Next
    <3>2. CASE mpc \notin Sig!Reporting
      BY <2>2, <3>2, SigDrainStep DEF SigInd, Sig!Measure, Sig!Abstract!Next
    <3> QED
      BY <3>1, <3>2
  <2>3. ASSUME NEW n \in Sig!Pairs, Sig!SendUsr2Unblocked(n)
        PROVE  Sig!Abstract!Next \/ UNCHANGED Sig!Abstract!vars
    <3>1. CASE mustfork /\ rpid[n] = "receiver"
      BY <2>3, <3>1 DEF Sig!SendUsr2Unblocked
    <3>2. CASE ~(mustfork /\ rpid[n] = "receiver")
      <4>1. UNCHANGED <<sent, rsamples>> /\ mpc' \notin Sig!Reporting
        BY <2>3, <3>2 DEF Sig!SendUsr2Unblocked, Sig!Reporting, Sig!Returned
      <4> QED
        BY <4>1, SigEndOfPromise DEF Sig!Abstract!Next
    <3> QED
      BY <3>1, <3>2
  <2>4. ASSUME Sig!StopPairs \/ \E n \in Sig!Pairs : Sig!ExecFails(n)
        PROVE  Sig!Abstract!Next
    BY <2>4, SigEndOfPromise DEF Sig!StopPairs, Sig!ExecFails, Sig!Reporting, Sig!Abstract!Next
  <2>5. ASSUME NEW n \in Sig!Pairs,
               \/ Sig!SenderExec(n) \/ Sig!SenderTop(n) \/ Sig!SendUsr2(n) \/ Sig!Count(n) \/ Sig!WaitUsr1(n)
               \/ Sig!ReceiverExec(n) \/ Sig!ReceiverTop(n) \/ Sig!WaitUsr2(n) \/ Sig!SendUsr1(n)
        PROVE  UNCHANGED Sig!Abstract!vars
    BY <2>5 DEF Sig!SenderExec, Sig!SenderTop, Sig!SendUsr2, Sig!Count, Sig!WaitUsr1,
       Sig!ReceiverExec, Sig!ReceiverTop, Sig!WaitUsr2, Sig!SendUsr1
  <2>6. ASSUME Sig!Report \/ Sig!Terminate \/ Sig!Sighand
        PROVE  UNCHANGED Sig!Abstract!vars
    BY <2>6 DEF Sig!Report, Sig!Terminate, Sig!Sighand, Sig!Reporting
  <2>7. ASSUME Sig!CreateReceiver \/ Sig!CreateSender
        PROVE  Sig!Abstract!Next \/ UNCHANGED Sig!Abstract!vars
    <3>1. UNCHANGED <<sent, rsamples>>
      BY <2>7 DEF Sig!CreateReceiver, Sig!CreateSender
    <3>2. CASE mpc' = "failed"
      BY <3>1, <3>2, SigEndOfPromise DEF Sig!Reporting, Sig!Abstract!Next
    <3>3. CASE mpc' # "failed"
      <4>1. mpc \in Sig!Reporting /\ mpc' \in Sig!Reporting
        BY <2>7, <3>3 DEF Sig!CreateReceiver, Sig!CreateSender, Sig!Reporting
      <4> QED
        BY <3>1, <4>1
    <3> QED
      BY <3>2, <3>3
  <2>8. ASSUME UNCHANGED Sig!vars
        PROVE  UNCHANGED Sig!Abstract!vars
    BY <2>8 DEF Sig!vars
  <2> QED
    BY <2>1, <2>2, <2>3, <2>4, <2>5, <2>6, <2>7, <2>8 DEF Sig!Next, Sig!SenderStep,
       Sig!ReceiverStep, Sig!MainStep, Sig!Terminated
<1> QED
  BY <1>1, <1>2, SigInvariance, PTL DEF Sig!Spec, Sig!EveryLatencyItsEvent, Sig!Abstract!Spec
=============================================================================

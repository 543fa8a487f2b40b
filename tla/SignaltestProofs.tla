-------------------------- MODULE SignaltestProofs --------------------------
(***************************************************************************)
(* Proofs about Signaltest for any number of threads and of loops, and any *)
(* size of the buffer: one signal goes round, however the run is stopped,  *)
(* and main prints what thread 0 has stored.                               *)
(***************************************************************************)
EXTENDS Signaltest, TLAPS

-----------------------------------------------------------------------------
(* The inductive invariant *)

\* The types of the variables.
TypeInv ==
  /\ pc \in [Threads -> {"unborn", "born", "failed", "top", "sigwait", "send", "measure",
                         "store", "ended", "joined"}]
  /\ mpc \in {"create", "start", "kick", "loop", "print", "check", "outall", "settle",
              "reap", "exit", "crashed"}
  /\ pending \in [Threads -> BOOLEAN] /\ first \in [Threads -> BOOLEAN]
  /\ tothread \in [Threads -> Threads \cup {Nobody}]
  /\ before \in [Threads -> Nat] /\ diff \in [Threads -> Int]
  /\ act \in [Threads -> Int] /\ cycles \in [Threads -> Nat]
  /\ values \in [0 .. (ValbufSize - 1) -> Int] /\ cyclesread \in Nat
  /\ line \in [c : Nat, v : Int, ahead : Int]
  /\ i \in Nat /\ hops \in Nat

\* The signal is at thread n, or thread n is about to pass it on.
Holds(n) == pending[n] \/ pc[n] = "send"

Successor(n) == IF n + 1 < NumThreads THEN n + 1 ELSE 0

\* Nobody has the signal before main's first pthread_kill(), and later at most one
\* thread has it, once; a ring is complete or was never linked.
Ring ==
  /\ mpc = "create" => i < NumThreads /\ \A n \in Threads : n >= i => pc[n] = "unborn"
  /\ mpc \in {"create", "start", "kick"} => \A n \in Threads : ~Holds(n) /\ first[n]
  /\ \A m, n \in Threads : Holds(m) /\ Holds(n) => m = n
  /\ \A n \in Threads : ~(pending[n] /\ pc[n] = "send")
  /\ \/ \A n \in Threads : tothread[n] = Nobody
     \/ \A n \in Threads : tothread[n] = Successor(n)

\* The hops from thread n to thread m, all around from a thread to itself.
Distance(n, m) == IF m > n THEN m - n ELSE m - n + NumThreads

\* While the signal is under way, every thread that has passed it on knows from its
\* stamp how far it has come since.
Trip ==
  /\ \A n \in Threads : pc[n] \in {"unborn", "born", "failed"} => first[n]
  /\ \A m, n \in Threads : Holds(m) /\ ~first[n] => hops - before[n] = Distance(n, m)
  /\ \A n \in Threads : pc[n] = "send" /\ ~first[n] => diff[n] = NumThreads
  /\ \A n \in Threads : pc[n] = "measure" => diff[n] = NumThreads
  /\ EveryLatencyOneRound

\* The last values of thread 0 are in their slots, except the one it is storing, and
\* nothing is stored with the number 0.
Buffer ==
  /\ cyclesread <= cycles[0]
  /\ pc[0] = "store" => cycles[0] > 0
  /\ \A k \in Nat :
       cycles[0] - ValbufSize < k /\ k <= cycles[0] /\ ~(pc[0] = "store" /\ k = cycles[0]) =>
         values[k % ValbufSize] = Shown(k)
  /\ OutputFaithful

Ind == TypeInv /\ Ring /\ Trip /\ Buffer

-----------------------------------------------------------------------------
(* Arithmetic *)

\* Threads are numbered from 0, and there are two at least.
LEMMA ThreadsAreNumbers ==
  /\ NumThreads \in Nat /\ NumThreads >= 2
  /\ \A n : n \in Threads <=> n \in Nat /\ n < NumThreads
  /\ Nobody \notin Threads
  /\ 0 \in Threads
  BY ConstantsAssumption DEF Threads, Nobody

\* A number is a multiple of the divisor and its remainder.
LEMMA Division ==
  ASSUME NEW v \in Nat, v >= 1, NEW a \in Int
  PROVE  \E q \in Int, r \in Int : r = a % v /\ a = (q * v) + r
<1>1. a \div v \in Int /\ a % v \in Int
  BY SMT
<1>2. a = ((a \div v) * v) + (a % v)
  BY SMT
<1> QED
  BY <1>1, <1>2

\* Two numbers with the same remainder are the same, or a whole divisor apart.
LEMMA SameRemainder ==
  ASSUME NEW v \in Nat, v >= 1, NEW a \in Int, NEW b \in Int,
         a % v = b % v, a - b < v, b - a < v
  PROVE  a = b
<1>1. PICK p \in Int, r \in Int : r = a % v /\ a = (p * v) + r
  BY Division, Zenon
<1>2. PICK q \in Int, s \in Int : s = b % v /\ b = (q * v) + s
  BY Division, Zenon
<1>3. s = r
  BY <1>1, <1>2, Zenon
<1>4. PICK x \in Int : x = p * v
  BY SMT
<1>5. PICK y \in Int : y = q * v
  BY SMT
<1>6. PICK d \in Int : d = p - q
  BY SMT
<1>7. d * v = x - y
  BY <1>4, <1>5, <1>6, SMT
<1>8. (d >= 1 => d * v >= v) /\ (d <= -1 => d * v <= -v)
  BY SMT
<1>9. x - y < v /\ y - x < v
  BY <1>1, <1>2, <1>3, <1>4, <1>5, SMT
<1>10. d = 0
  BY <1>7, <1>8, <1>9, SMT
<1> QED
  BY <1>1, <1>2, <1>3, <1>6, <1>10, SMT

\* A remainder is an index of the buffer.
LEMMA RemainderRange ==
  ASSUME NEW k \in Nat
  PROVE  k % ValbufSize \in 0 .. (ValbufSize - 1)
  BY ConstantsAssumption, SMT

\* The links main makes form a ring.
LEMMA SuccessorIsNext ==
  ASSUME NEW n \in Threads
  PROVE  /\ (n + 1) % NumThreads = Successor(n)
         /\ Successor(n) \in Threads /\ Successor(n) # n
<1>1. CASE n + 1 < NumThreads
  BY <1>1, ThreadsAreNumbers, SMT DEF Successor
<1>2. CASE n + 1 = NumThreads
  BY <1>2, ThreadsAreNumbers, SMT DEF Successor
<1> QED
  BY <1>1, <1>2, ThreadsAreNumbers

\* One hop further: the signal is one further from every other thread, and one away
\* from the one that has just passed it on.
LEMMA DistanceOfHop ==
  ASSUME NEW n \in Threads, NEW m \in Threads
  PROVE  /\ n # m => Distance(n, Successor(m)) = Distance(n, m) + 1
         /\ Distance(m, Successor(m)) = 1
         /\ Distance(m, m) = NumThreads
  BY ThreadsAreNumbers DEF Distance, Successor

-----------------------------------------------------------------------------
(* The steps *)

\* The invariant holds when main starts.
LEMMA IndInit == Init => Ind
<1> SUFFICES ASSUME Init
             PROVE  Ind
  OBVIOUS
<1>0. ValbufSize \in Nat /\ ValbufSize >= 2
  BY ConstantsAssumption
<1>1. TypeInv
  BY <1>0, ThreadsAreNumbers DEF Init, TypeInv, Unstored
<1>2. Ring
  BY ThreadsAreNumbers DEF Init, Ring, Holds
<1>3. Trip
  BY ThreadsAreNumbers DEF Init, Trip, Holds, EveryLatencyOneRound
<1>4. Buffer
  <2>1. values[0 % ValbufSize] = Shown(0)
    BY <1>0, RemainderRange DEF Init, Shown
  <2>2. line.v = Shown(line.c)
    BY DEF Init, Shown
  <2> QED
    BY <1>0, <2>1, <2>2, ThreadsAreNumbers DEF Init, Buffer, OutputFaithful
<1> QED
  BY <1>1, <1>2, <1>3, <1>4 DEF Ind

\* A thread starts.
LEMMA StartStep ==
  ASSUME Ind, NEW n \in Threads, Start(n)
  PROVE  Ind'
<1> USE DEF Start, Thread, ringVars, mainVars, Running
<1>1. TypeInv'
  BY DEF Ind, TypeInv
<1>2. Ring'
  BY DEF Ind, TypeInv, Ring, Holds
<1>3. Trip'
  BY DEF Ind, TypeInv, Trip, Holds, EveryLatencyOneRound
<1>4. Buffer'
  BY DEF Ind, TypeInv, Buffer, OutputFaithful
<1> QED
  BY <1>1, <1>2, <1>3, <1>4 DEF Ind

\* A thread looks at shutdown.
LEMMA TopStep ==
  ASSUME Ind, NEW n \in Threads, Top(n)
  PROVE  Ind'
<1> USE DEF Top, Thread, ringVars, threadVars, mainVars, Running
<1>1. TypeInv'
  BY DEF Ind, TypeInv
<1>2. Ring'
  BY DEF Ind, TypeInv, Ring, Holds
<1>3. Trip'
  BY DEF Ind, TypeInv, Trip, Holds, EveryLatencyOneRound
<1>4. Buffer'
  BY DEF Ind, TypeInv, Buffer, OutputFaithful
<1> QED
  BY <1>1, <1>2, <1>3, <1>4 DEF Ind

\* sigwait() takes the signal.
LEMMA SigwaitStep ==
  ASSUME Ind, NEW n \in Threads, Sigwait(n)
  PROVE  Ind'
<1> USE DEF Sigwait, Thread, mainVars, Running
<1>1. TypeInv'
  BY DEF Ind, TypeInv
<1>2. Ring'
  BY DEF Ind, TypeInv, Ring, Holds
<1>3. Trip'
  <2>1. /\ pc[n] = "sigwait" /\ pending[n] /\ pc' = [pc EXCEPT ![n] = "send"]
        /\ pending' = [pending EXCEPT ![n] = FALSE]
        /\ diff' = [diff EXCEPT ![n] = hops - before[n]]
        /\ UNCHANGED <<hops, first, before, act, cycles>>
    OBVIOUS
  <2>2. \A m \in Threads : Holds(m)' <=> Holds(m)
    BY <2>1 DEF Ind, TypeInv, Holds
  <2>3. ~first[n] => hops - before[n] = NumThreads
    BY <2>1, DistanceOfHop DEF Ind, Trip, Holds
  <2>4. /\ diff'[n] = hops - before[n] /\ pc'[n] = "send"
        /\ \A m \in Threads : m # n => diff'[m] = diff[m] /\ pc'[m] = pc[m]
    BY <2>1 DEF Ind, TypeInv
  <2> QED
    BY <2>1, <2>2, <2>3, <2>4 DEF Ind, Trip, EveryLatencyOneRound
<1>4. Buffer'
  BY DEF Ind, TypeInv, Buffer, OutputFaithful
<1> QED
  BY <1>1, <1>2, <1>3, <1>4 DEF Ind

\* The thread that has the signal stamps and passes it on.
LEMMA SendStep ==
  ASSUME Ind, NEW n \in Threads, Send(n)
  PROVE  Ind'
<1> USE DEF Send, Pass, Thread, mainVars, Running
<1>1. TypeInv'
  <2>1. pc' \in [Threads -> {"unborn", "born", "failed", "top", "sigwait", "send", "measure",
                             "store", "ended", "joined"}]
    BY DEF Ind, TypeInv
  <2>2. pending' \in [Threads -> BOOLEAN] /\ first' \in [Threads -> BOOLEAN]
    BY DEF Ind, TypeInv
  <2>3. before' \in [Threads -> Nat] /\ hops' \in Nat
    BY DEF Ind, TypeInv
  <2>4. UNCHANGED <<mpc, tothread, diff, act, cycles, values, cyclesread, line, i>>
    OBVIOUS
  <2>5. TypeInv
    BY DEF Ind
  <2> QED
    BY ONLY <2>1, <2>2, <2>3, <2>4, <2>5 DEF TypeInv
<1>2. Ring'
  BY DEF Ind, TypeInv, Ring, Holds
<1>3. Trip'
  <2>1. tothread[n] = Successor(n) /\ Successor(n) \in Threads /\ Successor(n) # n
    BY SuccessorIsNext, ThreadsAreNumbers DEF Ind, Ring
  <2>2. \A m \in Threads : Holds(m)' => m = Successor(n)
    BY <2>1 DEF Ind, TypeInv, Ring, Holds
  <2>3. \A k \in Threads : ~first'[k] => hops' - before'[k] = Distance(k, Successor(n))
    <3> SUFFICES ASSUME NEW k \in Threads, ~first'[k]
                 PROVE  hops' - before'[k] = Distance(k, Successor(n))
      OBVIOUS
    <3>1. CASE k = n
      BY <3>1, DistanceOfHop DEF Ind, TypeInv
    <3>2. CASE k # n
      <4>1. hops - before[k] = Distance(k, n)
        BY <3>2 DEF Ind, TypeInv, Trip, Holds
      <4>2. Distance(k, Successor(n)) = Distance(k, n) + 1
        BY <3>2, DistanceOfHop
      <4>3. before'[k] = before[k] /\ before[k] \in Nat /\ hops \in Nat /\ hops' = hops + 1
        BY <3>2 DEF Ind, TypeInv
      <4> QED
        BY <4>1, <4>2, <4>3
    <3> QED
      BY <3>1, <3>2
  <2>4. \A m, k \in Threads : Holds(m)' /\ ~first'[k] => hops' - before'[k] = Distance(k, m)
    BY <2>2, <2>3
  <2>5. \A k \in Threads : pc'[k] = "send" => FALSE
    BY DEF Ind, TypeInv, Ring, Holds
  <2>6. \A k \in Threads : pc'[k] = "measure" => diff'[k] = NumThreads
    BY DEF Ind, TypeInv, Trip
  <2>7. \A k \in Threads : pc'[k] \in {"unborn", "born", "failed"} => first'[k]
    BY DEF Ind, TypeInv, Trip
  <2>8. EveryLatencyOneRound'
    BY DEF Ind, Trip, EveryLatencyOneRound
  <2> QED
    BY <2>4, <2>5, <2>6, <2>7, <2>8, Zenon DEF Trip
<1>4. Buffer'
  <2>1. UNCHANGED <<cycles, values, cyclesread, line>>
    OBVIOUS
  <2>2. pc'[0] = "store" <=> pc[0] = "store"
    BY ThreadsAreNumbers DEF Ind, TypeInv
  <2> QED
    BY <2>1, <2>2 DEF Ind, Buffer, OutputFaithful
<1> QED
  BY <1>1, <1>2, <1>3, <1>4 DEF Ind

\* pthread_kill() of a thread that was never linked or is joined: nobody gets the signal.
LEMMA SendNowhereStep ==
  ASSUME Ind, NEW n \in Threads, SendNowhere(n)
  PROVE  Ind'
<1> USE DEF SendNowhere, Thread, ringVars, mainVars, Running
<1>1. TypeInv'
  BY DEF Ind, TypeInv
<1>2. Ring'
  BY DEF Ind, TypeInv, Ring, Holds
<1>3. Trip'
  <2>1. \A m \in Threads : ~Holds(m)'
    BY DEF Ind, TypeInv, Ring, Holds
  <2>2. \A k \in Threads : pc'[k] # "send"
    BY <2>1 DEF Holds
  <2>3. \A k \in Threads : pc'[k] = "measure" => diff'[k] = NumThreads
    BY DEF Ind, TypeInv, Trip
  <2>4. \A k \in Threads : pc'[k] \in {"unborn", "born", "failed"} => first'[k]
    <3> SUFFICES ASSUME NEW k \in Threads, pc'[k] \in {"unborn", "born", "failed"}
                 PROVE  first'[k]
      OBVIOUS
    <3>1. k # n /\ pc'[k] = pc[k] /\ first'[k] = first[k]
      BY DEF Ind, TypeInv
    <3> QED
      BY <3>1 DEF Ind, Trip
  <2>5. EveryLatencyOneRound'
    BY DEF Ind, Trip, EveryLatencyOneRound
  <2> QED
    BY <2>1, <2>2, <2>3, <2>4, <2>5, Zenon DEF Trip
<1>4. Buffer'
  BY DEF Ind, TypeInv, Buffer, OutputFaithful
<1> QED
  BY <1>1, <1>2, <1>3, <1>4 DEF Ind

\* The latency, one round, becomes act.
LEMMA MeasureStep ==
  ASSUME Ind, NEW n \in Threads, Measure(n)
  PROVE  Ind'
<1> USE DEF Measure, Thread, ringVars, mainVars, Running
<1>1. TypeInv'
  BY DEF Ind, TypeInv
<1>2. Ring'
  BY DEF Ind, TypeInv, Ring, Holds
<1>3. Trip'
  BY DEF Ind, TypeInv, Trip, Holds, EveryLatencyOneRound
<1>4. Buffer'
  <2>1. CASE n # 0
    BY <2>1, ThreadsAreNumbers DEF Ind, TypeInv, Buffer, OutputFaithful
  <2>2. CASE n = 0
    <3>1. cycles[0] \in Nat /\ cycles'[0] = cycles[0] + 1 /\ pc'[0] = "store" /\ pc[0] = "measure"
      BY <2>2, ThreadsAreNumbers DEF Ind, TypeInv
    <3>2. cyclesread' <= cycles'[0]
      BY <3>1 DEF Ind, TypeInv, Buffer
    <3>3. ASSUME NEW k \in Nat, cycles'[0] - ValbufSize < k, k <= cycles'[0], k # cycles'[0]
          PROVE  values[k % ValbufSize] = Shown(k)
      <4>1. cycles[0] - ValbufSize < k /\ k <= cycles[0] /\ pc[0] # "store"
        BY <3>1, <3>3, ConstantsAssumption
      <4> QED
        BY <4>1 DEF Ind, Buffer
    <3>4. cycles'[0] > 0
      BY <3>1
    <3> QED
      BY <3>1, <3>2, <3>3, <3>4 DEF Ind, Buffer, OutputFaithful
  <2> QED
    BY <2>1, <2>2
<1> QED
  BY <1>1, <1>2, <1>3, <1>4 DEF Ind

\* The value goes to the slot of its cycle.
LEMMA StoreStep ==
  ASSUME Ind, NEW n \in Threads, Store(n)
  PROVE  Ind'
<1> USE DEF Store, Thread, ringVars, threadVars, mainVars, Running
<1>a. cycles[0] \in Nat /\ cycles[0] % ValbufSize \in 0 .. (ValbufSize - 1)
  BY ThreadsAreNumbers, RemainderRange DEF Ind, TypeInv
<1>1. TypeInv'
  <2>1. cycles[0] \in Int
    BY <1>a
  <2>2. values' \in [0 .. (ValbufSize - 1) -> Int]
    BY <2>1 DEF Ind, TypeInv
  <2> QED
    BY <2>2 DEF Ind, TypeInv
<1>2. Ring'
  BY ZenonT(30) DEF Ind, TypeInv, Ring, Holds
<1>3. Trip'
  BY DEF Ind, TypeInv, Trip, Holds, EveryLatencyOneRound
<1>4. Buffer'
  <2>1. CASE n # 0
    BY <2>1, ThreadsAreNumbers DEF Ind, TypeInv, Buffer, OutputFaithful
  <2>2. CASE n = 0
    <3>1. values' = [values EXCEPT ![cycles[0] % ValbufSize] = cycles[0]]
      BY <2>2
    <3>2. ASSUME NEW k \in Nat, cycles[0] - ValbufSize < k, k <= cycles[0]
          PROVE  values'[k % ValbufSize] = Shown(k)
      <4>1. CASE k = cycles[0]
        <5>1. k > 0
          BY <2>2, <4>1 DEF Ind, Buffer
        <5> QED
          BY <1>a, <3>1, <4>1, <5>1 DEF Ind, TypeInv, Shown
      <4>2. CASE k # cycles[0]
        <5>1. k % ValbufSize # cycles[0] % ValbufSize
          <6>1. /\ k \in Int /\ cycles[0] \in Int /\ ValbufSize \in Nat /\ ValbufSize >= 1
                /\ k - cycles[0] < ValbufSize /\ cycles[0] - k < ValbufSize
            BY <1>a, <3>2, ConstantsAssumption
          <6> QED
            BY <4>2, <6>1, SameRemainder, Zenon
        <5>2. values[k % ValbufSize] = Shown(k)
          BY <1>a, <3>2, <4>2 DEF Ind, TypeInv, Buffer
        <5>3. k % ValbufSize \in 0 .. (ValbufSize - 1)
          BY RemainderRange
        <5> QED
          BY <1>a, <3>1, <5>1, <5>2, <5>3 DEF Ind, TypeInv
      <4> QED
        BY <4>1, <4>2
    <3> QED
      BY <3>2 DEF Ind, Buffer, OutputFaithful
  <2> QED
    BY <2>1, <2>2
<1> QED
  BY <1>1, <1>2, <1>3, <1>4 DEF Ind

\* Main creates thread i, or fails to without noticing.
LEMMA CreateStep ==
  ASSUME Ind, Create
  PROVE  Ind'
<1> USE DEF Create, Main, ringVars, threadVars
<1>a. i \in Threads
  BY ThreadsAreNumbers DEF Ind, TypeInv, Ring
<1>b. pc[i] = "unborn"
  BY <1>a, ThreadsAreNumbers DEF Ind, TypeInv, Ring
<1>c. pc' = [pc EXCEPT ![i] = "born"] \/ pc' = [pc EXCEPT ![i] = "failed"]
  OBVIOUS
<1>1. TypeInv'
  <2>1. pc' \in [Threads -> {"unborn", "born", "failed", "top", "sigwait", "send", "measure",
                               "store", "ended", "joined"}]
    BY <1>c DEF Ind, TypeInv
  <2>2. i' \in Nat /\ mpc' \in {"create", "start"}
    BY DEF Ind, TypeInv
  <2> QED
    BY <2>1, <2>2 DEF Ind, TypeInv
<1>2. Ring'
  <2>1. /\ mpc = "create" /\ mpc' \in {"create", "start"} /\ i' \in Nat
        /\ mpc' = "create" => i' = i + 1 /\ i' < NumThreads
        /\ UNCHANGED <<pending, first, tothread>>
    BY <1>a, ThreadsAreNumbers DEF Ind, Ring
  <2>2. /\ \A n \in Threads \ {i} : pc'[n] = pc[n]
        /\ pc'[i] # "send"
    BY <1>a, <1>c DEF Ind, TypeInv
  <2>3. \A n \in Threads : Holds(n)' => Holds(n)
    BY <2>1, <2>2 DEF Holds
  <2>4. ASSUME mpc' = "create", NEW n \in Threads, n >= i'
        PROVE  pc'[n] = "unborn"
    <3>1. n # i /\ n >= i
      BY <1>a, <2>1, <2>4, ThreadsAreNumbers
    <3> QED
      BY <2>1, <2>2, <3>1 DEF Ind, Ring
  <2> QED
    BY <2>1, <2>2, <2>3, <2>4 DEF Ind, Ring
<1>3. Trip'
  BY <1>a, <1>b, <1>c, ThreadsAreNumbers, DistanceOfHop DEF Ind, TypeInv, Ring, Trip,
     Holds, EveryLatencyOneRound
<1>4. Buffer'
  BY <1>a, <1>b, <1>c, ThreadsAreNumbers DEF Ind, TypeInv, Buffer, OutputFaithful
<1> QED
  BY <1>1, <1>2, <1>3, <1>4 DEF Ind

\* Main has no memory for the values.
LEMMA NoValuesStep ==
  ASSUME Ind, NoValues
  PROVE  Ind'
<1> USE DEF NoValues, Main, ringVars, threadVars, mainVars
<1>1. TypeInv'
  BY DEF Ind, TypeInv
<1>2. Ring'
  BY DEF Ind, TypeInv, Ring, Holds
<1>3. Trip'
  BY DEF Ind, TypeInv, Trip, Holds, EveryLatencyOneRound
<1>4. Buffer'
  BY DEF Ind, TypeInv, Buffer, OutputFaithful
<1> QED
  BY <1>1, <1>2, <1>3, <1>4 DEF Ind

\* Main links all threads into a ring.
LEMMA LinkStep ==
  ASSUME Ind, Link
  PROVE  Ind'
<1> USE DEF Link, Main, threadVars, mainVars
<1>1. TypeInv'
  <2>1. tothread' \in [Threads -> Threads]
    BY SuccessorIsNext
  <2> QED
    BY <2>1 DEF Ind, TypeInv
<1>2. Ring'
  BY ThreadsAreNumbers, SuccessorIsNext DEF Ind, TypeInv, Ring, Holds
<1>3. Trip'
  BY DEF Ind, TypeInv, Trip, Holds, EveryLatencyOneRound
<1>4. Buffer'
  BY DEF Ind, TypeInv, Buffer, OutputFaithful
<1> QED
  BY <1>1, <1>2, <1>3, <1>4 DEF Ind

\* The run is stopped before the ring is linked.
LEMMA StopBeforeLinkStep ==
  ASSUME Ind, StopBeforeLink
  PROVE  Ind'
<1> USE DEF StopBeforeLink, Main, ringVars, threadVars, mainVars
<1>1. TypeInv'
  BY DEF Ind, TypeInv
<1>2. Ring'
  BY DEF Ind, TypeInv, Ring, Holds
<1>3. Trip'
  BY DEF Ind, TypeInv, Trip, Holds, EveryLatencyOneRound
<1>4. Buffer'
  BY DEF Ind, TypeInv, Buffer, OutputFaithful
<1> QED
  BY <1>1, <1>2, <1>3, <1>4 DEF Ind

\* The first pthread_kill() puts the one signal on its way.
LEMMA KickStep ==
  ASSUME Ind, Kick
  PROVE  Ind'
<1> USE DEF Kick, Main, threadVars, mainVars
<1>1. TypeInv'
  BY DEF Ind, TypeInv
<1>2. Ring'
  BY DEF Ind, TypeInv, Ring, Holds
<1>3. Trip'
  BY ThreadsAreNumbers, DistanceOfHop DEF Ind, TypeInv, Ring, Trip, Holds,
     EveryLatencyOneRound
<1>4. Buffer'
  BY DEF Ind, TypeInv, Buffer, OutputFaithful
<1> QED
  BY <1>1, <1>2, <1>3, <1>4 DEF Ind

\* Main looks at shutdown and allstopped.
LEMMA LoopStep ==
  ASSUME Ind, Loop
  PROVE  Ind'
<1> USE DEF Loop, Main, ringVars, threadVars, mainVars
<1>1. TypeInv'
  BY DEF Ind, TypeInv
<1>2. Ring'
  BY DEF Ind, TypeInv, Ring, Holds
<1>3. Trip'
  BY DEF Ind, TypeInv, Trip, Holds, EveryLatencyOneRound
<1>4. Buffer'
  BY DEF Ind, TypeInv, Buffer, OutputFaithful
<1> QED
  BY <1>1, <1>2, <1>3, <1>4 DEF Ind

\* Main prints one line from the buffer.
LEMMA PrintStatStep ==
  ASSUME Ind, PrintStat
  PROVE  Ind'
<1> USE DEF PrintStat, Main, ringVars, threadVars
<1>a. cyclesread % ValbufSize \in 0 .. (ValbufSize - 1)
  BY RemainderRange DEF Ind, TypeInv
<1>b. cycles[0] \in Nat
  BY ThreadsAreNumbers DEF Ind, TypeInv
<1>1. TypeInv'
  <2>1. values[cyclesread % ValbufSize] \in Int
    BY <1>a DEF Ind, TypeInv
  <2>2. line' \in [c : Nat, v : Int, ahead : Int]
    BY <1>b, <2>1 DEF Ind, TypeInv
  <2> QED
    BY SMTT(30), <2>2 DEF Ind, TypeInv
<1>2. Ring'
  BY DEF Ind, TypeInv, Ring, Holds
<1>3. Trip'
  BY DEF Ind, TypeInv, Trip, Holds, EveryLatencyOneRound
<1>4. Buffer'
  <2>1. cyclesread' <= cycles'[0]
    BY <1>b DEF Ind, TypeInv, Buffer
  <2>2. cycles[0] - cyclesread < ValbufSize => values[cyclesread % ValbufSize] = Shown(cyclesread)
    BY <1>b, ConstantsAssumption DEF Ind, TypeInv, Buffer
  <2>3. /\ line'.c = cyclesread /\ line'.v = values[cyclesread % ValbufSize]
        /\ line'.ahead = cycles[0] - cyclesread
    OBVIOUS
  <2>4. OutputFaithful'
    BY <2>2, <2>3 DEF OutputFaithful
  <2> QED
    BY <2>1, <2>4 DEF Ind, Buffer
<1> QED
  BY <1>1, <1>2, <1>3, <1>4 DEF Ind

\* Main has printed all it has seen.
LEMMA PrintDoneStep ==
  ASSUME Ind, PrintDone
  PROVE  Ind'
<1> USE DEF PrintDone, Main, ringVars, threadVars, mainVars
<1>1. TypeInv'
  BY DEF Ind, TypeInv
<1>2. Ring'
  BY DEF Ind, TypeInv, Ring, Holds
<1>3. Trip'
  BY DEF Ind, TypeInv, Trip, Holds, EveryLatencyOneRound
<1>4. Buffer'
  BY DEF Ind, TypeInv, Buffer, OutputFaithful
<1> QED
  BY <1>1, <1>2, <1>3, <1>4 DEF Ind

\* Main ends its loop when the loops are done.
LEMMA CheckLoopsStep ==
  ASSUME Ind, CheckLoops
  PROVE  Ind'
<1> USE DEF CheckLoops, Main, ringVars, threadVars
<1>1. TypeInv'
  BY DEF Ind, TypeInv
<1>2. Ring'
  BY DEF Ind, TypeInv, Ring, Holds
<1>3. Trip'
  BY DEF Ind, TypeInv, Trip, Holds, EveryLatencyOneRound
<1>4. Buffer'
  BY DEF Ind, TypeInv, Buffer, OutputFaithful
<1> QED
  BY <1>1, <1>2, <1>3, <1>4 DEF Ind

\* Main sets shutdown.
LEMMA OutallStep ==
  ASSUME Ind, Outall
  PROVE  Ind'
<1> USE DEF Outall, Main, ringVars, threadVars, mainVars
<1>1. TypeInv'
  BY DEF Ind, TypeInv
<1>2. Ring'
  BY DEF Ind, TypeInv, Ring, Holds
<1>3. Trip'
  BY DEF Ind, TypeInv, Trip, Holds, EveryLatencyOneRound
<1>4. Buffer'
  BY DEF Ind, TypeInv, Buffer, OutputFaithful
<1> QED
  BY <1>1, <1>2, <1>3, <1>4 DEF Ind

\* usleep(50000): the signal comes to rest, or it does not.
LEMMA SettleStep ==
  ASSUME Ind, Settle
  PROVE  Ind'
<1> USE DEF Settle, Main, ringVars, threadVars
<1>1. TypeInv'
  BY DEF Ind, TypeInv
<1>2. Ring'
  BY DEF Ind, TypeInv, Ring, Holds
<1>3. Trip'
  BY DEF Ind, TypeInv, Trip, Holds, EveryLatencyOneRound
<1>4. Buffer'
  BY DEF Ind, TypeInv, Buffer, OutputFaithful
<1> QED
  BY <1>1, <1>2, <1>3, <1>4 DEF Ind

\* Main joins a thread that has ended, or passes one over.
LEMMA ReapStep ==
  ASSUME Ind, Reap
  PROVE  Ind'
<1> USE DEF Reap, Main, ringVars, threadVars
<1>a. i \in Threads
  BY ThreadsAreNumbers DEF Ind, TypeInv
<1>1. TypeInv'
  <2>1. pc' \in [Threads -> {"unborn", "born", "failed", "top", "sigwait", "send", "measure",
                               "store", "ended", "joined"}]
    BY <1>a DEF Ind, TypeInv
  <2>2. i' \in Nat /\ mpc' \in {"reap", "crashed"}
    BY DEF Ind, TypeInv
  <2> QED
    BY <2>1, <2>2 DEF Ind, TypeInv
<1>2. Ring'
  BY DEF Ind, TypeInv, Ring, Holds
<1>3. Trip'
  BY DEF Ind, TypeInv, Trip, Holds, EveryLatencyOneRound
<1>4. Buffer'
  BY DEF Ind, TypeInv, Buffer, OutputFaithful
<1> QED
  BY <1>1, <1>2, <1>3, <1>4 DEF Ind

\* Main exits.
LEMMA ExitStep ==
  ASSUME Ind, Exit
  PROVE  Ind'
<1> USE DEF Exit, Main, ringVars, threadVars, mainVars
<1>1. TypeInv'
  BY DEF Ind, TypeInv
<1>2. Ring'
  BY DEF Ind, TypeInv, Ring, Holds
<1>3. Trip'
  BY DEF Ind, TypeInv, Trip, Holds, EveryLatencyOneRound
<1>4. Buffer'
  BY DEF Ind, TypeInv, Buffer, OutputFaithful
<1> QED
  BY <1>1, <1>2, <1>3, <1>4 DEF Ind

\* A handler sets shutdown.
LEMMA SighandStep ==
  ASSUME Ind, Sighand
  PROVE  Ind'
<1> USE DEF Sighand, Running, ringVars, threadVars, mainVars
<1>1. TypeInv'
  BY DEF Ind, TypeInv
<1>2. Ring'
  BY DEF Ind, TypeInv, Ring, Holds
<1>3. Trip'
  BY DEF Ind, TypeInv, Trip, Holds, EveryLatencyOneRound
<1>4. Buffer'
  BY DEF Ind, TypeInv, Buffer, OutputFaithful
<1> QED
  BY <1>1, <1>2, <1>3, <1>4 DEF Ind

\* Nothing happens.
LEMMA StutterStep ==
  ASSUME Ind, UNCHANGED vars
  PROVE  Ind'
<1> USE DEF vars
<1>1. TypeInv' /\ Ring'
  BY DEF Ind, TypeInv, Ring, Holds
<1>2. Trip' /\ Buffer'
  BY DEF Ind, Trip, Holds, EveryLatencyOneRound, Buffer, OutputFaithful
<1> QED
  BY <1>1, <1>2 DEF Ind

\* The invariant is inductive.
THEOREM Invariance == Spec => []Ind
<1>1. Ind /\ [Next]_vars => Ind'
  <2> SUFFICES ASSUME Ind, [Next]_vars
               PROVE  Ind'
    OBVIOUS
  <2>1. CASE \E n \in Threads : ThreadStep(n)
    BY <2>1, StartStep, TopStep, SigwaitStep, SendStep, SendNowhereStep, MeasureStep,
       StoreStep DEF ThreadStep
  <2>2. CASE MainStep
    BY <2>2, CreateStep, NoValuesStep, LinkStep, KickStep, LoopStep, PrintStatStep,
       PrintDoneStep, CheckLoopsStep, OutallStep, SettleStep, ReapStep, ExitStep
       DEF MainStep
  <2> QED
    BY <2>1, <2>2, StopBeforeLinkStep, SighandStep, StutterStep DEF Next
<1> QED
  BY <1>1, IndInit, PTL DEF Spec

-----------------------------------------------------------------------------
(* The properties *)

\* Every latency a thread measures is one trip of the one signal round the whole ring,
\* for any number of threads and however the run is stopped.
THEOREM LatencyIsOneRound == Spec => []EveryLatencyOneRound
<1>1. Ind => EveryLatencyOneRound
  BY DEF Ind, Trip
<1> QED
  BY <1>1, Invariance, PTL

\* The line print_stat() prints for count c shows the c-th value of thread 0 from count
\* 1 on, and nothing measured for count 0, for every size of the buffer, unless thread 0
\* is a whole buffer ahead.
THEOREM OutputIsFaithful == Spec => []OutputFaithful
<1>1. Ind => OutputFaithful
  BY DEF Ind, Buffer
<1> QED
  BY <1>1, Invariance, PTL
=============================================================================

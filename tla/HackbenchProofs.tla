--------------------------- MODULE HackbenchProofs ---------------------------
(***************************************************************************)
(* Proofs about Hackbench for any command line, any number and size of     *)
(* messages and any capacity of the streams: the time that is printed is   *)
(* that of all the traffic, and no process is left behind.                 *)
(***************************************************************************)
EXTENDS Hackbench, FiniteSetTheorems, TLAPS

-----------------------------------------------------------------------------
(* The inductive invariant *)

\* Where a worker and main can be.
Locs     == {"unborn", "born", "ready", "poll", "pump", "spin", "ended", "killed"}
MainLocs == {"create", "fifo", "wait", "kick", "signal", "reap", "exit", "killed"}

\* The types of the variables.
TypeInv ==
  /\ process_mode \in BOOLEAN /\ fifo \in BOOLEAN /\ shape \in Shapes
  /\ pc \in [Workers -> Locs] /\ mpc \in MainLocs
  /\ moved \in [Workers -> Nat] /\ buffer \in [Workers -> Nat]
  /\ readyfds \in Nat /\ wakefds \in {0, 1} /\ timer_started \in {0, 1}
  /\ n \in Nat /\ total_children \in Nat
  /\ totchld \in Nat /\ dokill \in BOOLEAN /\ i \in Nat /\ reaped \in Nat
  /\ signal_caught \in {0, 1}
  /\ out \in {"", "barf", "time", "nothing"}
  /\ failed \in BOOLEAN /\ died \in BOOLEAN

\* The workers that main has started, and those of the complete groups.
Created ==
  /\ n <= Expected
  /\ \A w \in Workers : pc[w] = "unborn" <=> w >= n
  /\ mpc = "create" => n < Expected
  /\ \E g \in Nat : total_children = 2 * num_fds * g
  /\ total_children <= n /\ n < total_children + 2 * num_fds
  /\ mpc \in {"fifo", "wait", "kick"} => total_children = Expected

\* The workers that have written their byte, if they were not killed before.
Past == {w \in Workers : pc[w] \notin {"unborn", "born", "ready"}}

\* The start is stamped when everybody is ready, and nobody moves a byte before it.
Started ==
  /\ readyfds <= Cardinality(Past)
  /\ timer_started = 1 => Past = Workers
  /\ mpc = "kick" \/ wakefds > 0 => timer_started = 1
  /\ \A w \in Workers :
       pc[w] \in {"pump", "spin", "ended"} \/ moved[w] > 0 => wakefds > 0

\* A worker ends when it has moved all its bytes.
Quotas ==
  \A w \in Workers :
    /\ pc[w] \in {"unborn", "born", "ready", "poll"} => moved[w] = 0
    /\ moved[w] <= Quota(w)
    /\ pc[w] \in {"poll", "pump"} => moved[w] < Quota(w)
    /\ pc[w] = "ended" => moved[w] = Quota(w)

\* The receiver of byte b of sender w.
To(w, b) == Offset(w) + ((b \div Datasize) % num_fds)

\* The bytes that were written to receiver r, each by its sender and its number.
BytesTo(r) ==
  {x \in Workers \X Nat :
     /\ ~IsReceiver(x[1]) /\ x[2] < moved[x[1]]
     /\ To(x[1], x[2]) = r}

\* What was written to a receiver it has read, or it is in its stream.
Streams ==
  \A r \in Workers :
    IF IsReceiver(r)
    THEN Cardinality(BytesTo(r)) = moved[r] + buffer[r]
    ELSE buffer[r] = 0

\* The workers that have ended.
Dead == {w \in Workers : pc[w] \in Ended}

\* What main waits for, and whom it has signalled.
Reaping ==
  /\ dokill <=> failed \/ signal_caught = 1
  /\ mpc = "signal" => dokill
  /\ dokill => mpc \in {"signal", "reap", "exit", "killed"}
  /\ mpc \in {"create", "fifo", "wait", "kick"} => i = 0 /\ reaped = 0
  /\ signal_caught = 1 => totchld = total_children
  /\ failed /\ signal_caught = 0 => totchld + 1 >= n
  /\ dokill /\ process_mode /\ mpc \in {"reap", "exit"} =>
       \A w \in Workers : w < totchld => ~Alive(w)
  /\ mpc = "reap" /\ ~dokill =>
       /\ timer_started = 1 /\ totchld = Expected
       /\ IF process_mode THEN i = reaped /\ reaped <= Cardinality(Dead)
          ELSE \A w \in Workers : w < i => pc[w] = "ended"
  /\ ~dokill /\ ~died => \A w \in Workers : pc[w] # "killed"
  /\ out # "" => mpc = "exit"
  /\ mpc = "exit" => out # ""
  /\ mpc = "exit" /\ ~dokill => out = "barf" \/ Dead = Workers
  /\ out = "time" /\ signal_caught = 0 => ~dokill

Ind == TypeInv /\ Created /\ Started /\ Quotas /\ Streams /\ Reaping

-----------------------------------------------------------------------------
(* Arithmetic *)

\* Division with a remainder.
LEMMA DivMod ==
  ASSUME NEW a \in Nat, NEW d \in Nat \ {0}
  PROVE  /\ a \div d \in Nat /\ a % d \in Nat /\ a % d < d
         /\ a = d * (a \div d) + (a % d)
  OBVIOUS

\* There is only one way to divide.
LEMMA DivUnique ==
  ASSUME NEW a \in Nat, NEW d \in Nat \ {0}, NEW q \in Nat, NEW r \in Nat,
         r < d, a = d * q + r
  PROVE  a \div d = q /\ a % d = r
  OBVIOUS

\* Multiples of d are at least d apart.
LEMMA Multiples ==
  ASSUME NEW a \in Nat, NEW b \in Nat, NEW d \in Nat \ {0}, d * a < d * b
  PROVE  a < b /\ d * a + d <= d * b
<1>1. a + 1 <= b
  OBVIOUS
<1>2. d * (a + 1) <= d * b
  BY <1>1
<1>3. d * (a + 1) = d * a + d
  OBVIOUS
<1> QED
  BY <1>1, <1>2, <1>3

\* A product is a natural number.
LEMMA Products ==
  ASSUME NEW a \in Nat, NEW b \in Nat
  PROVE  a * b \in Nat /\ (a > 0 /\ b > 0 => a * b > 0)
  OBVIOUS

\* The lesser of two numbers.
LEMMA MinOfTwo ==
  ASSUME NEW a \in Int, NEW b \in Int
  PROVE  Min({a, b}) \in {a, b} /\ Min({a, b}) <= a /\ Min({a, b}) <= b
<1>1. \E x \in {a, b} : \A y \in {a, b} : x <= y
  OBVIOUS
<1> QED
  BY <1>1 DEF Min

\* The greater of two numbers.
LEMMA MaxOfTwo ==
  ASSUME NEW a \in Int, NEW b \in Int
  PROVE  Max({a, b}) \in {a, b} /\ Max({a, b}) >= a /\ Max({a, b}) >= b
<1>1. \E x \in {a, b} : \A y \in {a, b} : x >= y
  OBVIOUS
<1> QED
  BY <1>1 DEF Max

-----------------------------------------------------------------------------
(* Workers, groups and messages *)

\* The sizes that the command line gives.
LEMMA Sizes ==
  ASSUME shape \in Shapes
  PROVE  /\ shape[1] \in Nat \ {0} /\ num_fds \in Nat \ {0}
         /\ Expected \in Nat \ {0} /\ Expected = (2 * num_fds) * shape[1]
         /\ 2 * num_fds \in Nat \ {0}
         /\ Datasize \in Nat \ {0} /\ Loops \in Nat \ {0} /\ Capacity \in Nat \ {0}
         /\ IsFiniteSet(Workers) /\ Cardinality(Workers) = Expected
         /\ Workers = {w \in Nat : w < Expected}
         /\ \A w : Quota(w) \in Nat \ {0} /\ Quota(w) = Datasize * (num_fds * Loops)
<1>1. /\ shape[1] \in Nat \ {0} /\ num_fds \in Nat \ {0}
      /\ Datasize \in Nat \ {0} /\ Loops \in Nat \ {0} /\ Capacity \in Nat \ {0}
  BY ConstantsAssumption DEF num_fds
<1>2. Expected = (2 * num_fds) * shape[1] /\ 2 * num_fds \in Nat \ {0}
  BY <1>1 DEF Expected
<1>3. Expected \in Nat \ {0}
  BY <1>1, <1>2, Products
<1>4. IsFiniteSet(Workers) /\ Cardinality(Workers) = Expected
  BY <1>3, FS_Interval DEF Workers
<1>5. Workers = {w \in Nat : w < Expected}
  BY <1>3 DEF Workers
<1>6. num_fds * Loops \in Nat \ {0}
  BY <1>1, Products
<1>7. Datasize * (num_fds * Loops) \in Nat \ {0}
  BY <1>1, <1>6, Products
<1>8. Datasize * (num_fds * Loops) = Loops * num_fds * Datasize
  BY <1>1
<1> QED
  BY <1>1, <1>2, <1>3, <1>4, <1>5, <1>7, <1>8 DEF Quota

\* A group is an interval of 2 * num_fds workers.
LEMMA Groups ==
  ASSUME shape \in Shapes, NEW w \in Workers
  PROVE  /\ Offset(w) \in Nat /\ Offset(w) <= w /\ w < Offset(w) + 2 * num_fds
         /\ \A t \in Nat : t < 2 * num_fds =>
              Offset(w) + t \in Workers /\ Offset(Offset(w) + t) = Offset(w)
<1> DEFINE d == 2 * num_fds
           g == w \div d
<1>1. /\ d \in Nat \ {0} /\ w \in Nat /\ w < Expected /\ Expected = d * shape[1]
      /\ shape[1] \in Nat
  BY Sizes
<1> HIDE DEF d
<1>2. g \in Nat /\ w % d \in Nat /\ w % d < d /\ w = d * g + (w % d)
  BY <1>1, DivMod
<1>3. Offset(w) = d * g
  BY DEF Offset, d
<1> HIDE DEF g
<1>4. d * g \in Nat
  BY <1>1, <1>2, Products
<1>5. d * g < d * shape[1]
  BY <1>1, <1>2, <1>4
<1>6. d * g + d <= Expected
  BY <1>1, <1>2, <1>5, Multiples
<1>7. ASSUME NEW t \in Nat, t < d
      PROVE  Offset(w) + t \in Workers /\ Offset(Offset(w) + t) = Offset(w)
  <2>1. d * g + t \in Workers
    BY <1>1, <1>4, <1>6, <1>7, Sizes
  <2>2. (d * g + t) \div d = g
    <3> DEFINE a == d * g + t
    <3>1. a \in Nat /\ a = d * g + t
      BY <1>4
    <3> HIDE DEF a
    <3>2. a \div d = g
      BY <1>1, <1>2, <1>7, <3>1, DivUnique
    <3> QED
      BY <3>1, <3>2
  <2>3. Offset(d * g + t) = d * ((d * g + t) \div d)
    BY DEF Offset, d
  <2> QED
    BY <1>3, <2>1, <2>2, <2>3
<1>8. Offset(w) \in Nat /\ Offset(w) <= w /\ w < Offset(w) + d
  BY <1>1, <1>2, <1>3, <1>4
<1> QED
  BY <1>7, <1>8 DEF d

\* The receiver of a byte is one of the group of its sender.
LEMMA ReceiverOfByte ==
  ASSUME shape \in Shapes, NEW w \in Workers, NEW b \in Nat
  PROVE  /\ To(w, b) \in Workers /\ IsReceiver(To(w, b)) /\ Offset(To(w, b)) = Offset(w)
         /\ To(w, b) = Offset(w) + ((b \div Datasize) % num_fds)
<1> DEFINE t == (b \div Datasize) % num_fds
<1>1. num_fds \in Nat \ {0} /\ Datasize \in Nat \ {0}
  BY Sizes
<1>2. b \div Datasize \in Nat
  BY <1>1, DivMod
<1>3. t \in Nat /\ t < num_fds
  BY <1>1, <1>2, DivMod
<1> HIDE DEF t
<1>4. To(w, b) = Offset(w) + t
  BY DEF To, t
<1>5. Offset(w) \in Nat /\ Offset(w) + t \in Workers /\ Offset(Offset(w) + t) = Offset(w)
  BY <1>1, <1>3, Groups
<1> QED
  BY <1>1, <1>3, <1>4, <1>5 DEF IsReceiver, t

\* A message fits into what a worker still has to move, and its bytes go to one receiver.
LEMMA Message ==
  ASSUME TypeInv, NEW w \in Workers, moved[w] < Quota(w)
  PROVE  /\ Rest(w) \in Nat /\ Rest(w) > 0 /\ moved[w] + Rest(w) <= Quota(w)
         /\ \A b \in Nat : moved[w] <= b /\ b < moved[w] + Rest(w) =>
              To(w, b) = Target(w)
<1> DEFINE m == moved[w]
           q == m \div Datasize
<1>1. m \in Nat /\ Datasize \in Nat \ {0} /\ num_fds * Loops \in Nat
  BY Sizes, Products DEF TypeInv
<1> HIDE DEF m
<1>2. /\ q \in Nat /\ m % Datasize \in Nat /\ m % Datasize < Datasize
      /\ m = Datasize * q + (m % Datasize)
  BY <1>1, DivMod
<1> HIDE DEF q
<1>3. Datasize * q \in Nat
  BY <1>1, <1>2, Products
<1>4. Quota(w) = Datasize * (num_fds * Loops) /\ m < Quota(w)
  BY Sizes DEF TypeInv, m
<1>5. Datasize * q + Datasize <= Quota(w)
  <2>1. Datasize * q < Datasize * (num_fds * Loops)
    BY <1>1, <1>2, <1>3, <1>4
  <2> QED
    BY <1>1, <1>2, <1>4, <2>1, Multiples
<1>6. Rest(w) = Datasize - (m % Datasize)
  BY DEF Rest, m
<1>7. m + Rest(w) = Datasize * q + Datasize
  BY <1>1, <1>2, <1>3, <1>6
<1>8. ASSUME NEW b \in Nat, m <= b, b < m + Rest(w)
      PROVE  To(w, b) = Target(w)
  <2> DEFINE r == b - Datasize * q
  <2>1. r \in Nat /\ r < Datasize /\ b = Datasize * q + r
    BY <1>1, <1>2, <1>3, <1>7, <1>8
  <2> HIDE DEF r
  <2>2. b \div Datasize = q
    BY <1>1, <1>2, <2>1, DivUnique
  <2> QED
    BY <2>2 DEF To, Target, q, m
<1> QED
  BY <1>1, <1>2, <1>5, <1>6, <1>7, <1>8 DEF m

-----------------------------------------------------------------------------
(* The bytes of a receiver *)

\* A receiver gets no more bytes than it expects: there is one for every sender of its
\* group, every message and every place in a message.
LEMMA BytesBound ==
  ASSUME TypeInv, \A w \in Workers : moved[w] <= Quota(w), NEW r \in Workers, IsReceiver(r)
  PROVE  /\ IsFiniteSet(BytesTo(r)) /\ Cardinality(BytesTo(r)) \in Nat
         /\ Cardinality(BytesTo(r)) <= Quota(r)
<1> DEFINE S == 0 .. (num_fds - 1)
           L == 0 .. (Loops - 1)
           D == 0 .. (Datasize - 1)
           f == [x \in BytesTo(r) |->
                   <<<<x[1] - Offset(x[1]) - num_fds, (x[2] \div Datasize) \div num_fds>>,
                     x[2] % Datasize>>]
<1>1. /\ num_fds \in Nat \ {0} /\ Loops \in Nat \ {0} /\ Datasize \in Nat \ {0}
      /\ shape \in Shapes
  BY Sizes DEF TypeInv
<1>2. IsFiniteSet((S \X L) \X D) /\ Cardinality((S \X L) \X D) = Quota(r)
  <2>1. IsFiniteSet(S) /\ Cardinality(S) = num_fds
    BY <1>1, FS_Interval
  <2>2. IsFiniteSet(L) /\ Cardinality(L) = Loops
    BY <1>1, FS_Interval
  <2>3. IsFiniteSet(D) /\ Cardinality(D) = Datasize
    BY <1>1, FS_Interval
  <2> HIDE DEF S, L, D
  <2>4. IsFiniteSet(S \X L) /\ Cardinality(S \X L) = num_fds * Loops
    BY <2>1, <2>2, FS_Product
  <2>5. IsFiniteSet((S \X L) \X D) /\ Cardinality((S \X L) \X D) = (num_fds * Loops) * Datasize
    BY <2>3, <2>4, FS_Product
  <2>6. (num_fds * Loops) * Datasize = Quota(r)
    BY <1>1 DEF Quota
  <2> QED
    BY <2>5, <2>6
<1>3. ASSUME NEW x \in BytesTo(r)
      PROVE  /\ x[1] \in Workers /\ x[2] \in Nat /\ x = <<x[1], x[2]>>
             /\ x[1] \in Nat /\ Offset(x[1]) = Offset(r) /\ Offset(r) \in Nat
             /\ x[1] - Offset(r) - num_fds \in S
             /\ (x[2] \div Datasize) \div num_fds \in L
             /\ x[2] % Datasize \in D
             /\ x[2] = Datasize * (x[2] \div Datasize) + (x[2] % Datasize)
             /\ x[2] \div Datasize
                  = num_fds * ((x[2] \div Datasize) \div num_fds) + (r - Offset(r))
  <2>1. /\ x[1] \in Workers /\ x[2] \in Nat /\ x = <<x[1], x[2]>> /\ ~IsReceiver(x[1])
        /\ x[2] < moved[x[1]] /\ To(x[1], x[2]) = r
    BY DEF BytesTo
  <2> DEFINE w == x[1]
             b == x[2]
             q == b \div Datasize
             l == q \div num_fds
  <2> HIDE DEF w, b
  <2>2. w \in Workers /\ b \in Nat /\ ~IsReceiver(w) /\ b < moved[w] /\ To(w, b) = r
    BY <2>1 DEF w, b
  <2>3. q \in Nat /\ b % Datasize \in D /\ b = Datasize * q + (b % Datasize)
    BY <1>1, <2>2, DivMod
  <2> HIDE DEF q
  <2>4. l \in Nat /\ q % num_fds \in Nat /\ q % num_fds < num_fds /\ q = num_fds * l + (q % num_fds)
    BY <1>1, <2>3, DivMod
  <2>5. Offset(r) = Offset(w) /\ r = Offset(w) + (q % num_fds)
    BY <1>1, <2>2, ReceiverOfByte DEF q
  <2> HIDE DEF l
  <2>6. w - Offset(w) - num_fds \in S /\ w \in Nat /\ Offset(w) \in Nat
    <3>1. Offset(w) \in Nat /\ Offset(w) <= w /\ w < Offset(w) + 2 * num_fds
      BY <1>1, <2>2, Groups
    <3>2. w \in Nat
      BY <1>1, <2>2, Sizes
    <3>3. ~(w - Offset(w) < num_fds)
      BY <2>2 DEF IsReceiver
    <3> QED
      BY <1>1, <3>1, <3>2, <3>3
  <2>7. l \in L
    <3>1. Datasize * q < Datasize * (num_fds * Loops)
      <4>1. moved[w] \in Nat /\ moved[w] <= Quota(w) /\ Quota(w) = Datasize * (num_fds * Loops)
            /\ Quota(w) \in Nat
        BY <1>1, <2>2, Sizes DEF TypeInv
      <4>2. Datasize * q \in Nat /\ b % Datasize \in Nat
        BY <1>1, <2>3, Products
      <4> QED
        BY <2>2, <2>3, <4>1, <4>2
    <3>2. num_fds * Loops \in Nat
      BY <1>1, Products
    <3>3. q < num_fds * Loops
      BY <1>1, <2>3, <3>1, <3>2, Multiples
    <3>4. num_fds * l \in Nat
      BY <1>1, <2>4, Products
    <3>5. num_fds * l < num_fds * Loops
      BY <2>3, <2>4, <3>2, <3>3, <3>4
    <3>6. l < Loops
      BY <1>1, <2>4, <3>5, Multiples
    <3> QED
      BY <1>1, <2>4, <3>6
  <2>8. q = num_fds * l + (r - Offset(r))
    <3>1. num_fds * l \in Nat
      BY <1>1, <2>4, Products
    <3> QED
      BY <2>4, <2>5, <2>6, <3>1
  <2> QED
    BY <2>1, <2>3, <2>5, <2>6, <2>7, <2>8 DEF w, b, q, l
<1> HIDE DEF S, L, D
<1>4. f \in [BytesTo(r) -> (S \X L) \X D]
  BY <1>3
<1>5. ASSUME NEW x \in BytesTo(r), NEW y \in BytesTo(r), f[x] = f[y]
      PROVE  x = y
  <2>1. /\ x[1] - Offset(r) - num_fds = y[1] - Offset(r) - num_fds
        /\ (x[2] \div Datasize) \div num_fds = (y[2] \div Datasize) \div num_fds
        /\ x[2] % Datasize = y[2] % Datasize
    <3>1. /\ x[1] - Offset(x[1]) - num_fds = y[1] - Offset(y[1]) - num_fds
          /\ (x[2] \div Datasize) \div num_fds = (y[2] \div Datasize) \div num_fds
          /\ x[2] % Datasize = y[2] % Datasize
      BY <1>5
    <3> QED
      BY <1>3, <3>1
  <2>2. x[1] = y[1]
    <3>1. ASSUME NEW a \in Nat, NEW b \in Nat, NEW o \in Nat, NEW m \in Nat,
                 a - o - m = b - o - m
          PROVE  a = b
      BY <3>1
    <3>2. x[1] \in Nat /\ y[1] \in Nat /\ Offset(r) \in Nat
      BY <1>3
    <3> QED
      BY <1>1, <2>1, <3>1, <3>2
  <2>3. x[2] \div Datasize = y[2] \div Datasize
    BY <1>3, <2>1
  <2>4. x[2] = y[2]
    BY <1>3, <2>1, <2>3
  <2> QED
    BY <1>3, <2>2, <2>4
<1>6. f \in Injection(BytesTo(r), (S \X L) \X D)
  BY <1>4, <1>5 DEF Injection, IsInjective
<1>7. IsFiniteSet(BytesTo(r)) /\ Cardinality(BytesTo(r)) <= Cardinality((S \X L) \X D)
  BY <1>2, <1>6, FS_Injection
<1> QED
  BY <1>2, <1>7, FS_CardinalityType

-----------------------------------------------------------------------------
(* What the steps have in common *)

\* The command line does not change.
LEMMA SameShape ==
  ASSUME shape' = shape
  PROVE  /\ num_fds' = num_fds /\ Expected' = Expected /\ Workers' = Workers
         /\ \A w : Offset(w)' = Offset(w) /\ IsReceiver(w)' = IsReceiver(w)
                 /\ Quota(w)' = Quota(w)
         /\ \A w, b : To(w, b)' = To(w, b)
  BY DEF num_fds, Expected, Workers, Offset, IsReceiver, Quota, To

\* Sets of workers are finite, and the larger has more.
LEMMA SetsOfWorkers ==
  ASSUME shape \in Shapes, NEW A, NEW B, A \subseteq B, B \subseteq Workers
  PROVE  /\ IsFiniteSet(A) /\ IsFiniteSet(B)
         /\ Cardinality(A) \in Nat /\ Cardinality(B) \in Nat
         /\ Cardinality(A) <= Cardinality(B) /\ Cardinality(B) <= Expected
         /\ Cardinality(B) >= Expected => B = Workers
<1>1. IsFiniteSet(Workers) /\ Cardinality(Workers) = Expected /\ Expected \in Nat
  BY Sizes
<1>2. /\ IsFiniteSet(B) /\ Cardinality(B) <= Expected
      /\ Cardinality(B) = Expected => B = Workers
  BY <1>1, FS_Subset
<1>3. IsFiniteSet(A) /\ Cardinality(A) <= Cardinality(B)
  BY <1>2, FS_Subset
<1> QED
  BY <1>1, <1>2, <1>3, FS_CardinalityType

\* Nobody comes back: the workers that were past their byte, or dead, still are.
LEMMA Progress ==
  ASSUME shape \in Shapes, shape' = shape,
         \A w \in Workers : /\ w \in Past => w \in Past'
                            /\ w \in Dead => w \in Dead'
  PROVE  /\ Cardinality(Past) \in Nat /\ Cardinality(Past') \in Nat
         /\ Cardinality(Past) <= Cardinality(Past')
         /\ Past = Workers => Past' = Workers'
         /\ Cardinality(Dead) \in Nat /\ Cardinality(Dead') \in Nat
         /\ Cardinality(Dead) <= Cardinality(Dead')
         /\ Dead = Workers => Dead' = Workers'
<1>1. Past \subseteq Workers /\ Dead \subseteq Workers
  BY DEF Past, Dead
<1>2. Past' \subseteq Workers /\ Dead' \subseteq Workers
  BY SameShape DEF Past, Dead
<1>3. Past \subseteq Past' /\ Dead \subseteq Dead'
  <2>1. ASSUME NEW w \in Past
        PROVE  w \in Past'
    BY <1>1, <2>1
  <2>2. ASSUME NEW w \in Dead
        PROVE  w \in Dead'
    BY <1>1, <2>2
  <2> QED
    BY <2>1, <2>2
<1> QED
  BY <1>1, <1>2, <1>3, SameShape, SetsOfWorkers

\* A step of worker w that goes on from "from" to "to".
LEMMA WorkerFrame ==
  ASSUME Ind, NEW w \in Workers, NEW from, NEW to \in Locs, Worker(w, from, to),
         \/ from = "born" /\ to = "ready"
         \/ /\ from \in {"ready", "poll", "pump"}
            /\ to \in {"poll", "pump", "spin", "ended", "killed"},
         to = "killed" => dokill \/ died,
         UNCHANGED <<cmdVars, mpc, n, total_children, reapVars, signal_caught, timer_started,
                     out, histVars>>
  PROVE  /\ pc[w] = from /\ pc'[w] = to /\ \A v \in Workers \ {w} : pc'[v] = pc[v]
         /\ pc' \in [Workers -> Locs]
         /\ \A v \in Workers : (v \in Past => v \in Past') /\ (v \in Dead => v \in Dead')
         /\ Created' /\ Reaping'
<1> USE DEF cmdVars, reapVars, histVars
<1>1. shape' = shape /\ shape \in Shapes
  BY DEF Ind, TypeInv
<1>2. /\ pc[w] = from /\ pc'[w] = to /\ \A v \in Workers \ {w} : pc'[v] = pc[v]
      /\ pc' \in [Workers -> Locs]
  BY DEF Ind, TypeInv, Worker
<1>3. \A v \in Workers : (v \in Past => v \in Past') /\ (v \in Dead => v \in Dead')
  BY <1>1, <1>2, SameShape DEF Past, Dead, Ended
<1>4. Created'
  BY <1>1, <1>2, SameShape DEF Ind, Created
<1>5. Reaping'
  <2>1. /\ Workers' = Workers /\ Expected' = Expected
        /\ Cardinality(Dead) \in Nat /\ Cardinality(Dead') \in Nat
        /\ Cardinality(Dead) <= Cardinality(Dead') /\ (Dead = Workers => Dead' = Workers)
    BY <1>1, <1>3, Progress, SameShape
  <2>2. Alive(w) /\ \A v \in Workers : ~Alive(v) => ~Alive(v)'
    BY <1>2 DEF Alive, Ended
  <2>3. \A v \in Workers : pc[v] = "ended" => pc'[v] = "ended"
    BY <1>2
  <2>4. Reaping /\ reaped \in Nat
    BY DEF Ind, TypeInv
  <2>5. ~dokill /\ ~died => \A v \in Workers : pc'[v] # "killed"
    BY <1>2, <2>4 DEF Reaping
  <2>6. dokill /\ process_mode /\ mpc \in {"reap", "exit"} =>
          \A v \in Workers : v < totchld => ~Alive(v)'
    BY <2>2, <2>4 DEF Reaping
  <2>7. mpc = "reap" /\ ~dokill =>
          /\ timer_started = 1 /\ totchld = Expected
          /\ IF process_mode THEN i = reaped /\ reaped <= Cardinality(Dead')
             ELSE \A v \in Workers : v < i => pc'[v] = "ended"
    <3>1. ASSUME mpc = "reap", ~dokill
          PROVE  /\ timer_started = 1 /\ totchld = Expected
                 /\ process_mode => i = reaped /\ reaped <= Cardinality(Dead)
                 /\ ~process_mode => \A v \in Workers : v < i => pc[v] = "ended"
      BY <2>4, <3>1 DEF Reaping
    <3>2. reaped <= Cardinality(Dead) => reaped <= Cardinality(Dead')
      BY <2>1, <2>4
    <3> QED
      BY <2>3, <3>1, <3>2
  <2> QED
    BY <2>1, <2>4, <2>5, <2>6, <2>7 DEF Reaping
<1> QED
  BY <1>2, <1>3, <1>4, <1>5

\* The streams do not change.
LEMMA StreamsFrame ==
  ASSUME Streams, UNCHANGED <<shape, moved, buffer>>
  PROVE  Streams'
<1>1. \A r \in Workers : BytesTo(r)' = BytesTo(r)
  BY SameShape DEF BytesTo
<1> QED
  BY <1>1, SameShape DEF Streams

\* Whether the workers have moved their bytes, when only worker w goes on.
LEMMA QuotasFrame ==
  ASSUME Ind, NEW w \in Workers, shape' = shape, moved' = moved,
         \A v \in Workers \ {w} : pc'[v] = pc[v],
         \/ pc'[w] = "killed" \/ pc'[w] = "spin"
         \/ pc[w] \in {"born", "ready"} /\ pc'[w] \in {"ready", "poll"}
         \/ pc[w] = "poll" /\ pc'[w] = "pump"
  PROVE  Quotas'
<1>1. ASSUME NEW v \in Workers
      PROVE  /\ pc'[v] \in {"unborn", "born", "ready", "poll"} => moved[v] = 0
             /\ moved[v] <= Quota(v)
             /\ pc'[v] \in {"poll", "pump"} => moved[v] < Quota(v)
             /\ pc'[v] = "ended" => moved[v] = Quota(v)
  <2>1. Quota(v) \in Nat \ {0} /\ moved[v] \in Nat
    BY Sizes DEF Ind, TypeInv
  <2>2. /\ pc[v] \in {"unborn", "born", "ready", "poll"} => moved[v] = 0
        /\ moved[v] <= Quota(v)
        /\ pc[v] \in {"poll", "pump"} => moved[v] < Quota(v)
        /\ pc[v] = "ended" => moved[v] = Quota(v)
    BY DEF Ind, Quotas
  <2>3. CASE v = w
    BY <2>1, <2>2, <2>3
  <2>4. CASE v # w
    BY <2>2, <2>4
  <2> QED
    BY <2>3, <2>4
<1> QED
  BY <1>1, SameShape DEF Quotas

\* The start is stamped as before, when nobody who has not been woken moves bytes.
LEMMA StartedFrame ==
  ASSUME Ind, UNCHANGED <<shape, readyfds, wakefds, timer_started, mpc>>,
         \A v \in Workers : (v \in Past => v \in Past') /\ (v \in Dead => v \in Dead'),
         \A v \in Workers :
           pc'[v] \in {"pump", "spin", "ended"} \/ moved'[v] > 0 => wakefds > 0
  PROVE  Started'
<1>1. /\ Cardinality(Past) \in Nat /\ Cardinality(Past') \in Nat
      /\ Cardinality(Past) <= Cardinality(Past') /\ (Past = Workers => Past' = Workers')
  BY Progress DEF Ind, TypeInv
<1>2. Started /\ readyfds \in Nat
  BY DEF Ind, TypeInv
<1>3. readyfds <= Cardinality(Past')
  BY <1>1, <1>2 DEF Started
<1> QED
  BY <1>1, <1>2, <1>3, SameShape DEF Started

-----------------------------------------------------------------------------
(* The steps of the workers *)

\* A worker resets its signals.
LEMMA ResetStep ==
  ASSUME Ind, NEW w \in Workers, Reset(w)
  PROVE  Ind'
<1> USE DEF Reset, dataVars
<1>1. /\ pc[w] = "born" /\ pc'[w] = "ready" /\ \A v \in Workers \ {w} : pc'[v] = pc[v]
      /\ pc' \in [Workers -> Locs]
      /\ \A v \in Workers : (v \in Past => v \in Past') /\ (v \in Dead => v \in Dead')
      /\ Created' /\ Reaping'
  BY WorkerFrame DEF Locs
<1>2. UNCHANGED <<shape, moved, buffer, readyfds, wakefds, timer_started, mpc>>
  BY DEF cmdVars
<1>3. TypeInv'
  <2>1. TypeInv /\ Workers' = Workers
    BY <1>2, SameShape DEF Ind
  <2>2. UNCHANGED <<process_mode, fifo, shape, mpc, moved, buffer, readyfds, wakefds,
                    timer_started, n, total_children, totchld, dokill, i, reaped,
                    signal_caught, out, failed, died>>
    BY DEF cmdVars, reapVars, histVars
  <2> QED
    BY ZenonT(30), <1>1, <2>1, <2>2 DEF TypeInv
<1>4. Started'
  <2>1. \A v \in Workers :
          pc'[v] \in {"pump", "spin", "ended"} \/ moved'[v] > 0 => wakefds > 0
    BY <1>1, <1>2 DEF Ind, Started
  <2> QED
    BY <1>1, <1>2, <2>1, StartedFrame
<1>5. Quotas' /\ Streams'
  BY <1>1, <1>2, QuotasFrame, StreamsFrame DEF Ind
<1> QED
  BY <1>1, <1>3, <1>4, <1>5 DEF Ind

\* A worker writes its byte: there is never more of them than workers past it.
LEMMA ReadyStep ==
  ASSUME Ind, NEW w \in Workers, Ready(w)
  PROVE  Ind'
<1> USE DEF Ready, dataVars
<1>1. /\ pc[w] = "ready" /\ pc'[w] = "poll" /\ \A v \in Workers \ {w} : pc'[v] = pc[v]
      /\ pc' \in [Workers -> Locs]
      /\ \A v \in Workers : (v \in Past => v \in Past') /\ (v \in Dead => v \in Dead')
      /\ Created' /\ Reaping'
  BY WorkerFrame DEF Locs, sigVars
<1>2. UNCHANGED <<shape, moved, buffer, wakefds, timer_started, mpc>>
  BY DEF cmdVars
<1>3. TypeInv'
  <2>1. TypeInv /\ readyfds \in Nat
    BY DEF Ind, TypeInv
  <2>2. readyfds' = readyfds + 1
    OBVIOUS
  <2>3. readyfds' \in Nat
    BY <2>1, <2>2
  <2> QED
    BY ZenonT(30), <1>1, <1>2, <2>1, <2>3, SameShape DEF TypeInv, cmdVars, reapVars, sigVars,
       histVars
<1>4. Started'
  <2>1. \A v \in Workers :
          pc'[v] \in {"pump", "spin", "ended"} \/ moved'[v] > 0 => wakefds > 0
    BY <1>1, <1>2 DEF Ind, Started
  <2>2. Past' = Past \cup {w} /\ w \notin Past
    BY <1>1, <1>2, SameShape DEF Past
  <2>3. IsFiniteSet(Past) /\ Cardinality(Past) \in Nat /\ shape \in Shapes
    BY SetsOfWorkers DEF Past, Ind, TypeInv
  <2>4. Cardinality(Past') = Cardinality(Past) + 1
    BY <2>2, <2>3, FS_AddElement
  <2>5. Past = Workers => Past' = Workers'
    BY <1>1, <1>2, <2>3, Progress
  <2>6. Started /\ readyfds \in Nat
    BY DEF Ind, TypeInv
  <2>7. readyfds' <= Cardinality(Past')
    BY <2>3, <2>4, <2>6 DEF Started
  <2> QED
    BY <1>2, <2>1, <2>5, <2>6, <2>7, SameShape DEF Started
<1>5. Quotas' /\ Streams'
  BY <1>1, <1>2, QuotasFrame, StreamsFrame DEF Ind
<1> QED
  BY <1>1, <1>3, <1>4, <1>5 DEF Ind

\* A worker is woken.
LEMMA PollStep ==
  ASSUME Ind, NEW w \in Workers, Poll(w)
  PROVE  Ind'
<1> USE DEF Poll, dataVars
<1>1. /\ pc[w] = "poll" /\ pc'[w] = "pump" /\ \A v \in Workers \ {w} : pc'[v] = pc[v]
      /\ pc' \in [Workers -> Locs]
      /\ \A v \in Workers : (v \in Past => v \in Past') /\ (v \in Dead => v \in Dead')
      /\ Created' /\ Reaping'
  BY WorkerFrame DEF Locs, sigVars
<1>2. UNCHANGED <<shape, moved, buffer, readyfds, wakefds, timer_started, mpc>>
  BY DEF cmdVars
<1>3. TypeInv'
  BY ZenonT(30), <1>1, SameShape DEF Ind, TypeInv, cmdVars, reapVars, sigVars, histVars
<1>4. Started'
  BY <1>1, <1>2, StartedFrame
<1>5. Quotas' /\ Streams'
  BY <1>1, <1>2, QuotasFrame, StreamsFrame DEF Ind
<1> QED
  BY <1>1, <1>3, <1>4, <1>5 DEF Ind

\* A sender whose receiver is gone is killed: somebody was killed before.
LEMMA WriteBrokenStep ==
  ASSUME Ind, NEW w \in Workers, WriteBroken(w)
  PROVE  Ind'
<1> USE DEF WriteBroken, dataVars
<1>0. Target(w) \in Workers
  <2>1. moved[w] \in Nat /\ shape \in Shapes
    BY DEF Ind, TypeInv
  <2> QED
    BY <2>1, ReceiverOfByte DEF Target
<1>1. /\ pc[w] = "pump" /\ pc'[w] = "killed" /\ \A v \in Workers \ {w} : pc'[v] = pc[v]
      /\ pc' \in [Workers -> Locs]
      /\ \A v \in Workers : (v \in Past => v \in Past') /\ (v \in Dead => v \in Dead')
      /\ Created' /\ Reaping'
  <2>1. dokill \/ died
    BY <1>0 DEF Ind, TypeInv, Reaping
  <2> QED
    BY <2>1, WorkerFrame DEF Locs, sigVars
<1>2. UNCHANGED <<shape, moved, buffer, readyfds, wakefds, timer_started, mpc>>
  BY DEF cmdVars
<1>3. TypeInv'
  BY ZenonT(30), <1>1, SameShape DEF Ind, TypeInv, cmdVars, reapVars, sigVars, histVars
<1>4. Started'
  <2>1. \A v \in Workers :
          pc'[v] \in {"pump", "spin", "ended"} \/ moved'[v] > 0 => wakefds > 0
    BY <1>1, <1>2 DEF Ind, Started
  <2> QED
    BY <1>1, <1>2, <2>1, StartedFrame
<1>5. Quotas' /\ Streams'
  BY <1>1, <1>2, QuotasFrame, StreamsFrame DEF Ind
<1> QED
  BY <1>1, <1>3, <1>4, <1>5 DEF Ind

\* A receiver sees the end of its stream.
LEMMA ReadEofStep ==
  ASSUME Ind, NEW w \in Workers, ReadEof(w)
  PROVE  Ind'
<1> USE DEF ReadEof, dataVars
<1>1. /\ pc[w] = "pump" /\ pc'[w] = "spin" /\ \A v \in Workers \ {w} : pc'[v] = pc[v]
      /\ pc' \in [Workers -> Locs]
      /\ \A v \in Workers : (v \in Past => v \in Past') /\ (v \in Dead => v \in Dead')
      /\ Created' /\ Reaping'
  BY WorkerFrame DEF Locs, sigVars
<1>2. UNCHANGED <<shape, moved, buffer, readyfds, wakefds, timer_started, mpc>>
  BY DEF cmdVars
<1>3. TypeInv'
  BY <1>1, SameShape DEF Ind, TypeInv, cmdVars, reapVars, sigVars, histVars
<1>4. Started'
  <2>1. \A v \in Workers :
          pc'[v] \in {"pump", "spin", "ended"} \/ moved'[v] > 0 => wakefds > 0
    BY <1>1, <1>2 DEF Ind, Started
  <2> QED
    BY <1>1, <1>2, <2>1, StartedFrame
<1>5. Quotas' /\ Streams'
  BY <1>1, <1>2, QuotasFrame, StreamsFrame DEF Ind
<1> QED
  BY <1>1, <1>3, <1>4, <1>5 DEF Ind

\* A worker is killed by somebody else.
LEMMA DieStep ==
  ASSUME Ind, NEW w \in Workers, Die(w)
  PROVE  Ind'
<1> USE DEF Die, dataVars
<1>1. /\ Alive(w) /\ pc'[w] = "killed" /\ \A v \in Workers \ {w} : pc'[v] = pc[v]
      /\ pc' \in [Workers -> Locs] /\ pc[w] \notin {"unborn", "ended", "killed"}
  BY DEF Ind, TypeInv, Locs, Alive, Ended
<1>2. /\ UNCHANGED <<shape, moved, buffer, readyfds, wakefds, timer_started, mpc>>
      /\ died' = TRUE /\ mpc # "exit"
  BY DEF cmdVars
<1>3. TypeInv'
  BY <1>1, <1>2, SameShape DEF Ind, TypeInv, cmdVars, reapVars, sigVars
<1>4. \A v \in Workers : (v \in Past => v \in Past') /\ (v \in Dead => v \in Dead')
  BY <1>1, <1>2, SameShape DEF Past, Dead, Ended
<1>5. Created'
  BY <1>1, <1>2, SameShape DEF Ind, Created
<1>6. Started'
  <2>1. \A v \in Workers :
          pc'[v] \in {"pump", "spin", "ended"} \/ moved'[v] > 0 => wakefds > 0
    BY <1>1, <1>2 DEF Ind, Started
  <2> QED
    BY <1>2, <1>4, <2>1, StartedFrame
<1>7. Quotas' /\ Streams'
  BY <1>1, <1>2, QuotasFrame, StreamsFrame DEF Ind
<1>8. Reaping'
  <2>1. /\ Workers' = Workers /\ Expected' = Expected
        /\ Cardinality(Dead) \in Nat /\ Cardinality(Dead') \in Nat
        /\ Cardinality(Dead) <= Cardinality(Dead')
    BY <1>2, <1>4, Progress, SameShape DEF Ind, TypeInv
  <2>2. \A v \in Workers : ~Alive(v) => ~Alive(v)'
    BY <1>1 DEF Alive, Ended
  <2>3. \A v \in Workers : pc[v] = "ended" => pc'[v] = "ended"
    BY <1>1
  <2>4. Reaping /\ reaped \in Nat
    BY DEF Ind, TypeInv
  <2>5. dokill /\ process_mode /\ mpc \in {"reap", "exit"} =>
          \A v \in Workers : v < totchld => ~Alive(v)'
    BY <2>2, <2>4 DEF Reaping
  <2>6. UNCHANGED <<process_mode, dokill, failed, signal_caught, i, reaped, totchld, n,
                    total_children, out>>
    BY DEF cmdVars, reapVars, sigVars
  <2>7. mpc = "reap" /\ ~dokill =>
          /\ timer_started = 1 /\ totchld = Expected
          /\ IF process_mode THEN i = reaped /\ reaped <= Cardinality(Dead')
             ELSE \A v \in Workers : v < i => pc'[v] = "ended"
    <3>1. ASSUME mpc = "reap", ~dokill
          PROVE  /\ timer_started = 1 /\ totchld = Expected
                 /\ process_mode => i = reaped /\ reaped <= Cardinality(Dead)
                 /\ ~process_mode => \A v \in Workers : v < i => pc[v] = "ended"
      BY <2>4, <3>1 DEF Reaping
    <3>2. reaped <= Cardinality(Dead) => reaped <= Cardinality(Dead')
      BY <2>1, <2>4
    <3> QED
      BY <2>3, <3>1, <3>2
  <2>8. mpc' = mpc /\ died' /\ timer_started' = timer_started /\ mpc # "exit"
    BY <1>2
  <2> HIDE DEF Die
  <2> QED
    BY <2>1, <2>4, <2>5, <2>6, <2>7, <2>8 DEF Reaping
<1> QED
  BY <1>3, <1>5, <1>6, <1>7, <1>8 DEF Ind

\* A worker moves k bytes of a message, and ends after its last byte.
LEMMA PumpFrame ==
  ASSUME Ind, NEW w \in Workers, moved[w] < Quota(w), shape' = shape, wakefds > 0,
         NEW k \in Nat, 0 < k, k <= Rest(w), moved' = [moved EXCEPT ![w] = @ + k],
         pc'[w] = IF moved[w] + k = Quota(w) THEN "ended" ELSE "pump",
         \A v \in Workers \ {w} : pc'[v] = pc[v]
  PROVE  /\ Quotas' /\ moved' \in [Workers -> Nat]
         /\ \A v \in Workers :
              pc'[v] \in {"pump", "spin", "ended"} \/ moved'[v] > 0 => wakefds > 0
<1>1. moved' \in [Workers -> Nat]
  <2>1. moved \in [Workers -> Nat]
    BY DEF Ind, TypeInv
  <2> QED
    BY <2>1
<1>2. /\ moved[w] \in Nat /\ Quota(w) \in Nat /\ Rest(w) \in Nat
      /\ moved[w] + Rest(w) <= Quota(w)
  BY Sizes, Message DEF Ind, TypeInv
<1>3. /\ moved'[w] = moved[w] + k
      /\ \A v \in Workers \ {w} : moved'[v] = moved[v]
  BY DEF Ind, TypeInv
<1>4. moved'[w] \in Nat /\ moved'[w] <= Quota(w) /\ moved'[w] > 0
  BY <1>2, <1>3
<1>5. ASSUME NEW v \in Workers
      PROVE  /\ pc'[v] \in {"unborn", "born", "ready", "poll"} => moved'[v] = 0
             /\ moved'[v] <= Quota(v)
             /\ pc'[v] \in {"poll", "pump"} => moved'[v] < Quota(v)
             /\ pc'[v] = "ended" => moved'[v] = Quota(v)
  <2>1. CASE v = w
    BY <1>2, <1>3, <1>4, <2>1
  <2>2. CASE v # w
    BY <1>3, <2>2 DEF Ind, Quotas
  <2> QED
    BY <2>1, <2>2
<1>6. Quotas'
  BY <1>5, SameShape DEF Quotas
<1> QED
  BY <1>1, <1>6

\* A sender writes k bytes: they are the next bytes of its receiver.
LEMMA BytesWritten ==
  ASSUME Ind, NEW w \in Workers, ~IsReceiver(w), moved[w] < Quota(w), shape' = shape,
         NEW k \in Nat, 0 < k, k <= Rest(w), moved' = [moved EXCEPT ![w] = @ + k],
         NEW r \in Workers, r = Target(w), buffer' = [buffer EXCEPT ![r] = @ + k]
  PROVE  Streams'
<1> DEFINE m == moved[w]
           new == {w} \X (m .. (m + k - 1))
<1>1. /\ TypeInv /\ shape \in Shapes /\ m \in Nat /\ Rest(w) \in Nat
      /\ \A b \in Nat : m <= b /\ b < m + Rest(w) => To(w, b) = r
      /\ buffer \in [Workers -> Nat] /\ moved \in [Workers -> Nat]
  BY Message DEF Ind, TypeInv
<1>2. IsReceiver(r) /\ r # w
  <2>1. To(w, m) = r
    BY DEF To, Target
  <2> QED
    BY <1>1, <2>1, ReceiverOfByte
<1>3. moved'[w] = m + k /\ \A v \in Workers \ {w} : moved'[v] = moved[v]
  BY <1>1
<1>4. buffer'[r] = buffer[r] + k /\ \A v \in Workers \ {r} : buffer'[v] = buffer[v]
  BY <1>1
<1> HIDE DEF m
<1>5. ASSUME NEW v \in Workers, NEW x \in Workers \X Nat
      PROVE  x \in BytesTo(v)' <=> x \in BytesTo(v) \/ (v = r /\ x \in new)
  <2>1. /\ x[1] \in Workers /\ x[2] \in Nat /\ x = <<x[1], x[2]>>
        /\ x \in new <=> x[1] = w /\ m <= x[2] /\ x[2] < m + k
    BY <1>1
  <2>2. x \in BytesTo(v)' <=>
          /\ ~IsReceiver(x[1]) /\ x[2] < moved'[x[1]] /\ To(x[1], x[2]) = v
    BY SameShape DEF BytesTo
  <2>3. x \in BytesTo(v) <=>
          /\ ~IsReceiver(x[1]) /\ x[2] < moved[x[1]] /\ To(x[1], x[2]) = v
    BY DEF BytesTo
  <2>4. CASE x[1] # w
    BY <1>3, <2>1, <2>2, <2>3, <2>4
  <2>5. CASE x[1] = w
    <3>1. x \in BytesTo(v)' <=> x[2] < m + k /\ To(w, x[2]) = v
      BY <1>3, <2>2, <2>5
    <3>2. x \in BytesTo(v) <=> x[2] < m /\ To(w, x[2]) = v
      BY <2>3, <2>5 DEF m
    <3>3. m <= x[2] /\ x[2] < m + k => To(w, x[2]) = r
      BY <1>1, <2>1
    <3> QED
      BY <1>1, <2>1, <2>5, <3>1, <3>2, <3>3
  <2> QED
    BY <2>4, <2>5
<1>6. \A v \in Workers : BytesTo(v) \subseteq Workers \X Nat /\ BytesTo(v)' \subseteq Workers \X Nat
  BY SameShape DEF BytesTo
<1>7. new \subseteq Workers \X Nat
  BY <1>1
<1>8. \A v \in Workers \ {r} : BytesTo(v)' = BytesTo(v)
  BY <1>5, <1>6
<1>9. BytesTo(r)' = BytesTo(r) \cup new
  BY <1>5, <1>6, <1>7
<1>10. BytesTo(r) \cap new = {}
  BY <1>1 DEF BytesTo, m
<1>11. IsFiniteSet(new) /\ Cardinality(new) = k
  <2>1. IsFiniteSet(m .. (m + k - 1)) /\ Cardinality(m .. (m + k - 1)) = k
    <3> DEFINE e == m + k - 1
    <3>1. m \in Int /\ e \in Int /\ ~(m > e) /\ e - m + 1 = k
      BY <1>1
    <3> HIDE DEF e
    <3>2. IsFiniteSet(m .. e) /\ Cardinality(m .. e) = e - m + 1
      BY <3>1, FS_Interval
    <3> QED
      BY <3>1, <3>2 DEF e
  <2>2. IsFiniteSet({w}) /\ Cardinality({w}) = 1
    BY FS_Singleton
  <2>3. IsFiniteSet(new) /\ Cardinality(new) = 1 * k
    <3> DEFINE one == {w}
               bytes == m .. (m + k - 1)
    <3>1. /\ IsFiniteSet(one) /\ Cardinality(one) = 1 /\ new = one \X bytes
          /\ IsFiniteSet(bytes) /\ Cardinality(bytes) = k
      BY <2>1, <2>2
    <3> HIDE DEF one, bytes
    <3>2. IsFiniteSet(one \X bytes)
          /\ Cardinality(one \X bytes) = Cardinality(one) * Cardinality(bytes)
      BY <3>1, FS_Product, Zenon
    <3> QED
      BY ONLY <3>1, <3>2
  <2> QED
    BY <2>3
<1>12. /\ IsFiniteSet(BytesTo(r)) /\ Cardinality(BytesTo(r)) \in Nat
       /\ Cardinality(BytesTo(r)) = moved[r] + buffer[r]
  BY <1>1, <1>2, BytesBound DEF Ind, Quotas, Streams
<1> HIDE DEF new
<1>13. Cardinality(BytesTo(r)') = Cardinality(BytesTo(r)) + k
  <2> DEFINE B == BytesTo(r)
  <2> HIDE DEF B
  <2>1. IsFiniteSet(B) /\ IsFiniteSet(new) /\ Cardinality(B) \in Nat /\ B \cap new = {}
    BY <1>10, <1>11, <1>12 DEF B
  <2>2. Cardinality(B \cup new) = Cardinality(B) + Cardinality(new) - Cardinality(B \cap new)
    BY <2>1, FS_Union
  <2>3. Cardinality(B \cap new) = 0
    BY <2>1, FS_EmptySet
  <2>4. Cardinality(B \cup new) = Cardinality(B) + k
    BY <1>11, <2>1, <2>2, <2>3
  <2> QED
    BY <1>9, <2>4 DEF B
<1>14. Cardinality(BytesTo(r)') = moved'[r] + buffer'[r]
  BY <1>1, <1>2, <1>3, <1>4, <1>12, <1>13
<1>15. ASSUME NEW v \in Workers
       PROVE  IF IsReceiver(v) THEN Cardinality(BytesTo(v)') = moved'[v] + buffer'[v]
              ELSE buffer'[v] = 0
  <2>1. CASE v = r
    BY <1>2, <1>14, <2>1
  <2>2. CASE v # r
    BY <1>3, <1>4, <1>8, <2>2 DEF Ind, Streams
  <2> QED
    BY <2>1, <2>2
<1> QED
  BY <1>15, SameShape DEF Streams

\* A sender writes a part of a message to one receiver.
LEMMA WriteStep ==
  ASSUME Ind, NEW w \in Workers, Write(w)
  PROVE  Ind'
<1> DEFINE r == Target(w)
<1>1. PICK k \in 1 .. Min({Rest(w), Capacity - buffer[r]}) :
        /\ moved' = [moved EXCEPT ![w] = @ + k]
        /\ buffer' = [buffer EXCEPT ![r] = @ + k]
        /\ Worker(w, "pump", IF moved[w] + k = Quota(w) THEN "ended" ELSE "pump")
  BY DEF Write
<1>2. /\ ~IsReceiver(w) /\ moved[w] < Quota(w)
      /\ UNCHANGED <<cmdVars, mpc, readyfds, wakefds, n, total_children, reapVars, sigVars,
                     timer_started, out, histVars>>
  BY DEF Write
<1>3. /\ r \in Workers /\ Rest(w) \in Nat /\ Capacity \in Nat /\ shape \in Shapes
      /\ buffer \in [Workers -> Nat]
  <2>1. moved[w] \in Nat /\ shape \in Shapes
    BY DEF Ind, TypeInv
  <2> QED
    BY <1>2, <2>1, ReceiverOfByte, Message, Sizes DEF Target, Ind, TypeInv
<1> HIDE DEF r
<1>4. k \in Nat /\ 0 < k /\ k <= Rest(w)
  <2> DEFINE a == Rest(w)
             c == Capacity - buffer[r]
  <2>1. a \in Int /\ c \in Int
    BY <1>3
  <2>2. k \in 1 .. Min({a, c})
    OBVIOUS
  <2> HIDE DEF a, c
  <2>3. Min({a, c}) \in {a, c} /\ Min({a, c}) <= a
    BY <2>1, MinOfTwo
  <2>4. k \in Nat /\ 0 < k /\ k <= a
    BY <2>1, <2>2, <2>3
  <2> QED
    BY <2>4 DEF a
<1> DEFINE to == IF moved[w] + k = Quota(w) THEN "ended" ELSE "pump"
<1>5. to \in {"ended", "pump"} /\ to \in Locs
  BY DEF Locs
<1>6. Worker(w, "pump", to)
  BY <1>1
<1> HIDE DEF to
<1>7. /\ pc[w] = "pump" /\ pc'[w] = to /\ \A v \in Workers \ {w} : pc'[v] = pc[v]
      /\ pc' \in [Workers -> Locs]
      /\ \A v \in Workers : (v \in Past => v \in Past') /\ (v \in Dead => v \in Dead')
      /\ Created' /\ Reaping'
  BY <1>2, <1>5, <1>6, WorkerFrame DEF sigVars
<1>8. shape' = shape /\ UNCHANGED <<readyfds, wakefds, timer_started, mpc>> /\ wakefds > 0
  BY <1>2, <1>7 DEF cmdVars, Ind, Started
<1>9. /\ Quotas' /\ moved' \in [Workers -> Nat]
      /\ \A v \in Workers :
           pc'[v] \in {"pump", "spin", "ended"} \/ moved'[v] > 0 => wakefds > 0
  BY <1>1, <1>2, <1>4, <1>7, <1>8, PumpFrame DEF to
<1>10. Started'
  BY <1>7, <1>8, <1>9, StartedFrame
<1>11. Streams'
  BY <1>1, <1>2, <1>3, <1>4, <1>8, BytesWritten DEF r
<1>12. buffer' \in [Workers -> Nat]
  BY <1>1, <1>3, <1>4
<1>13. TypeInv'
  <2>1. TypeInv
    BY DEF Ind
  <2> QED
    BY ZenonT(30), <1>2, <1>7, <1>8, <1>9, <1>12, <2>1, SameShape DEF TypeInv, cmdVars, reapVars,
       sigVars, histVars
<1> QED
  BY <1>7, <1>9, <1>10, <1>11, <1>13 DEF Ind

\* A receiver reads k bytes: they move from its stream to what it has read.
LEMMA ReadStep ==
  ASSUME Ind, NEW w \in Workers, Read(w)
  PROVE  Ind'
<1> DEFINE k == Min({Rest(w), buffer[w]})
<1>1. /\ IsReceiver(w) /\ buffer[w] > 0
      /\ moved' = [moved EXCEPT ![w] = @ + k]
      /\ buffer' = [buffer EXCEPT ![w] = @ - k]
      /\ Worker(w, "pump", IF moved[w] + k = Quota(w) THEN "ended" ELSE "pump")
      /\ UNCHANGED <<cmdVars, mpc, readyfds, wakefds, n, total_children, reapVars, sigVars,
                     timer_started, out, histVars>>
  BY DEF Read
<1>2. /\ TypeInv /\ moved[w] < Quota(w) /\ moved \in [Workers -> Nat]
      /\ buffer \in [Workers -> Nat]
  BY <1>1 DEF Worker, Ind, TypeInv, Quotas
<1>3. Rest(w) \in Nat /\ Rest(w) > 0 /\ moved[w] \in Nat /\ buffer[w] \in Nat
  BY <1>2, Message
<1>4. k \in Nat /\ 0 < k /\ k <= Rest(w) /\ k <= buffer[w]
  <2>1. k \in {Rest(w), buffer[w]} /\ k <= Rest(w) /\ k <= buffer[w]
    BY <1>3, MinOfTwo
  <2> HIDE DEF k
  <2> QED
    BY <1>1, <1>3, <2>1
<1> HIDE DEF k
<1> DEFINE to == IF moved[w] + k = Quota(w) THEN "ended" ELSE "pump"
<1>5. to \in {"ended", "pump"} /\ to \in Locs
  BY DEF Locs
<1>6. Worker(w, "pump", to)
  BY <1>1
<1> HIDE DEF to
<1>7. /\ pc[w] = "pump" /\ pc'[w] = to /\ \A v \in Workers \ {w} : pc'[v] = pc[v]
      /\ pc' \in [Workers -> Locs]
      /\ \A v \in Workers : (v \in Past => v \in Past') /\ (v \in Dead => v \in Dead')
      /\ Created' /\ Reaping'
  BY <1>1, <1>5, <1>6, WorkerFrame DEF sigVars
<1>8. shape' = shape /\ UNCHANGED <<readyfds, wakefds, timer_started, mpc>> /\ wakefds > 0
  BY <1>1, <1>7 DEF cmdVars, Ind, Started
<1>9. /\ Quotas' /\ moved' \in [Workers -> Nat]
      /\ \A v \in Workers :
           pc'[v] \in {"pump", "spin", "ended"} \/ moved'[v] > 0 => wakefds > 0
  BY <1>1, <1>2, <1>4, <1>7, <1>8, PumpFrame DEF to
<1>10. Started'
  BY <1>7, <1>8, <1>9, StartedFrame
<1>11. moved'[w] = moved[w] + k /\ \A v \in Workers \ {w} : moved'[v] = moved[v]
  BY <1>1, <1>2
<1>12. buffer'[w] = buffer[w] - k /\ \A v \in Workers \ {w} : buffer'[v] = buffer[v]
  BY <1>1, <1>2
<1>13. buffer' \in [Workers -> Nat]
  <2>1. buffer[w] - k \in Nat
    BY <1>3, <1>4
  <2> QED
    BY <1>1, <1>2, <2>1
<1>14. Streams'
  <2>1. \A v \in Workers : BytesTo(v)' = BytesTo(v)
    BY <1>1, <1>8, <1>11, SameShape DEF BytesTo
  <2>2. ASSUME NEW v \in Workers
        PROVE  IF IsReceiver(v) THEN Cardinality(BytesTo(v)') = moved'[v] + buffer'[v]
               ELSE buffer'[v] = 0
    <3>1. IF IsReceiver(v) THEN Cardinality(BytesTo(v)) = moved[v] + buffer[v]
          ELSE buffer[v] = 0
      BY DEF Ind, Streams
    <3>2. CASE v = w
      <4>1. moved'[w] + buffer'[w] = moved[w] + buffer[w]
        BY <1>3, <1>4, <1>11, <1>12
      <4> QED
        BY <1>1, <2>1, <3>1, <3>2, <4>1
    <3>3. CASE v # w
      BY <1>11, <1>12, <2>1, <3>1, <3>3
    <3> QED
      BY <3>2, <3>3
  <2> QED
    BY <1>8, <2>2, SameShape DEF Streams
<1>15. TypeInv'
  BY ZenonT(30), <1>1, <1>2, <1>7, <1>8, <1>9, <1>13, SameShape DEF TypeInv, cmdVars, reapVars,
     sigVars, histVars
<1> QED
  BY <1>7, <1>9, <1>10, <1>14, <1>15 DEF Ind

-----------------------------------------------------------------------------
(* The steps of main *)

\* Main does nothing to the workers but kill them.
LEMMA MainFrame ==
  ASSUME Ind, UNCHANGED <<shape, moved, buffer>>, pc' \in [Workers -> Locs],
         \A v \in Workers : pc'[v] = pc[v] \/ (Alive(v) /\ pc'[v] = "killed")
  PROVE  /\ Quotas' /\ Streams'
         /\ Workers' = Workers /\ Expected' = Expected /\ num_fds' = num_fds
         /\ Cardinality(Past) \in Nat /\ Cardinality(Past') \in Nat
         /\ Cardinality(Past) <= Cardinality(Past') /\ (Past = Workers => Past' = Workers)
         /\ Cardinality(Dead) \in Nat /\ Cardinality(Dead') \in Nat
         /\ Cardinality(Dead) <= Cardinality(Dead') /\ (Dead = Workers => Dead' = Workers)
         /\ \A v \in Workers : /\ ~Alive(v) => ~Alive(v)'
                               /\ pc[v] = "ended" => pc'[v] = "ended"
                               /\ pc'[v] = "unborn" <=> pc[v] = "unborn"
                               /\ pc'[v] \in {"pump", "spin", "ended"} \/ moved'[v] > 0
                                    => wakefds > 0
<1>1. Workers' = Workers /\ Expected' = Expected /\ num_fds' = num_fds
  BY SameShape
<1>2. \A v \in Workers : /\ ~Alive(v) => ~Alive(v)'
                         /\ pc[v] = "ended" => pc'[v] = "ended"
                         /\ pc'[v] = "unborn" <=> pc[v] = "unborn"
  BY DEF Alive, Ended
<1>3. \A v \in Workers : (v \in Past => v \in Past') /\ (v \in Dead => v \in Dead')
  BY <1>1 DEF Past, Dead, Ended
<1>4. /\ Cardinality(Past) \in Nat /\ Cardinality(Past') \in Nat
      /\ Cardinality(Past) <= Cardinality(Past') /\ (Past = Workers => Past' = Workers)
      /\ Cardinality(Dead) \in Nat /\ Cardinality(Dead') \in Nat
      /\ Cardinality(Dead) <= Cardinality(Dead') /\ (Dead = Workers => Dead' = Workers)
  BY <1>1, <1>3, Progress DEF Ind, TypeInv
<1>5. Streams'
  BY StreamsFrame DEF Ind
<1>6. Quotas'
  <2>1. \A v \in Workers : Quota(v) \in Nat \ {0} /\ Quota(v)' = Quota(v)
    BY Sizes, SameShape DEF Ind, TypeInv
  <2> QED
    BY <1>1, <2>1 DEF Ind, Quotas
<1>7. \A v \in Workers :
        pc'[v] \in {"pump", "spin", "ended"} \/ moved'[v] > 0 => wakefds > 0
  BY DEF Ind, Started
<1> QED
  BY <1>1, <1>2, <1>4, <1>5, <1>6, <1>7

\* Main starts worker n; after the last of a group the group is counted.
LEMMA CreateWorkerStep ==
  ASSUME Ind, CreateWorker
  PROVE  Ind'
<1> DEFINE d == 2 * num_fds
<1>1. /\ mpc = "create" /\ mpc' = IF n + 1 < Expected THEN "create" ELSE "fifo"
      /\ pc' = [pc EXCEPT ![n] = "born"]
      /\ n' = n + 1 /\ total_children' = IF (n + 1) % d = 0 THEN n + 1 ELSE total_children
      /\ UNCHANGED <<cmdVars, dataVars, readyfds, wakefds, reapVars, sigVars, timer_started,
                     out, histVars>>
  BY DEF CreateWorker, Main, GroupDone
<1>2. /\ n \in Workers /\ n \in Nat /\ n < Expected /\ shape \in Shapes
      /\ pc \in [Workers -> Locs]
  BY <1>1, Sizes DEF Ind, TypeInv, Created
<1>3. /\ pc[n] = "unborn" /\ pc'[n] = "born" /\ \A v \in Workers \ {n} : pc'[v] = pc[v]
      /\ pc' \in [Workers -> Locs]
  BY <1>1, <1>2 DEF Ind, Created, Locs
<1>4. /\ shape' = shape /\ Workers' = Workers /\ Expected' = Expected /\ num_fds' = num_fds
      /\ d \in Nat \ {0} /\ Expected = d * shape[1] /\ shape[1] \in Nat /\ Expected \in Nat
  BY <1>1, <1>2, SameShape, Sizes DEF cmdVars
<1> HIDE DEF d
<1>5. PICK g \in Nat : total_children = d * g
  BY DEF Ind, Created, d
<1>6. /\ total_children' \in Nat /\ \E h \in Nat : total_children' = d * h
      /\ total_children' <= n + 1 /\ n + 1 < total_children' + d
      /\ n + 1 = Expected => total_children' = Expected
  <2> DEFINE t == total_children
             r == n + 1 - t
             a == n + 1
  <2>1. t \in Nat /\ t <= n /\ n < t + d /\ t = d * g
    BY <1>5 DEF Ind, TypeInv, Created, d
  <2>2. r \in Nat /\ 0 < r /\ r <= d /\ a \in Nat /\ a = t + r
    BY <1>2, <1>4, <2>1
  <2>3. a <= Expected /\ total_children' = IF a % d = 0 THEN a ELSE t
    BY <1>1, <1>2, <1>4
  <2> HIDE DEF r, a, t
  <2>4. CASE r < d
    <3>1. a % d = r
      BY <1>4, <2>1, <2>2, <2>4, DivUnique
    <3>2. total_children' = t
      BY <2>2, <2>3, <3>1
    <3>3. a # Expected
      <4>1. Expected = d * shape[1] + 0
        BY <1>4
      <4>2. Expected % d = 0
        BY <1>4, <4>1, DivUnique
      <4> QED
        BY <2>2, <3>1, <4>2
    <3>4. t <= a /\ a < t + d
      BY <1>4, <2>1, <2>2, <2>4
    <3> QED
      BY <2>1, <3>2, <3>3, <3>4 DEF a
  <2>5. CASE r = d
    <3>1. g + 1 \in Nat /\ a = d * (g + 1)
      BY <1>4, <2>1, <2>2, <2>5
    <3>2. a = d * (g + 1) + 0
      BY <2>2, <3>1
    <3> DEFINE h == g + 1
    <3> HIDE DEF h
    <3>3. h \in Nat /\ a = d * h + 0 /\ a = d * h
      BY <3>1, <3>2 DEF h
    <3>4. a % d = 0
      <4>1. /\ a \in Nat /\ d \in Nat \ {0} /\ h \in Nat /\ a = d * h + 0
            /\ 0 \in Nat /\ 0 < d
        BY <1>4, <2>2, <3>3
      <4> QED
        BY ONLY <4>1, DivUnique
    <3>5. total_children' = a
      BY <2>3, <3>4
    <3>6. a <= a /\ a < a + d
      BY <1>4, <2>2
    <3> QED
      BY <2>2, <3>3, <3>5, <3>6 DEF a
  <2> QED
    BY <1>4, <2>2, <2>4, <2>5
<1>7. TypeInv'
  <2>1. TypeInv /\ n' \in Nat /\ mpc' \in MainLocs
    BY <1>1, <1>2 DEF Ind, MainLocs
  <2> QED
    BY <1>1, <1>3, <1>4, <1>6, <2>1 DEF TypeInv, cmdVars, dataVars, reapVars, sigVars, histVars
<1>8. Created'
  <2>1. \A v \in Workers : v \in Nat /\ (pc[v] = "unborn" <=> v >= n)
    BY <1>2, Sizes DEF Ind, Created
  <2>2. \A v \in Workers : pc'[v] = "unborn" <=> v >= n'
    BY <1>1, <1>2, <1>3, <2>1
  <2>3. /\ n' <= Expected /\ (mpc' = "create" => n' < Expected)
        /\ mpc' \in {"fifo", "wait", "kick"} => n' = Expected
    BY <1>1, <1>2, <1>4
  <2> QED
    BY <1>1, <1>4, <1>6, <2>2, <2>3 DEF Created, d
<1>9. Started'
  <2>1. \A v \in Workers : (v \in Past => v \in Past') /\ (v \in Past' => v \in Past)
    BY <1>3, <1>4 DEF Past
  <2>2. Past' = Past
    <3>1. Past \subseteq Workers /\ Past' \subseteq Workers
      BY <1>4 DEF Past
    <3> QED
      BY <2>1, <3>1
  <2>3. \A v \in Workers :
          pc'[v] \in {"pump", "spin", "ended"} \/ moved'[v] > 0 => wakefds > 0
    BY <1>1, <1>3 DEF Ind, Started, dataVars
  <2>4. mpc' # "kick" /\ UNCHANGED <<readyfds, wakefds, timer_started>>
    BY <1>1
  <2> QED
    BY <1>4, <2>2, <2>3, <2>4 DEF Ind, Started
<1>10. Quotas'
  <2>1. moved' = moved
    BY <1>1 DEF dataVars
  <2> QED
    BY <1>3, <1>4, <2>1, SameShape DEF Ind, Quotas
<1>11. Streams'
  BY <1>1, <1>4, StreamsFrame DEF Ind, dataVars
<1>12. Reaping'
  <2>1. Reaping /\ mpc' \in {"create", "fifo"}
    BY <1>1 DEF Ind
  <2>2. /\ UNCHANGED <<process_mode, dokill, failed, died, signal_caught, i, reaped, totchld,
                      out>>
    BY <1>1 DEF cmdVars, reapVars, sigVars, histVars
  <2>3. ~dokill /\ out = "" /\ ~failed /\ signal_caught # 1 /\ i = 0 /\ reaped = 0
    BY <1>1, <2>1 DEF Reaping
  <2>4. ~died => \A v \in Workers : pc'[v] # "killed"
    BY <1>3, <2>1, <2>3 DEF Reaping
  <2> QED
    BY <1>4, <2>1, <2>2, <2>3, <2>4 DEF Reaping
<1> QED
  BY <1>7, <1>8, <1>9, <1>10, <1>11, <1>12 DEF Ind

\* Main gives up: what it counts of the workers it has started is all but the last.
LEMMA GroupFailsStep ==
  ASSUME Ind, GroupFails \/ KickFails
  PROVE  Ind'
<1>1. /\ UNCHANGED <<cmdVars, pc, dataVars, readyfds, wakefds, n, total_children, sigVars,
                     timer_started, out, died, i, reaped>>
      /\ mpc \in {"create", "wait", "kick"} /\ mpc' = "signal"
      /\ dokill' = TRUE /\ failed' = TRUE
  BY DEF GroupFails, KickFails, Abort, Main
<1>2. shape' = shape /\ moved' = moved /\ buffer' = buffer /\ pc' = pc
  BY <1>1 DEF cmdVars, dataVars
<1>3. totchld' \in Nat /\ totchld' + 1 >= n
  <2>1. /\ n \in Nat /\ total_children \in Nat /\ Expected \in Nat /\ n <= Expected
        /\ mpc \in {"wait", "kick"} => total_children = Expected
    BY Sizes DEF Ind, TypeInv, Created
  <2>2. CASE GroupFails
    <3> DEFINE a == n - total_children - 1
               b == Max({a, 0})
    <3>1. a \in Int /\ 0 \in Int
      BY <2>1
    <3>2. b \in {a, 0} /\ b >= a /\ b >= 0
      <4> HIDE DEF a
      <4> QED
        BY <3>1, MaxOfTwo
    <3>3. totchld' = total_children + b
      BY <2>2 DEF GroupFails, Abort
    <3> HIDE DEF b
    <3> QED
      BY <2>1, <3>2, <3>3
  <2>3. CASE KickFails
    BY <2>1, <2>3 DEF KickFails, Abort
  <2> QED
    BY <2>2, <2>3
<1>4. TypeInv'
  <2>1. TypeInv /\ pc' \in [Workers -> Locs]
    BY <1>2 DEF Ind, TypeInv
  <2> QED
    BY <1>1, <1>2, <1>3, <2>1, SameShape DEF TypeInv, MainLocs, cmdVars, dataVars, sigVars
<1>5. /\ Quotas' /\ Streams' /\ Workers' = Workers /\ Expected' = Expected
      /\ num_fds' = num_fds /\ Past' = Past
  <2>1. pc \in [Workers -> Locs]
    BY DEF Ind, TypeInv
  <2> QED
    BY <1>2, <2>1, MainFrame DEF Past
<1>6. Created'
  BY <1>1, <1>2, <1>5 DEF Ind, Created
<1>7. Started'
  BY <1>1, <1>2, <1>5 DEF Ind, Started
<1>8. Reaping'
  <2>1. Reaping
    BY DEF Ind
  <2>2. ~dokill /\ out = "" /\ ~failed /\ signal_caught # 1
    BY <1>1, <2>1 DEF Reaping
  <2>3. UNCHANGED <<n, signal_caught, out>>
    BY <1>1 DEF sigVars
  <2> QED
    BY <1>1, <1>3, <2>2, <2>3 DEF Reaping
<1> QED
  BY <1>4, <1>5, <1>6, <1>7, <1>8 DEF Ind

\* Main becomes a SCHED_FIFO task, or ends with barf(), or goes on to the workers: all of
\* them are past their byte when the start is stamped.
LEMMA StartStep ==
  ASSUME Ind, Barf \/ SetFifo \/ ReadReady \/ Kick
  PROVE  Ind'
<1>1. /\ UNCHANGED <<cmdVars, pc, dataVars, readyfds, n, total_children, sigVars, died,
                     failed, dokill, i, reaped>>
      /\ mpc \in {"create", "fifo", "wait", "kick"}
  BY DEF Barf, SetFifo, ReadReady, Kick, Main, reapVars, histVars
<1>2. shape' = shape /\ moved' = moved /\ buffer' = buffer /\ pc' = pc
  BY <1>1 DEF cmdVars, dataVars
<1>3. /\ pc \in [Workers -> Locs] /\ TypeInv /\ Created /\ Started /\ Reaping
      /\ readyfds \in Nat /\ timer_started \in {0, 1}
  BY DEF Ind, TypeInv
<1>4. /\ Quotas' /\ Streams' /\ Workers' = Workers /\ Expected' = Expected
      /\ num_fds' = num_fds /\ Past' = Past /\ Dead' = Dead
      /\ Cardinality(Dead) \in Nat
  BY <1>2, <1>3, MainFrame DEF Past, Dead
<1>5. \/ Barf /\ mpc' = "exit" /\ out' = "barf" /\ mpc \in {"create", "fifo"}
         /\ UNCHANGED <<wakefds, timer_started, totchld>>
      \/ mpc = "fifo" /\ mpc' = "wait" /\ UNCHANGED <<wakefds, timer_started, totchld, out>>
      \/ mpc = "wait" /\ mpc' = "kick" /\ timer_started' = 1 /\ readyfds >= total_children
         /\ UNCHANGED <<wakefds, totchld, out>>
      \/ mpc = "kick" /\ mpc' = "reap" /\ wakefds' = 1 /\ totchld' = total_children
         /\ UNCHANGED <<timer_started, out>>
  BY DEF Barf, SetFifo, ReadReady, Kick, Main, reapVars
<1>6. TypeInv'
  <2>1. /\ mpc' \in MainLocs /\ wakefds' \in {0, 1} /\ timer_started' \in {0, 1}
        /\ totchld' \in Nat /\ out' \in {"", "barf", "time", "nothing"}
    BY <1>3, <1>5 DEF TypeInv, MainLocs
  <2> QED
    BY <1>1, <1>2, <1>3, <1>4, <2>1 DEF TypeInv, cmdVars, sigVars
<1>7. Created'
  BY <1>1, <1>2, <1>3, <1>4, <1>5 DEF Created
<1>8. Started'
  <2>1. mpc = "wait" /\ readyfds >= total_children => Past = Workers
    <3>1. ASSUME mpc = "wait", readyfds >= total_children
          PROVE  Past = Workers
      <4>1. total_children = Expected /\ readyfds <= Cardinality(Past)
        BY <1>3, <3>1 DEF Created, Started
      <4>2. Past \subseteq Past /\ Past \subseteq Workers /\ shape \in Shapes
        BY <1>3 DEF Past, TypeInv
      <4>3. Expected \in Nat
        BY <4>2, Sizes
      <4>4. /\ Cardinality(Past) \in Nat
            /\ Cardinality(Past) >= Expected => Past = Workers
        BY <4>2, SetsOfWorkers
      <4> QED
        BY <1>3, <3>1, <4>1, <4>3, <4>4
    <3> QED
      BY <3>1
  <2>2. \A w \in Workers :
          pc[w] \in {"pump", "spin", "ended"} \/ moved[w] > 0 => wakefds > 0 /\ wakefds' > 0
    <3>1. wakefds > 0 => wakefds' > 0
      BY <1>5
    <3> QED
      BY <1>3, <3>1 DEF Started
  <2> QED
    BY <1>1, <1>2, <1>3, <1>4, <1>5, <2>1, <2>2 DEF Started, TypeInv
<1>9. Reaping'
  <2>1. UNCHANGED <<process_mode, dokill, failed, died, signal_caught, i, reaped, n,
                    total_children>>
    BY <1>1 DEF cmdVars, sigVars
  <2>2. ~dokill /\ out = "" /\ ~failed /\ signal_caught # 1 /\ i = 0 /\ reaped = 0
    BY <1>1, <1>3 DEF Reaping
  <2>3. ~died => \A v \in Workers : pc'[v] # "killed"
    BY <1>2, <1>3, <2>2 DEF Reaping
  <2>4. mpc = "kick" => timer_started = 1 /\ total_children = Expected
    BY <1>3 DEF Started, Created
  <2>5. totchld' \in Nat /\ \A w \in Workers : w \in Nat
    <3>1. shape \in Shapes
      BY <1>3 DEF TypeInv
    <3> QED
      BY <1>4, <1>6, <3>1, Sizes DEF TypeInv
  <2>6. mpc' = "reap" =>
          /\ timer_started' = 1 /\ totchld' = Expected'
          /\ IF process_mode' THEN i' = reaped' /\ reaped' <= Cardinality(Dead)
             ELSE \A w \in Workers : w < i' => pc'[w] = "ended"
    <3>1. ASSUME mpc' = "reap"
          PROVE  timer_started' = 1 /\ totchld' = Expected'
      BY <1>4, <1>5, <2>4, <3>1
    <3>2. i' = 0 /\ reaped' = 0 /\ 0 <= Cardinality(Dead)
      <4>1. 0 <= Cardinality(Dead)
        BY <1>4
      <4> QED
        BY <2>1, <2>2, <4>1
    <3>3. \A w \in Workers : ~(w < 0)
      BY <2>5
    <3> QED
      BY <3>1, <3>2, <3>3
  <2>7. /\ ~dokill' /\ ~failed' /\ signal_caught' # 1 /\ mpc' # "signal" /\ i' = 0
        /\ reaped' = 0 /\ mpc' \in {"wait", "kick", "reap", "exit"}
        /\ IF mpc' = "exit" THEN out' = "barf" ELSE out' = ""
    BY <1>5, <2>1, <2>2
  <2> QED
    BY <1>4, <2>1, <2>3, <2>6, <2>7 DEF Reaping
<1> QED
  BY <1>4, <1>6, <1>7, <1>8, <1>9 DEF Ind

\* Main signals the workers that are counted.
LEMMA SignalWorkersStep ==
  ASSUME Ind, SignalWorkers
  PROVE  Ind'
<1>1. /\ mpc = "signal" /\ mpc' = "reap"
      /\ pc' = [w \in Workers |->
                  IF process_mode /\ w < totchld /\ Alive(w) THEN "killed" ELSE pc[w]]
      /\ UNCHANGED <<cmdVars, dataVars, readyfds, wakefds, n, total_children, reapVars,
                     sigVars, timer_started, out, histVars>>
  BY DEF SignalWorkers, Main
<1>2. TypeInv /\ Created /\ Started /\ Reaping /\ pc \in [Workers -> Locs]
  BY DEF Ind, TypeInv
<1>3. pc' \in [Workers -> Locs]
  BY <1>1, <1>2 DEF Locs
<1>4. shape' = shape /\ moved' = moved /\ buffer' = buffer
  BY <1>1 DEF cmdVars, dataVars
<1>5. \A v \in Workers : pc'[v] = pc[v] \/ (Alive(v) /\ pc'[v] = "killed")
  BY <1>1
<1>6. /\ Quotas' /\ Streams'
      /\ Workers' = Workers /\ Expected' = Expected /\ num_fds' = num_fds
      /\ Cardinality(Past) \in Nat /\ Cardinality(Past') \in Nat
      /\ Cardinality(Past) <= Cardinality(Past') /\ (Past = Workers => Past' = Workers)
      /\ \A v \in Workers : /\ pc'[v] = "unborn" <=> pc[v] = "unborn"
                            /\ pc'[v] \in {"pump", "spin", "ended"} \/ moved'[v] > 0
                                 => wakefds > 0
  BY <1>3, <1>4, <1>5, MainFrame
<1>7. TypeInv'
  BY ZenonT(30), <1>1, <1>2, <1>3, <1>4, <1>6 DEF TypeInv, MainLocs, cmdVars, reapVars,
     sigVars, histVars
<1>8. Created'
  BY <1>1, <1>2, <1>6 DEF Created
<1>9. Started'
  <2>1. readyfds \in Nat /\ readyfds <= Cardinality(Past)
    BY <1>2 DEF TypeInv, Started
  <2>2. readyfds <= Cardinality(Past')
    BY <1>6, <2>1
  <2> QED
    BY <1>1, <1>2, <1>6, <2>2 DEF Started
<1>10. Reaping'
  <2>1. /\ UNCHANGED <<process_mode, dokill, failed, died, signal_caught, i, reaped, totchld,
                       n, total_children, out>>
    BY <1>1 DEF cmdVars, reapVars, sigVars, histVars
  <2>2. dokill
    BY <1>1, <1>2 DEF Reaping
  <2>3. process_mode => \A w \in Workers : w < totchld => ~Alive(w)'
    BY <1>1 DEF Alive, Ended
  <2> QED
    BY <1>1, <1>2, <1>6, <2>1, <2>2, <2>3 DEF Reaping
<1> QED
  BY <1>6, <1>7, <1>8, <1>9, <1>10 DEF Ind

\* Main waits for one more worker, or finds that there is none.
LEMMA ReapStep ==
  ASSUME Ind, Reap
  PROVE  Ind'
<1>1. /\ mpc = "reap" /\ mpc' = "reap" /\ i < totchld /\ i' = i + 1
      /\ \/ /\ IF process_mode THEN Cardinality(Dead) > reaped ELSE pc[i] = "ended"
            /\ reaped' = reaped + 1
         \/ /\ process_mode /\ Cardinality(Dead) = reaped /\ ~\E w \in Workers : Alive(w)
            /\ reaped' = reaped
      /\ UNCHANGED <<cmdVars, pc, dataVars, readyfds, wakefds, n, total_children, totchld,
                     dokill, sigVars, timer_started, out, histVars>>
  BY DEF Reap, Main, Dead
<1>2. /\ TypeInv /\ Created /\ Started /\ Reaping /\ pc \in [Workers -> Locs]
      /\ i \in Nat /\ reaped \in Nat /\ totchld \in Nat /\ shape \in Shapes
  BY DEF Ind, TypeInv
<1>3. shape' = shape /\ moved' = moved /\ buffer' = buffer /\ pc' = pc
  BY <1>1 DEF cmdVars, dataVars
<1>4. /\ Quotas' /\ Streams' /\ Workers' = Workers /\ Expected' = Expected
      /\ num_fds' = num_fds /\ Past' = Past /\ Dead' = Dead
      /\ Cardinality(Dead) \in Nat
  BY <1>2, <1>3, MainFrame DEF Past, Dead
<1>5. TypeInv'
  <2>1. i' \in Nat /\ reaped' \in Nat
    BY <1>1, <1>2
  <2> QED
    BY <1>1, <1>2, <1>3, <1>4, <2>1 DEF TypeInv, cmdVars, sigVars, histVars
<1>6. Created'
  BY <1>1, <1>2, <1>3, <1>4 DEF Created
<1>7. Started'
  BY <1>1, <1>2, <1>3, <1>4 DEF Started
<1>8. Reaping'
  <2>1. UNCHANGED <<process_mode, dokill, failed, died, signal_caught, totchld, n,
                    total_children, timer_started, out>>
    BY <1>1 DEF cmdVars, sigVars, histVars
  <2>2. ASSUME ~dokill
        PROVE  /\ timer_started = 1 /\ totchld = Expected
               /\ process_mode => i = reaped /\ reaped <= Cardinality(Dead)
               /\ ~process_mode => \A w \in Workers : w < i => pc[w] = "ended"
    BY <1>1, <1>2, <2>2 DEF Reaping
  <2>3. ASSUME ~dokill, ~\E w \in Workers : Alive(w)
        PROVE  Cardinality(Dead) = Expected
    <3>1. Past = Workers
      BY <1>2, <2>2, <2>3 DEF Started
    <3>2. Dead = Workers
      BY <2>3, <3>1 DEF Past, Dead, Alive
    <3> QED
      BY <1>2, <3>2, Sizes
  <2>4. ASSUME ~dokill, process_mode
        PROVE  i' = reaped' /\ reaped' <= Cardinality(Dead)
    <3>1. CASE reaped' = reaped + 1 /\ Cardinality(Dead) > reaped
      BY <1>1, <1>2, <1>4, <2>2, <2>4, <3>1
    <3>2. CASE Cardinality(Dead) = reaped /\ ~\E w \in Workers : Alive(w)
      BY <1>1, <1>2, <1>4, <2>2, <2>3, <2>4, <3>2
    <3> QED
      BY <1>1, <2>4, <3>1, <3>2
  <2>5. ASSUME ~dokill, ~process_mode, NEW w \in Workers, w < i'
        PROVE  pc[w] = "ended"
    <3>1. w \in Nat /\ pc[i] = "ended" /\ (w < i \/ w = i)
      BY <1>1, <1>2, <2>5, Sizes
    <3> QED
      BY <2>2, <2>5, <3>1
  <2>6. mpc' = "reap" /\ ~dokill' =>
          /\ timer_started' = 1 /\ totchld' = Expected'
          /\ IF process_mode' THEN i' = reaped' /\ reaped' <= Cardinality(Dead)
             ELSE \A w \in Workers : w < i' => pc'[w] = "ended"
    BY <1>3, <1>4, <2>1, <2>2, <2>4, <2>5
  <2>7. \A w \in Workers : Alive(w)' <=> Alive(w)
    BY <1>3 DEF Alive
  <2>8. dokill /\ process_mode => \A w \in Workers : w < totchld => ~Alive(w)'
    BY <1>1, <1>2, <2>7 DEF Reaping
  <2>9. mpc = "reap" /\ mpc' = "reap" /\ pc' = pc
    BY <1>1, <1>3
  <2> QED
    BY <1>2, <1>4, <2>1, <2>6, <2>8, <2>9 DEF Reaping
<1> QED
  BY <1>4, <1>5, <1>6, <1>7, <1>8 DEF Ind

\* Main has waited for all and prints the time, or barfs: unless it has killed them, all
\* workers are dead.
LEMMA FinishStep ==
  ASSUME Ind, Finish
  PROVE  Ind'
<1>1. /\ mpc = "reap" /\ mpc' = "exit" /\ i = totchld
      /\ UNCHANGED <<cmdVars, pc, dataVars, readyfds, wakefds, n, total_children, reapVars,
                     sigVars, timer_started, histVars>>
      /\ out' \in {"barf", "time", "nothing"}
      /\ dokill /\ signal_caught = 0 => out' = "barf"
  BY DEF Finish, Main
<1>2. /\ TypeInv /\ Created /\ Started /\ Reaping /\ pc \in [Workers -> Locs]
      /\ i \in Nat /\ reaped \in Nat /\ totchld \in Nat /\ shape \in Shapes
  BY DEF Ind, TypeInv
<1>3. shape' = shape /\ moved' = moved /\ buffer' = buffer /\ pc' = pc
  BY <1>1 DEF cmdVars, dataVars
<1>4. /\ Quotas' /\ Streams' /\ Workers' = Workers /\ Expected' = Expected
      /\ num_fds' = num_fds /\ Past' = Past /\ Dead' = Dead
      /\ Cardinality(Dead) \in Nat
  BY <1>2, <1>3, MainFrame DEF Past, Dead
<1>5. TypeInv'
  <2>1. out' \in {"", "barf", "time", "nothing"} /\ mpc' \in MainLocs
    BY <1>1 DEF MainLocs
  <2> QED
    BY <1>1, <1>2, <1>3, <1>4, <2>1 DEF TypeInv, cmdVars, reapVars, sigVars, histVars
<1>6. Created'
  BY <1>1, <1>2, <1>3, <1>4 DEF Created
<1>7. Started'
  BY <1>1, <1>2, <1>3, <1>4 DEF Started
<1>8. Reaping'
  <2>1. UNCHANGED <<process_mode, dokill, failed, died, signal_caught, i, reaped, totchld, n,
                    total_children, timer_started>>
    BY <1>1 DEF cmdVars, reapVars, sigVars, histVars
  <2>2. ASSUME ~dokill
        PROVE  Dead = Workers
    <3>1. /\ i = Expected /\ Expected \in Nat
          /\ process_mode => i = reaped /\ reaped <= Cardinality(Dead)
          /\ ~process_mode => \A w \in Workers : w < i => pc[w] = "ended"
      BY <1>1, <1>2, <2>2, Sizes DEF Reaping
    <3>2. CASE process_mode
      <4>1. Dead \subseteq Dead /\ Dead \subseteq Workers /\ Cardinality(Dead) >= Expected
        BY <1>4, <3>1, <3>2 DEF Dead
      <4> QED
        BY <1>2, <4>1, SetsOfWorkers
    <3>3. CASE ~process_mode
      <4>1. \A w \in Workers : pc[w] = "ended"
        BY <1>2, <3>1, <3>3, Sizes
      <4> QED
        BY <4>1 DEF Dead, Ended
    <3> QED
      BY <3>2, <3>3
  <2>3. \A w \in Workers : Alive(w)' <=> Alive(w)
    BY <1>3 DEF Alive
  <2>4. signal_caught = 0 /\ out' = "time" => ~dokill
    BY <1>1
  <2> QED
    BY <1>1, <1>2, <1>3, <1>4, <2>1, <2>2, <2>3, <2>4 DEF Reaping
<1> QED
  BY <1>4, <1>5, <1>6, <1>7, <1>8 DEF Ind

\* SIGINT: main jumps into its cleanup, and the terminal kills every process.
LEMMA SigcatcherStep ==
  ASSUME Ind, Sigcatcher
  PROVE  Ind'
<1>1. PICK all \in {process_mode, FALSE} :
        pc' = [w \in Workers |-> IF all /\ Alive(w) THEN "killed" ELSE pc[w]]
  BY DEF Sigcatcher
<1>2. /\ mpc \notin {"exit", "killed"} /\ mpc' = "signal"
      /\ signal_caught' = 1 /\ totchld' = total_children /\ dokill' = TRUE /\ i' = 0
      /\ UNCHANGED <<cmdVars, dataVars, readyfds, wakefds, n, total_children, reaped,
                     timer_started, out, histVars>>
  BY DEF Sigcatcher
<1>3. TypeInv /\ Created /\ Started /\ Reaping /\ pc \in [Workers -> Locs]
  BY DEF Ind, TypeInv
<1>4. pc' \in [Workers -> Locs]
  BY <1>1, <1>3 DEF Locs
<1>5. shape' = shape /\ moved' = moved /\ buffer' = buffer
  BY <1>2 DEF cmdVars, dataVars
<1>6. \A v \in Workers : pc'[v] = pc[v] \/ (Alive(v) /\ pc'[v] = "killed")
  BY <1>1
<1>7. /\ Quotas' /\ Streams'
      /\ Workers' = Workers /\ Expected' = Expected /\ num_fds' = num_fds
      /\ Cardinality(Past) \in Nat /\ Cardinality(Past') \in Nat
      /\ Cardinality(Past) <= Cardinality(Past') /\ (Past = Workers => Past' = Workers)
      /\ \A v \in Workers : /\ pc'[v] = "unborn" <=> pc[v] = "unborn"
                            /\ pc'[v] \in {"pump", "spin", "ended"} \/ moved'[v] > 0
                                 => wakefds > 0
  BY <1>4, <1>5, <1>6, MainFrame
<1>8. TypeInv'
  <2>1. total_children \in Nat /\ i' \in Nat /\ mpc' \in MainLocs /\ signal_caught' \in {0, 1}
    BY <1>2, <1>3 DEF TypeInv, MainLocs
  <2> QED
    BY <1>2, <1>3, <1>4, <1>5, <1>7, <2>1 DEF TypeInv, cmdVars, histVars
<1>9. Created'
  BY <1>2, <1>3, <1>7 DEF Created
<1>10. Started'
  <2>1. readyfds \in Nat /\ readyfds <= Cardinality(Past)
    BY <1>3 DEF TypeInv, Started
  <2>2. readyfds <= Cardinality(Past')
    BY <1>7, <2>1
  <2> QED
    BY <1>2, <1>3, <1>7, <2>2 DEF Started
<1>11. Reaping'
  <2>1. out = ""
    BY <1>2, <1>3 DEF Reaping
  <2>2. /\ mpc' = "signal" /\ signal_caught' = 1 /\ dokill' = TRUE
        /\ totchld' = total_children' /\ out' = ""
    BY <1>2, <2>1
  <2> QED
    <3>1. dokill'
      BY <2>2
    <3>2. signal_caught' = 1 /\ signal_caught' # 0
      <4>1. signal_caught' = 1
        BY <2>2, Zenon
      <4> QED
        BY ONLY <4>1
    <3>3. /\ mpc' \in {"signal", "reap", "exit", "killed"}
          /\ mpc' \notin {"create", "fifo", "wait", "kick"}
          /\ mpc' # "reap" /\ mpc' # "exit"
      BY <2>2
    <3>4. totchld' = total_children' /\ out' = "" /\ out' # "time"
      BY <2>2
    <3> QED
      BY ONLY <3>1, <3>2, <3>3, <3>4, Zenon DEF Reaping
<1> QED
  BY <1>7, <1>8, <1>9, <1>10, <1>11 DEF Ind

\* The signal kills main, or nothing happens.
LEMMA SignalDefaultStep ==
  ASSUME Ind, SignalDefault \/ UNCHANGED vars
  PROVE  Ind'
<1>1. /\ UNCHANGED <<cmdVars, pc, dataVars, readyfds, wakefds, n, total_children, reapVars,
                     sigVars, timer_started, out, histVars>>
      /\ mpc' = mpc \/ (mpc' = "killed" /\ mpc # "exit")
  BY DEF SignalDefault, vars, cmdVars, dataVars, reapVars, sigVars, histVars
<1>2. TypeInv /\ Created /\ Started /\ Reaping /\ pc \in [Workers -> Locs]
  BY DEF Ind, TypeInv
<1>3. shape' = shape /\ moved' = moved /\ buffer' = buffer /\ pc' = pc
  BY <1>1 DEF cmdVars, dataVars
<1>4. /\ Quotas' /\ Streams' /\ Workers' = Workers /\ Expected' = Expected
      /\ num_fds' = num_fds /\ Past' = Past /\ Dead' = Dead
  BY <1>2, <1>3, MainFrame DEF Past, Dead
<1>5. TypeInv'
  <2>1. mpc' \in MainLocs
    BY <1>1, <1>2 DEF TypeInv, MainLocs
  <2> QED
    BY <1>1, <1>2, <1>3, <1>4, <2>1 DEF TypeInv, cmdVars, reapVars, sigVars, histVars
<1>6. Created'
  BY <1>1, <1>2, <1>3, <1>4 DEF Created
<1>7. Started'
  BY <1>1, <1>2, <1>3, <1>4 DEF Started
<1>8. Reaping'
  <2>1. \A w \in Workers : Alive(w)' <=> Alive(w)
    BY <1>3 DEF Alive
  <2>2. UNCHANGED <<process_mode, dokill, failed, died, signal_caught, i, reaped, totchld, n,
                    total_children, timer_started, out>>
    BY <1>1 DEF cmdVars, reapVars, sigVars, histVars
  <2>3. dokill /\ process_mode /\ mpc' \in {"reap", "exit"} =>
          \A w \in Workers : w < totchld => ~Alive(w)'
    BY <1>1, <1>2, <2>1 DEF Reaping
  <2>4. Reaping /\ pc' = pc /\ (mpc' = mpc \/ (mpc' = "killed" /\ mpc # "exit"))
    BY <1>1, <1>2, <1>3
  <2>5. CASE mpc' = mpc
    BY <1>4, <2>2, <2>3, <2>4, <2>5 DEF Reaping
  <2>6. CASE mpc' = "killed" /\ mpc # "exit"
    <3>1. out = ""
      BY <2>4, <2>6 DEF Reaping
    <3>2. /\ dokill' <=> failed' \/ signal_caught' = 1
          /\ signal_caught' = 1 => totchld' = total_children'
          /\ failed' /\ signal_caught' = 0 => totchld' + 1 >= n'
          /\ ~dokill' /\ ~died' => \A w \in Workers : pc'[w] # "killed"
      BY <2>2, <2>4 DEF Reaping
    <3>3. mpc' = "killed" /\ out' = "" /\ Workers' = Workers
      BY <1>4, <2>2, <2>6, <3>1
    <3> QED
      BY ONLY <3>2, <3>3 DEF Reaping
  <2> QED
    BY <2>4, <2>5, <2>6
<1> QED
  BY <1>4, <1>5, <1>6, <1>7, <1>8 DEF Ind

-----------------------------------------------------------------------------
(* The invariant *)

\* At the start nobody is there and no byte has moved.
LEMMA IndInit == Init => Ind
<1> SUFFICES ASSUME Init
             PROVE  Ind
  OBVIOUS
<1>1. shape \in Shapes
  BY DEF Init
<1>2. /\ Expected \in Nat \ {0} /\ num_fds \in Nat \ {0} /\ Workers = {w \in Nat : w < Expected}
      /\ \A w : Quota(w) \in Nat \ {0}
  BY <1>1, Sizes
<1>9. ASSUME NEW w \in Workers
      PROVE  pc[w] = "unborn" /\ moved[w] = 0 /\ buffer[w] = 0
  BY DEF Init
<1>10. readyfds = 0 /\ wakefds = 0 /\ timer_started = 0
  BY DEF Init
<1>11. mpc = "create" /\ out = ""
  BY DEF Init
<1>12. ~dokill /\ ~failed
  BY DEF Init
<1>13. i = 0 /\ reaped = 0 /\ signal_caught = 0
  BY DEF Init
<1>3. TypeInv
  BY DEF Init, TypeInv, Locs, MainLocs
<1>4. Created
  <2>1. 0 \in Nat /\ 2 * num_fds * 0 = 0 /\ 0 < 0 + 2 * num_fds
    BY <1>2
  <2>2. total_children = 0 /\ n = 0 /\ mpc = "create" /\ \A w \in Workers : pc[w] = "unborn"
    BY DEF Init
  <2>3. \E g \in Nat : total_children = 2 * num_fds * g
    BY <2>1, <2>2
  <2> QED
    BY <1>2, <2>1, <2>2, <2>3 DEF Created
<1>5. Started
  <2>1. Past \subseteq Past /\ Past \subseteq Workers
    BY DEF Past
  <2>2. Cardinality(Past) \in Nat
    BY <1>1, <2>1, SetsOfWorkers
  <2> QED
    <3>1. readyfds <= Cardinality(Past) /\ timer_started # 1 /\ ~(wakefds > 0)
      BY <1>10, <2>2
    <3>2. mpc # "kick"
      BY <1>11
    <3>3. ASSUME NEW w \in Workers
          PROVE  ~(pc[w] \in {"pump", "spin", "ended"} \/ moved[w] > 0)
      <4>1. pc[w] = "unborn" /\ moved[w] = 0
        BY <1>9
      <4> QED
        BY <4>1
    <3> QED
      BY ONLY <3>1, <3>2, <3>3, Zenon DEF Started
<1>6. Quotas
  <2>1. ASSUME NEW w \in Workers
        PROVE  /\ moved[w] = 0 /\ moved[w] <= Quota(w) /\ moved[w] < Quota(w)
               /\ pc[w] # "ended"
    <3>1. Quota(w) \in Nat \ {0}
      BY <1>2
    <3>2. moved[w] = 0 /\ pc[w] = "unborn"
      BY <1>9
    <3> QED
      BY <3>1, <3>2
  <2> QED
    BY ONLY <2>1, Zenon DEF Quotas
<1>7. Streams
  <2>1. \A r \in Workers : BytesTo(r) = {}
    <3>1. ASSUME NEW x \in Workers \X Nat
          PROVE  ~(x[2] < moved[x[1]])
      <4>1. x[1] \in Workers /\ x[2] \in Nat
        OBVIOUS
      <4>2. moved[x[1]] = 0
        BY <1>9, <4>1
      <4> QED
        BY <4>1, <4>2
    <3> QED
      BY <3>1 DEF BytesTo
  <2>2. Cardinality({}) = 0
    BY FS_EmptySet
  <2> QED
    <3>1. ASSUME NEW r \in Workers
          PROVE  /\ buffer[r] = 0 /\ moved[r] + buffer[r] = 0
                 /\ Cardinality(BytesTo(r)) = 0
      <4>1. buffer[r] = 0 /\ moved[r] = 0
        BY <1>9
      <4>2. Cardinality(BytesTo(r)) = 0
        BY <2>1, <2>2, Zenon
      <4> QED
        BY <4>1, <4>2
    <3> QED
      BY ONLY <3>1, Zenon DEF Streams
<1>8. Reaping
  <2>1. signal_caught # 1 /\ i = 0 /\ reaped = 0
    BY <1>13
  <2>2. /\ mpc # "signal" /\ mpc \notin {"reap", "exit"} /\ mpc # "reap" /\ mpc # "exit"
        /\ out = "" /\ out # "time"
    BY <1>11
  <2>3. ASSUME NEW w \in Workers
        PROVE  pc[w] # "killed"
    <3>1. pc[w] = "unborn"
      BY <1>9
    <3> QED
      BY <3>1
  <2> QED
    BY ONLY <1>12, <2>1, <2>2, <2>3, Zenon DEF Reaping
<1> QED
  BY <1>3, <1>4, <1>5, <1>6, <1>7, <1>8 DEF Ind

\* The invariant is inductive.
THEOREM Invariance == Spec => []Ind
<1>1. Ind /\ [Next]_vars => Ind'
  <2> SUFFICES ASSUME Ind, [Next]_vars
               PROVE  Ind'
    OBVIOUS
  <2>1. CASE \E w \in Workers : WorkerStep(w) \/ Die(w)
    BY <2>1, ResetStep, ReadyStep, PollStep, WriteStep, WriteBrokenStep, ReadStep,
       ReadEofStep, DieStep DEF WorkerStep
  <2>2. CASE MainStep
    BY <2>2, CreateWorkerStep, GroupFailsStep, StartStep, SignalWorkersStep, ReapStep,
       FinishStep DEF MainStep
  <2>3. CASE Sigcatcher \/ SignalDefault \/ UNCHANGED vars
    BY <2>3, SigcatcherStep, SignalDefaultStep
  <2> QED
    BY <2>1, <2>2, <2>3 DEF Next
<1> QED
  BY <1>1, IndInit, PTL DEF Spec

-----------------------------------------------------------------------------
(* The properties *)

\* The time that hackbench prints is that of all the traffic and of nothing else: no byte
\* moves before all workers are ready and the start is stamped, and when main prints the
\* time of an undisturbed run all bytes were read, for any command line and any sizes.
THEOREM TimeIsOfTraffic == Spec => []TimeSpansTraffic
<1>1. Ind => TimeSpansTraffic
  <2> SUFFICES ASSUME Ind
               PROVE  TimeSpansTraffic
    OBVIOUS
  <2>1. ASSUME NEW w \in Workers, moved[w] > 0
        PROVE  /\ timer_started = 1
               /\ \A v \in Workers : pc[v] \notin {"unborn", "born", "ready"}
    <3>1. timer_started = 1 /\ Past = Workers
      BY <2>1 DEF Ind, Started
    <3> QED
      BY <3>1 DEF Past
  <2>2. ASSUME out = "time", signal_caught = 0, ~died, NEW w \in Workers
        PROVE  pc[w] = "ended" /\ moved[w] = Quota(w) /\ buffer[w] = 0
    <3>1. Dead = Workers /\ \A v \in Workers : pc[v] # "killed"
      BY <2>2 DEF Ind, Reaping
    <3>2. pc[w] = "ended"
      BY <3>1 DEF Dead, Ended
    <3>3. moved[w] = Quota(w) /\ \A v \in Workers : moved[v] <= Quota(v)
      BY <3>2 DEF Ind, Quotas
    <3>4. buffer[w] = 0
      <4>1. CASE IsReceiver(w)
        <5>1. Cardinality(BytesTo(w)) <= Quota(w)
          BY <3>3, <4>1, BytesBound DEF Ind
        <5>2. Cardinality(BytesTo(w)) = moved[w] + buffer[w]
          BY <4>1 DEF Ind, Streams
        <5>3. moved[w] \in Nat /\ buffer[w] \in Nat
          BY DEF Ind, TypeInv
        <5> QED
          BY <3>3, <5>1, <5>2, <5>3
      <4>2. CASE ~IsReceiver(w)
        BY <4>2 DEF Ind, Streams
      <4> QED
        BY <4>1, <4>2
    <3> QED
      BY <3>2, <3>3, <3>4
  <2> QED
    BY <2>1, <2>2 DEF TimeSpansTraffic
<1> QED
  BY <1>1, Invariance, PTL

\* When main has ended no process is left behind, but for the exceptions that the code
\* makes: the last worker of a group that failed, the group that a signal interrupted,
\* and the workers of a barf() outside reap_workers().
THEOREM NoProcessStays == Spec => []NobodyLeftBehind
<1>1. Ind => NobodyLeftBehind
  <2> SUFFICES ASSUME Ind, mpc = "exit", process_mode
               PROVE  LET left == {w \in Workers : Alive(w)}
                      IN \/ left = {}
                         \/ signal_caught = 1 /\ \A w \in left : w >= total_children
                         \/ signal_caught = 0 /\ failed /\ left \subseteq {n - 1}
                         \/ signal_caught = 0 /\ out = "barf" /\ ~failed
    BY DEF NobodyLeftBehind
  <2> DEFINE left == {w \in Workers : Alive(w)}
  <2>1. /\ \A w \in Workers : w \in Nat /\ (w >= n => ~Alive(w))
        /\ total_children \in Nat /\ totchld \in Nat /\ n \in Nat /\ signal_caught \in {0, 1}
    <3>1. shape \in Shapes
      BY DEF Ind, TypeInv
    <3> QED
      BY <3>1, Sizes DEF Ind, TypeInv, Created, Alive
  <2>2. CASE signal_caught = 1
    <3>1. totchld = total_children /\ \A w \in Workers : w < totchld => ~Alive(w)
      BY <2>2 DEF Ind, Reaping
    <3>2. \A w \in left : w >= total_children
      BY <2>1, <3>1
    <3> QED
      BY <2>2, <3>2
  <2>3. CASE signal_caught = 0 /\ failed
    <3>1. totchld + 1 >= n /\ \A w \in Workers : w < totchld => ~Alive(w)
      BY <2>3 DEF Ind, Reaping
    <3>2. \A w \in left : w = n - 1
      BY <2>1, <3>1
    <3> QED
      BY <2>3, <3>2
  <2>4. CASE signal_caught = 0 /\ ~failed
    <3>1. out = "barf" \/ Dead = Workers
      <4>1. Reaping /\ dokill \in BOOLEAN /\ failed \in BOOLEAN
        BY DEF Ind, TypeInv
      <4>2. dokill <=> failed \/ signal_caught = 1
        BY <4>1 DEF Reaping
      <4>3. ~dokill
        BY <2>4, <4>2
      <4> QED
        BY <4>1, <4>3 DEF Reaping
    <3>2. Dead = Workers => left = {}
      BY DEF Dead, Alive
    <3> QED
      BY <2>4, <3>1, <3>2
  <2> QED
    BY <2>1, <2>2, <2>3, <2>4
<1> QED
  BY <1>1, Invariance, PTL

=============================================================================

--------------------------- MODULE RtMigrateProofs ---------------------------
(***************************************************************************)
(* Proofs about RtMigrate for every number of tasks and of --loops, every  *)
(* affinity mask and whatever the tasks measure.                           *)
(***************************************************************************)
EXTENDS RtMigrate, FiniteSetTheorems, WellFoundedInduction, TLAPS

-----------------------------------------------------------------------------
(* The inductive invariant *)

Records == [round : Int, cpu : Int, time : Nat, length : Nat, loops : Nat]

\* The types of the variables.
TypeInv ==
  /\ mask \in Masks
  /\ pc \in [Tasks -> {"unborn", "top", "start", "bound", "record", "end", "ended"}]
  /\ mpc \in {"create", "start", "sleep", "end", "check", "last", "done", "lastend",
              "join", "exit"}
  /\ cpu \in Nat /\ here \in Int
  /\ table \in [Rows -> [Tasks -> Records]]
  /\ loop \in Nat /\ nr_runs \in Nat /\ i \in Nat /\ round \in Nat
  /\ done \in {0, 1} /\ stop \in {0, 1}
  /\ check \in {-1, 0, 1} /\ status \in {-1, 0, 1, 2}

\* Main is before the last of the --loops rounds is over, or after it.
Early == mpc \in {"create", "start", "sleep", "end", "check"}
Late  == mpc \in {"last", "done", "lastend", "join"} \/ (mpc = "exit" /\ round > 0)

\* The side of the barriers on which the tasks are, by where main is; done is only
\* set while all of them are between the two.
Sides ==
  /\ mpc = "create" =>
       /\ i < NrTasks
       /\ \A t \in Tasks : IF t < i THEN pc[t] \in {"top", "start"} ELSE pc[t] = "unborn"
  /\ mpc \in {"start", "check", "last"} => \A t \in Tasks : pc[t] \in {"top", "start"}
  /\ mpc \in {"sleep", "end", "done", "lastend"} =>
       \A t \in Tasks : pc[t] \in {"bound", "record", "end"}
  /\ mpc = "join" => \A t \in Tasks : pc[t] \in {"top", "ended"}
  /\ Early \/ mpc \in {"last", "done"} => done = 0
  /\ mpc \in {"lastend", "join"} => done = 1
  /\ \A t \in Tasks : pc[t] = "record" => loop < nr_runs

\* The round the tasks are in, and the row of the table that loop gives them.
Counts ==
  /\ Early => loop < nr_runs /\ nr_runs = NrRuns
  /\ Late => loop = nr_runs /\ 1 <= nr_runs /\ nr_runs <= NrRuns
  /\ mpc = "create" => loop = 0
  /\ mpc \in {"create", "start", "last"} => round = loop
  /\ mpc \in {"sleep", "end", "check", "done", "lastend", "join"} => round = loop + 1
  /\ mpc # "exit" => status = 2
  /\ status \in {0, 1} => Late

\* Task t has recorded row l.
Filled(l, t) ==
  \/ l < loop
  \/ /\ l = loop /\ loop < nr_runs
     /\ mpc = "check" \/ (mpc \in {"sleep", "end"} /\ pc[t] = "end")

Table == \A l \in Rows, t \in Tasks : table[l][t].round = IF Filled(l, t) THEN l ELSE -1

\* What the checks of the rounds have left in check, nr_runs and stop.
Checks ==
  /\ Early => check # -1
  /\ Early /\ check = 1 => \A l \in Rows : l < loop => ~check_times(l)
  /\ Late /\ check = -1 => \A l \in Rows : l = nr_runs - 1 => check_times(l)
  /\ Late /\ check # 0 => \A l \in Rows : l < nr_runs - 1 => ~check_times(l)
  /\ Late /\ check = 1 /\ stop = 0 => \A l \in Rows : l = nr_runs - 1 => ~check_times(l)
  /\ Late /\ check # -1 /\ stop = 0 => nr_runs = NrRuns
  /\ status = -1 /\ round > 0 => check = -1
  /\ status = 0 => check # -1 /\ stop = 0
  /\ status = 1 => check # -1 /\ stop = 1

\* The CPUs from 0 to the first gap of the mask.
Reach == {c \in mask \cup {0} : 1 .. c \subseteq mask}
N     == Cardinality(Reach)

\* Where the highest task's turn is, in a round and between two of them.
Turn ==
  /\ pc[High] \in {"unborn", "top"} =>
       IF round = 0 THEN cpu = 0 ELSE here = (round - 1) % N /\ cpu = here + 1
  /\ pc[High] = "start" => here = round % N /\ cpu = here + 1
  /\ pc[High] \in {"bound", "record", "end"} =>
       here = (round - 1) % N /\ cpu = here + 1
  /\ \A l \in Rows : table[l][High].round # -1 => table[l][High].cpu = l % N

Ind == TypeInv /\ Sides /\ Counts /\ Table /\ Checks /\ Turn

-----------------------------------------------------------------------------
(* The rotation *)

\* There is a first and a last task.
LEMMA TasksNonEmpty ==
  /\ NrTasks \in Nat /\ NrTasks >= 1 /\ NrRuns \in Nat /\ NrRuns >= 1
  /\ High \in Tasks
  /\ \A t \in Tasks : t \in Int /\ 0 <= t /\ t < NrTasks
  /\ \A l \in Int : l \in Rows <=> 0 <= l /\ l < NrRuns
  /\ Rows \subseteq Int
  BY ConstantsAssumption DEF Tasks, High, Rows

\* Every set of naturals has a least element.
LEMMA LeastElement ==
  ASSUME NEW S \in SUBSET Nat, S # {}
  PROVE  \E x \in S : \A y \in S : x <= y
<1>1. PICK x \in S : \A y \in S : ~ (<<y, x>> \in OpToRel(<, Nat))
  BY NatLessThanWellFounded, WFMin
<1>2. ASSUME NEW y \in S, y < x
      PROVE  <<y, x>> \in OpToRel(<, Nat)
  BY <1>2 DEF OpToRel
<1>3. \A y \in S : ~ (y < x)
  BY <1>1, <1>2
<1> QED
  BY <1>3

\* The CPUs the highest task reaches are those below the first gap.
LEMMA ReachIsInterval ==
  ASSUME mask \in Masks
  PROVE  N \in Nat /\ N >= 1 /\ Reach = 0 .. (N - 1)
<1>1. mask \subseteq Nat /\ IsFiniteSet(mask)
  BY ConstantsAssumption
<1>2. 0 \in Reach /\ Reach \subseteq Nat /\ Reach \subseteq mask \cup {0}
  <2>1. 1 .. 0 \subseteq mask
    OBVIOUS
  <2>2. 0 \in Reach
    BY <2>1, Zenon DEF Reach
  <2>3. Reach \subseteq mask \cup {0}
    BY Zenon DEF Reach
  <2> QED
    BY <1>1, <2>2, <2>3
<1>3. IsFiniteSet(mask \cup {0})
  BY <1>1, FS_AddElement
<1>4. Nat \ Reach # {}
  <2> SUFFICES ASSUME Nat \subseteq mask \cup {0}
               PROVE  FALSE
    BY <1>2
  <2>1. PICK c \in Nat : c = Cardinality(mask \cup {0})
    BY <1>3, FS_CardinalityType
  <2>2. Cardinality(0 .. c) = c + 1
    BY FS_Interval
  <2>3. 0 .. c \subseteq mask \cup {0}
    OBVIOUS
  <2>4. Cardinality(0 .. c) <= c
    BY <1>3, <2>1, <2>3, FS_Subset
  <2> QED
    BY <2>2, <2>4
<1>5. PICK g \in Nat \ Reach : \A y \in Nat \ Reach : g <= y
  BY <1>4, LeastElement
<1>6. g >= 1
  BY <1>2, <1>5
<1>7. ASSUME NEW c \in Reach
      PROVE  c < g
  <2> SUFFICES ASSUME g <= c
               PROVE  g \in Reach
    BY <1>2, <1>5
  <2>1. 1 .. g \subseteq 1 .. c
    BY <1>2
  <2>2. 1 .. g \subseteq mask
    BY <2>1 DEF Reach
  <2>3. g \in 1 .. g
    BY <1>6
  <2> QED
    BY <2>2, <2>3 DEF Reach
<1>8. Reach = 0 .. (g - 1)
  <2>1. ASSUME NEW c \in Reach
        PROVE  c \in 0 .. (g - 1)
    BY <1>2, <1>7
  <2>2. ASSUME NEW c \in 0 .. (g - 1)
        PROVE  c \in Reach
    BY <1>5
  <2> QED
    BY <2>1, <2>2
<1>9. N = g
  BY <1>6, <1>8, FS_Interval DEF N
<1> QED
  BY <1>6, <1>8, <1>9

\* The remainder is the only one.
LEMMA Remainder ==
  ASSUME NEW n \in Nat, n >= 1, NEW q \in Int, NEW m \in Int, 0 <= m, m < n
  PROVE  (q * n + m) % n = m
<1>1. PICK a \in Int : a = q * n + m
  OBVIOUS
<1>2. PICK p \in Int : p = a \div n
  OBVIOUS
<1>3. PICK r \in Int : r = a % n
  OBVIOUS
<1>4. a = (p * n) + r /\ 0 <= r /\ r < n
  BY <1>2, <1>3, SMT
<1>5. (q - p) * n = r - m
  BY <1>1, <1>4, SMT
<1>6. PICK d \in Int : d = q - p
  OBVIOUS
<1>7. (d >= 1 => d * n >= n) /\ (d <= -1 => d * n <= -n)
  BY SMT
<1>8. d = 0
  BY <1>4, <1>5, <1>6, <1>7, SMT
<1>9. r = m
  BY <1>4, <1>5, <1>6, <1>8, SMT
<1> QED
  BY <1>1, <1>3, <1>9

\* One more round is one CPU further, or CPU 0 after the last.
LEMMA NextRemainder ==
  ASSUME NEW n \in Nat, n >= 1, NEW r \in Nat
  PROVE  /\ r % n \in Nat /\ r % n < n
         /\ (r + 1) % n = IF (r % n) + 1 < n THEN (r % n) + 1 ELSE 0
         /\ 0 % n = 0
<1>1. PICK p \in Int : p = r \div n
  OBVIOUS
<1>2. PICK m \in Int : m = r % n
  OBVIOUS
<1>3. r = (p * n) + m /\ 0 <= m /\ m < n
  BY <1>1, <1>2, SMT
<1>4. CASE m + 1 < n
  <2>1. r + 1 = p * n + (m + 1)
    BY <1>3, SMT
  <2>2. (p * n + (m + 1)) % n = m + 1
    BY <1>3, <1>4, Remainder
  <2> QED
    BY <1>2, <1>3, <1>4, <2>1, <2>2, SMT
<1>5. CASE m + 1 >= n
  <2>1. r + 1 = (p + 1) * n + 0
    BY <1>3, <1>5, SMT
  <2>2. p + 1 \in Int
    OBVIOUS
  <2>3. ((p + 1) * n + 0) % n = 0
    BY <2>2, Remainder
  <2> QED
    BY <1>2, <1>3, <1>5, <2>1, <2>3, SMT
<1> QED
  BY <1>3, <1>4, <1>5, SMT

\* The mask never changes, and so neither do the CPUs within reach.
LEMMA ReachFrame ==
  ASSUME UNCHANGED mask
  PROVE  Reach' = Reach /\ N' = N
<1>1. Reach' = Reach
  BY DEF Reach
<1> QED
  BY <1>1 DEF N

\* check_times() reads the table only.
LEMMA CheckFrame ==
  ASSUME UNCHANGED table
  PROVE  \A l : check_times(l)' <=> check_times(l)
  BY DEF check_times

-----------------------------------------------------------------------------
(* The steps *)

\* The invariant holds when main starts.
LEMMA IndInit == Init => Ind
<1> SUFFICES ASSUME Init
             PROVE  Ind
  OBVIOUS
<1>1. None \in Records
  BY DEF None, Records
<1>2. TypeInv
  BY <1>1, TasksNonEmpty DEF Init, TypeInv
<1>3. Sides
  BY TasksNonEmpty DEF Init, Sides, Early
<1>4. Counts
  BY TasksNonEmpty DEF Init, Counts, Early, Late
<1>5. Table
  <2>1. \A l \in Rows, t \in Tasks : table[l][t].round = -1
    BY DEF Init, None
  <2>2. \A l \in Rows, t \in Tasks : ~Filled(l, t)
    BY TasksNonEmpty DEF Init, Filled
  <2> QED
    BY <2>1, <2>2 DEF Table
<1>6. Checks
  BY TasksNonEmpty DEF Init, Checks, Early, Late
<1>7. Turn
  <2>1. \A l \in Rows : table[l][High].round = -1
    BY TasksNonEmpty DEF Init, None
  <2> QED
    BY <2>1, TasksNonEmpty DEF Init, Turn
<1> QED
  BY <1>2, <1>3, <1>4, <1>5, <1>6, <1>7 DEF Ind

\* All tasks leave the start barrier together.
LEMMA StartBarrierStep ==
  ASSUME Ind, StartBarrier
  PROVE  Ind'
<1> USE DEF StartBarrier, Barrier, taskVars, mainVars
<1>1. TypeInv'
  BY DEF Ind, TypeInv
<1>2. Sides'
  BY DEF Ind, TypeInv, Sides, Early
<1>3. Counts'
  BY DEF Ind, TypeInv, Counts, Early, Late
<1>4. Table'
  BY TasksNonEmpty DEF Ind, TypeInv, Counts, Early, Late, Table, Filled
<1>5. Checks'
  BY CheckFrame DEF Ind, TypeInv, Counts, Checks, Early, Late
<1>6. Turn'
  BY ReachFrame, TasksNonEmpty DEF Ind, TypeInv, Turn
<1> QED
  BY <1>1, <1>2, <1>3, <1>4, <1>5, <1>6 DEF Ind

\* All tasks leave the end barrier together.
LEMMA EndBarrierStep ==
  ASSUME Ind, EndBarrier
  PROVE  Ind'
<1> USE DEF EndBarrier, Barrier, taskVars, mainVars
<1>1. TypeInv'
  BY DEF Ind, TypeInv
<1>2. Sides'
  BY DEF Ind, TypeInv, Sides, Early
<1>3. Counts'
  BY DEF Ind, TypeInv, Counts, Early, Late
<1>4. Table'
  BY TasksNonEmpty DEF Ind, TypeInv, Counts, Early, Late, Table, Filled
<1>5. Checks'
  BY CheckFrame DEF Ind, TypeInv, Counts, Checks, Early, Late
<1>6. Turn'
  BY ReachFrame, TasksNonEmpty DEF Ind, TypeInv, Counts, Turn
<1> QED
  BY <1>1, <1>2, <1>3, <1>4, <1>5, <1>6 DEF Ind

\* The highest task takes its turn: the CPU of the round that follows.
LEMMA RotateTurn ==
  ASSUME Ind, Top(High), done = 0
  PROVE  here' = round % N /\ cpu' = here' + 1 /\ cpu' \in Nat /\ here' \in Int
<1> USE DEF Top, Task
<1>1. N \in Nat /\ N >= 1 /\ Reach = 0 .. (N - 1)
  BY ReachIsInterval DEF Ind, TypeInv
<1>2. here' = Rotate(cpu) /\ cpu' = here' + 1
  BY DEF Ind, TypeInv
<1>3. Rotate(cpu) = round % N
  <2>1. CASE round = 0
    BY <1>1, <2>1, NextRemainder DEF Ind, Turn, Rotate
  <2>2. CASE round # 0
    <3>1. PICK r \in Nat : r = round - 1
      BY <2>2 DEF Ind, TypeInv
    <3>2. here = r % N /\ cpu = here + 1
      BY <2>2, <3>1 DEF Ind, Turn
    <3>a. /\ r % N \in Nat /\ r % N < N
          /\ (r + 1) % N = IF (r % N) + 1 < N THEN (r % N) + 1 ELSE 0
      BY <1>1, NextRemainder
    <3>b. r + 1 = round
      BY <3>1 DEF Ind, TypeInv
    <3>3. here \in Nat /\ here < N /\ round % N = IF here + 1 < N THEN here + 1 ELSE 0
      BY <3>2, <3>a, <3>b, Zenon
    <3>4. 1 .. here \subseteq mask
      BY <1>1, <3>3 DEF Reach
    <3>5. here + 1 \in mask <=> here + 1 \in Reach
      <4>1. here + 1 \in mask => 1 .. (here + 1) \subseteq mask
        BY <3>3, <3>4
      <4>2. here + 1 # 0
        BY <3>3
      <4> QED
        BY <4>1, <4>2, Zenon DEF Reach
    <3>6. here + 1 \in mask <=> here + 1 < N
      BY <1>1, <3>3, <3>5
    <3> QED
      BY <3>2, <3>3, <3>6 DEF Rotate
  <2> QED
    BY <2>1, <2>2
<1>4. round % N \in Nat
  BY <1>1, NextRemainder DEF Ind, TypeInv
<1> QED
  BY <1>2, <1>3, <1>4

\* A task looks at done; the highest moves to its next CPU.
LEMMA TopStep ==
  ASSUME Ind, NEW t \in Tasks, Top(t)
  PROVE  Ind'
<1> USE DEF Top, Task, mainVars
<1>1. TypeInv'
  <2>1. pc' = [pc EXCEPT ![t] = IF done = 0 THEN "start" ELSE "ended"]
        /\ UNCHANGED <<mask, mpc, table, loop, nr_runs, i, round, done, stop, check, status>>
    OBVIOUS
  <2>2. cpu' \in Nat /\ here' \in Int
    <3>1. CASE t = High /\ done = 0
      BY <3>1, RotateTurn
    <3>2. CASE ~(t = High /\ done = 0)
      BY <3>2 DEF Ind, TypeInv
    <3> QED
      BY <3>1, <3>2
  <2>3. pc' \in [Tasks -> {"unborn", "top", "start", "bound", "record", "end", "ended"}]
    BY <2>1 DEF Ind, TypeInv
  <2>4. TypeInv
    BY DEF Ind
  <2> QED
    BY ONLY <2>1, <2>2, <2>3, <2>4 DEF TypeInv
<1>2. Sides'
  BY TasksNonEmpty DEF Ind, TypeInv, Sides, Early
<1>3. Counts'
  BY DEF Ind, TypeInv, Counts, Early, Late
<1>4. Table'
  BY DEF Ind, TypeInv, Sides, Table, Filled
<1>5. Checks'
  BY CheckFrame DEF Ind, TypeInv, Checks, Early, Late
<1>6. Turn'
  <2>1. CASE t = High /\ done = 0
    BY <2>1, RotateTurn, ReachFrame, TasksNonEmpty DEF Ind, TypeInv, Turn
  <2>2. CASE t = High /\ done = 1
    BY <2>2, ReachFrame, TasksNonEmpty DEF Ind, TypeInv, Turn
  <2>3. CASE t # High
    BY <2>3, ReachFrame, TasksNonEmpty DEF Ind, TypeInv, Turn
  <2> QED
    BY <2>1, <2>2, <2>3 DEF Ind, TypeInv
<1> QED
  BY <1>1, <1>2, <1>3, <1>4, <1>5, <1>6 DEF Ind

\* record_time() finds out whether the round is to be recorded.
LEMMA BoundStep ==
  ASSUME Ind, NEW t \in Tasks, Bound(t)
  PROVE  Ind'
<1> USE DEF Bound, Task, taskVars, mainVars
<1>1. TypeInv'
  BY DEF Ind, TypeInv
<1>2. Sides'
  BY TasksNonEmpty DEF Ind, TypeInv, Sides, Early
<1>3. Counts'
  BY DEF Ind, TypeInv, Counts, Early, Late
<1>4. Table'
  BY TasksNonEmpty DEF Ind, TypeInv, Sides, Counts, Early, Late, Table, Filled
<1>5. Checks'
  BY CheckFrame DEF Ind, TypeInv, Checks, Early, Late
<1>6. Turn'
  BY ReachFrame, TasksNonEmpty DEF Ind, TypeInv, Turn
<1> QED
  BY <1>1, <1>2, <1>3, <1>4, <1>5, <1>6 DEF Ind

\* The stores go to the row of the round: loop has not moved since the start barrier.
LEMMA RecordStep ==
  ASSUME Ind, NEW t \in Tasks, Record(t)
  PROVE  Ind'
<1> USE DEF Record, Task, mainVars
<1>1. PICK m \in Measurements :
        table' = [table EXCEPT ![loop][t] =
                   [round |-> round - 1, cpu |-> IF t = High THEN here ELSE -1,
                    time |-> m.time, length |-> m.length, loops |-> m.loops]]
  BY DEF Record
<1>2. m.time \in Nat /\ m.length \in Nat /\ m.loops \in Nat
  BY ConstantsAssumption
<1>3. mpc \in {"sleep", "end"} /\ loop < nr_runs /\ round = loop + 1 /\ loop \in Rows
  BY TasksNonEmpty DEF Ind, TypeInv, Sides, Counts, Early, Late
<1> DEFINE rec == [round |-> round - 1, cpu |-> IF t = High THEN here ELSE -1,
                   time |-> m.time, length |-> m.length, loops |-> m.loops]
<1>4. rec \in Records
  BY <1>2, TasksNonEmpty DEF Ind, TypeInv, Records
<1>5. table' \in [Rows -> [Tasks -> Records]]
  BY <1>1, <1>3, <1>4 DEF Ind, TypeInv
<1>6. /\ table'[loop][t] = rec
      /\ \A l \in Rows, u \in Tasks : l # loop \/ u # t => table'[l][u] = table[l][u]
      /\ \A l \in Rows : l # loop => table'[l] = table[l]
  BY <1>1, <1>3 DEF Ind, TypeInv
<1>7. rec.round = loop /\ (t = High => rec.cpu = here)
  BY <1>3 DEF Ind, TypeInv
<1> HIDE DEF rec
<1>8. TypeInv'
  BY <1>5 DEF Ind, TypeInv
<1>9. Sides'
  BY DEF Ind, TypeInv, Sides, Early
<1>10. Counts'
  BY DEF Ind, TypeInv, Counts, Early, Late
<1>11. Table'
  <2> SUFFICES ASSUME NEW l \in Rows, NEW u \in Tasks
               PROVE  table'[l][u].round = IF Filled(l, u)' THEN l ELSE -1
    BY DEF Table
  <2>1. CASE l = loop /\ u = t
    <3>1. Filled(l, u)'
      BY <1>3, <2>1 DEF Filled, Ind, TypeInv
    <3> QED
      BY <1>6, <1>7, <2>1, <3>1
  <2>2. CASE l # loop \/ u # t
    <3>1. Filled(l, u)' <=> Filled(l, u)
      BY <1>3, <2>2 DEF Filled, Ind, TypeInv
    <3> QED
      BY <1>6, <2>2, <3>1 DEF Ind, Table
  <2> QED
    BY <2>1, <2>2
<1>12. Checks'
  <2>1. \A l \in Rows : l # loop => (check_times(l)' <=> check_times(l))
    BY <1>6 DEF check_times
  <2> QED
    BY <1>3, <2>1 DEF Ind, TypeInv, Counts, Checks, Early, Late
<1>13. Turn'
  <2>1. pc'[High] \in {"unborn", "top", "start", "bound", "record", "end"} => 
           /\ pc[High] = pc'[High] \/ (pc[High] = "record" /\ pc'[High] = "end")
    BY TasksNonEmpty DEF Ind, TypeInv
  <2>2. \A l \in Rows : table'[l][High].round # -1 => table'[l][High].cpu = l % N
    <3> SUFFICES ASSUME NEW l \in Rows, table'[l][High].round # -1
                 PROVE  table'[l][High].cpu = l % N
      OBVIOUS
    <3>1. CASE l = loop /\ High = t
      <4>1. here = (round - 1) % N
        BY <3>1 DEF Ind, Turn
      <4>2. round - 1 = l
        BY <1>3, <3>1 DEF Ind, TypeInv
      <4> QED
        BY <1>6, <1>7, <3>1, <4>1, <4>2
    <3>2. CASE l # loop \/ High # t
      BY <1>6, <3>2, TasksNonEmpty DEF Ind, Turn
    <3> QED
      BY <3>1, <3>2
  <2> QED
    BY <2>1, <2>2, ReachFrame DEF Ind, TypeInv, Turn
<1> QED
  BY <1>8, <1>9, <1>10, <1>11, <1>12, <1>13 DEF Ind

\* Main creates task i.
LEMMA CreateStep ==
  ASSUME Ind, Create
  PROVE  Ind'
<1> USE DEF Create, Main, taskVars
<1>0. i \in Tasks /\ pc[i] = "unborn"
  BY TasksNonEmpty DEF Ind, TypeInv, Sides, Tasks
<1>1. TypeInv'
  BY <1>0 DEF Ind, TypeInv
<1>2. Sides'
  BY <1>0, TasksNonEmpty DEF Ind, TypeInv, Sides, Early
<1>3. Counts'
  BY DEF Ind, TypeInv, Counts, Early, Late
<1>4. Table'
  BY <1>0, TasksNonEmpty DEF Ind, TypeInv, Counts, Early, Table, Filled
<1>5. Checks'
  BY CheckFrame DEF Ind, TypeInv, Checks, Early, Late
<1>6. Turn'
  BY <1>0, ReachFrame, TasksNonEmpty DEF Ind, TypeInv, Turn
<1> QED
  BY <1>1, <1>2, <1>3, <1>4, <1>5, <1>6 DEF Ind

\* Main cannot create task i and ends the process.
LEMMA CreateFailsStep ==
  ASSUME Ind, CreateFails
  PROVE  Ind'
<1> USE DEF CreateFails, Main, taskVars
<1>1. TypeInv'
  BY DEF Ind, TypeInv
<1>2. Sides'
  BY DEF Ind, TypeInv, Sides, Early
<1>3. Counts'
  BY DEF Ind, TypeInv, Counts, Early, Late
<1>4. Table'
  BY TasksNonEmpty DEF Ind, TypeInv, Counts, Early, Table, Filled
<1>5. Checks'
  BY CheckFrame DEF Ind, TypeInv, Counts, Checks, Early, Late
<1>6. Turn'
  BY ReachFrame DEF Ind, TypeInv, Turn
<1> QED
  BY <1>1, <1>2, <1>3, <1>4, <1>5, <1>6 DEF Ind

\* Main sleeps out the interval.
LEMMA SleepStep ==
  ASSUME Ind, Sleep
  PROVE  Ind'
<1> USE DEF Sleep, Main, taskVars, mainVars
<1>1. TypeInv'
  BY DEF Ind, TypeInv
<1>2. Sides'
  BY DEF Ind, TypeInv, Sides, Early
<1>3. Counts'
  BY DEF Ind, TypeInv, Counts, Early, Late
<1>4. Table'
  BY DEF Ind, TypeInv, Table, Filled
<1>5. Checks'
  BY CheckFrame DEF Ind, TypeInv, Checks, Early, Late
<1>6. Turn'
  BY ReachFrame DEF Ind, TypeInv, Turn
<1> QED
  BY <1>1, <1>2, <1>3, <1>4, <1>5, <1>6 DEF Ind

\* Main checks the round that all tasks have recorded.
LEMMA CheckRoundStep ==
  ASSUME Ind, CheckRound
  PROVE  Ind'
<1> USE DEF CheckRound, taskVars
<1>0. loop < nr_runs /\ nr_runs = NrRuns /\ loop \in Rows /\ check # -1
  BY TasksNonEmpty DEF Ind, TypeInv, Counts, Checks, Early
<1>1. TypeInv'
  BY <1>0 DEF Ind, TypeInv
<1>2. Sides'
  BY DEF Ind, TypeInv, Sides, Early
<1>3. Counts'
  BY <1>0 DEF Ind, TypeInv, Counts, Early, Late
<1>4. Table'
  BY <1>0, TasksNonEmpty DEF Ind, TypeInv, Table, Filled
<1>5. Checks'
  <2>1. CASE /\ stop = 1 \/ (check = 1 /\ check_times(loop))
             /\ nr_runs' = loop + 1 /\ mpc' = "last"
             /\ check' = IF stop = 0 THEN -1 ELSE check
    <3>1. CASE stop = 1
      BY <1>0, <2>1, <3>1, CheckFrame, TasksNonEmpty DEF Ind, TypeInv, Counts, Checks, Early, Late
    <3>2. CASE stop = 0
      BY <1>0, <2>1, <3>2, CheckFrame, TasksNonEmpty DEF Ind, TypeInv, Counts, Checks, Early, Late
    <3> QED
      BY <3>1, <3>2 DEF Ind, TypeInv
  <2>2. CASE /\ ~(stop = 1 \/ (check = 1 /\ check_times(loop)))
             /\ mpc' = IF loop + 1 < nr_runs THEN "start" ELSE "last"
             /\ UNCHANGED <<nr_runs, check>>
    <3>1. \A l \in Rows : check = 1 /\ l < loop + 1 => ~check_times(l)
      BY <1>0, <2>2, TasksNonEmpty DEF Ind, TypeInv, Checks, Early
    <3> QED
      BY <1>0, <2>2, <3>1, CheckFrame, TasksNonEmpty DEF Ind, TypeInv, Counts, Checks, Early, Late
  <2> QED
    BY <2>1, <2>2
<1>6. Turn'
  BY ReachFrame DEF Ind, TypeInv, Turn
<1> QED
  BY <1>1, <1>2, <1>3, <1>4, <1>5, <1>6 DEF Ind

\* Main sets done during the additional round.
LEMMA SetDoneStep ==
  ASSUME Ind, SetDone
  PROVE  Ind'
<1> USE DEF SetDone, Main, taskVars
<1>1. TypeInv'
  BY DEF Ind, TypeInv
<1>2. Sides'
  BY DEF Ind, TypeInv, Sides, Early
<1>3. Counts'
  BY DEF Ind, TypeInv, Counts, Early, Late
<1>4. Table'
  BY DEF Ind, TypeInv, Table, Filled
<1>5. Checks'
  BY CheckFrame DEF Ind, TypeInv, Checks, Early, Late
<1>6. Turn'
  BY ReachFrame DEF Ind, TypeInv, Turn
<1> QED
  BY <1>1, <1>2, <1>3, <1>4, <1>5, <1>6 DEF Ind

\* All tasks have ended: the table and the exit status.
LEMMA FinishStep ==
  ASSUME Ind, Finish
  PROVE  Ind'
<1> USE DEF Finish, Main, taskVars
<1>0. /\ status' \in {-1, 0, 1}
      /\ status' = -1 => check = -1
      /\ status' = 0 => check # -1 /\ stop = 0
      /\ status' = 1 => check # -1 /\ stop = 1
  BY DEF Ind, TypeInv
<1>1. TypeInv'
  BY <1>0 DEF Ind, TypeInv
<1>2. Sides'
  BY DEF Ind, TypeInv, Sides, Early
<1>3. Counts'
  BY <1>0 DEF Ind, TypeInv, Counts, Early, Late
<1>4. Table'
  BY DEF Ind, TypeInv, Table, Filled
<1>5. Checks'
  BY <1>0, CheckFrame DEF Ind, TypeInv, Counts, Checks, Early, Late
<1>6. Turn'
  BY ReachFrame DEF Ind, TypeInv, Turn
<1> QED
  BY <1>1, <1>2, <1>3, <1>4, <1>5, <1>6 DEF Ind

\* SIGINT sets stop.
LEMMA SigintStep ==
  ASSUME Ind, Sigint
  PROVE  Ind'
<1> USE DEF Sigint, taskVars, mainVars
<1>1. TypeInv'
  BY DEF Ind, TypeInv
<1>2. Sides'
  BY DEF Ind, TypeInv, Sides, Early
<1>3. Counts'
  BY DEF Ind, TypeInv, Counts, Early, Late
<1>4. Table'
  BY DEF Ind, TypeInv, Table, Filled
<1>5. Checks'
  BY CheckFrame DEF Ind, TypeInv, Counts, Checks, Early, Late
<1>6. Turn'
  BY ReachFrame DEF Ind, TypeInv, Turn
<1> QED
  BY <1>1, <1>2, <1>3, <1>4, <1>5, <1>6 DEF Ind

\* Nothing happens.
LEMMA StutterStep ==
  ASSUME Ind, UNCHANGED vars
  PROVE  Ind'
<1> USE DEF vars
<1>1. TypeInv' /\ Sides' /\ Counts' /\ Table'
  BY DEF Ind, TypeInv, Sides, Counts, Early, Late, Table, Filled
<1>2. Checks'
  BY CheckFrame DEF Ind, TypeInv, Checks, Early, Late
<1>3. Turn'
  BY ReachFrame DEF Ind, TypeInv, Turn
<1> QED
  BY <1>1, <1>2, <1>3 DEF Ind

\* The invariant is inductive: it holds in every state of every run.
THEOREM Invariance == Spec => []Ind
<1>1. Ind /\ [Next]_vars => Ind'
  <2> SUFFICES ASSUME Ind, [Next]_vars
               PROVE  Ind'
    OBVIOUS
  <2>1. CASE MainStep
    BY <2>1, CreateStep, CreateFailsStep, SleepStep, CheckRoundStep, SetDoneStep,
       FinishStep DEF MainStep
  <2>2. CASE \E t \in Tasks : TaskStep(t)
    BY <2>2, TopStep, BoundStep, RecordStep DEF TaskStep
  <2> QED
    BY <2>1, <2>2, StartBarrierStep, EndBarrierStep, SigintStep, StutterStep DEF Next
<1> QED
  BY <1>1, IndInit, PTL DEF Spec

-----------------------------------------------------------------------------
(* The properties *)

\* Row l of the table that print_results() prints holds what every task measured in
\* round l, for any number of tasks and rounds, although loop, nr_runs and done are
\* shared without a lock; the additional round that ends the tasks is recorded nowhere.
THEOREM TableHoldsTheRounds == Spec => []TableComplete
<1>1. Ind => TableComplete
  <2> SUFFICES ASSUME Ind, mpc = "join" \/ status \in 0 .. 1,
                      NEW l \in Rows, NEW t \in Tasks
               PROVE  table[l][t].round = IF l < nr_runs THEN l ELSE -1
    BY DEF TableComplete
  <2>1. Late
    BY DEF Ind, TypeInv, Counts, Late
  <2>2. loop = nr_runs
    BY <2>1 DEF Ind, Counts
  <2>3. Filled(l, t) <=> l < nr_runs
    BY <2>2, TasksNonEmpty DEF Filled, Ind, TypeInv
  <2> QED
    BY <2>3 DEF Ind, Table
<1> QED
  BY <1>1, Invariance, PTL

\* The highest task runs on the CPUs below the first gap of the affinity mask in turn,
\* a new one every round, for every mask and any number of rounds (start_task's
\* "rotate around the CPUS").
THEOREM Rotation == Spec => []EveryCpuInTurn
<1>1. Ind => EveryCpuInTurn
  BY DEF Ind, Turn, EveryCpuInTurn, Reach, N
<1> QED
  BY <1>1, Invariance, PTL

\* The verdict of --check: failed only for a table whose last round has a task that
\* started too late; success only for all --loops rounds and none of them late.
THEOREM VerdictIsSound == Spec => []VerdictSound
<1> DEFINE late(l) ==
      \E t \in Tasks \ {0} :
        LET high == table[l][t]
            low  == table[l][t - 1]
        IN  /\ high.time > low.time + MaxErr
            /\ ~ (/\ high.loops >= low.loops /\ high.time <= low.length
                  /\ high.length <= low.length + MaxErr)
<1>1. ASSUME Ind, NEW l \in Rows
      PROVE  late(l) <=> check_times(l)
  <2>1. ASSUME NEW t \in Tasks \ {0}
        PROVE  /\ table[l][t] \in Records /\ table[l][t - 1] \in Records
    <3>1. t \in Tasks /\ t - 1 \in Tasks
      BY TasksNonEmpty DEF Tasks
    <3> QED
      BY <1>1, <3>1 DEF Ind, TypeInv
  <2>2. ASSUME NEW high \in Records, NEW low \in Records
        PROVE  (/\ high.time > low.time + MaxErr
                /\ ~ (/\ high.loops >= low.loops /\ high.time <= low.length
                      /\ high.length <= low.length + MaxErr))
               <=> (/\ low.time < high.time /\ high.time - low.time > MaxErr
                    /\ \/ high.loops < low.loops
                       \/ high.time > low.length
                       \/ high.length > low.length /\ high.length - low.length > MaxErr)
    BY ConstantsAssumption DEF Records
  <2> QED
    BY <2>1, <2>2 DEF check_times
<1>2. Ind => VerdictSound
  <2> SUFFICES ASSUME Ind
               PROVE  VerdictSound
    OBVIOUS
  <2> HIDE DEF late
  <2>1. ASSUME status = -1, round > 0
        PROVE  check # 0 /\ late(nr_runs - 1)
               /\ \A l \in {k \in Rows : k < nr_runs - 1} : ~late(l)
    <3>1. Late /\ check = -1
      BY <2>1 DEF Ind, TypeInv, Counts, Checks, Late
    <3>2. nr_runs - 1 \in Rows
      BY <3>1, TasksNonEmpty DEF Ind, TypeInv, Counts
    <3> QED
      BY <1>1, <3>1, <3>2 DEF Ind, Checks
  <2>2. ASSUME status = 0
        PROVE  nr_runs = NrRuns /\ (check # 0 => \A l \in Rows : ~late(l))
    <3>1. Late /\ check # -1 /\ stop = 0
      BY <2>2 DEF Ind, TypeInv, Counts, Checks
    <3>2. nr_runs = NrRuns /\ \A l \in Rows : l < nr_runs - 1 \/ l = nr_runs - 1
      BY <3>1, TasksNonEmpty DEF Ind, Checks
    <3> QED
      BY <1>1, <3>1, <3>2 DEF Ind, TypeInv, Checks
  <2>3. ASSUME status = 1
        PROVE  stop = 1 /\ (check # 0 => \A l \in {k \in Rows : k < nr_runs - 1} : ~late(l))
    <3>1. Late /\ stop = 1
      BY <2>3 DEF Ind, TypeInv, Counts, Checks
    <3> QED
      BY <1>1, <3>1 DEF Ind, Checks
  <2> QED
    BY <2>1, <2>2, <2>3 DEF VerdictSound, late
<1> QED
  BY <1>2, Invariance, PTL
=============================================================================

--------------------------- MODULE PiStressProofs ---------------------------
(***************************************************************************)
(* Proofs about PiStress for every number of groups, every --inversions,   *)
(* every scheduler and every set of failing calls.                         *)
(***************************************************************************)
EXTENDS PiStress, TLAPS

-----------------------------------------------------------------------------
(* The inductive invariant *)

Early == Outside \cup {"failed"}

\* The three workers of a group at its barriers: the serial thread is alone
\* between loop_barr and start_barrier, loop is only cleared there, and a
\* worker leaves the loop only when it is cleared.
Order ==
  \A g \in Groups :
    /\ \A q, r \in Roles : pc[g][q] = "serial" /\ r # q => pc[g][r] = "start"
    /\ \A r \in Roles : loop[g] = 0 => pc[g][r] \notin {"loop_barr", "serial"}
    /\ \A r \in Roles : pc[g][r] \in LeftLoop => loop[g] = 0

\* Who holds the mutex, and where high is while low holds it.
Locks ==
  \A g \in Groups :
    /\ pc[g]["low"] \in {"locked", "elevate", "unlock"} <=> mutex[g] = "low"
    /\ pc[g]["high"] = "hunlock" <=> mutex[g] = "high"
    /\ pc[g]["low"] \in {"elevate", "unlock"} => pc[g]["high"] \in {"hlock", "hwait"}

\* How far a group that has reached its count can still get.
Counts ==
  Inversions >= 0 =>
    \A g \in Groups :
      /\ total[g] <= Inversions + 1
      /\ total[g] >= Inversions /\ pc[g]["high"] \in {"chkloop", "loop_barr"}
           => shutdown = 1
      /\ total[g] >= Inversions /\ pc[g]["high"] \in Inversion
           => /\ shutdown = 1
              /\ loop[g] = 0 \/ \E r \in Roles : pc[g][r] = "serial"
      /\ total[g] > Inversions
           => loop[g] = 0 /\ pc[g]["high"] \notin Inversion \cup {"loop_barr"}

\* loop is cleared inside an inversion, and left only after it has been counted.
Work ==
  \A g \in Groups :
    /\ loop[g] = 0 /\ pc[g]["high"] \in {"watchdog", "top", "chkloop"} \cup LeftLoop
         => total[g] > 0
    /\ pc[g]["high"] \in Early => loop[g] # 0

\* The workers and main: nobody enters a loop before main has passed the ready
\* barrier, and main waits for the done barrier only if there was no error.
Phases ==
  /\ mpc \in {"create", "ready"} => \A g \in Groups, r \in Roles : pc[g][r] \in Early
  /\ \A g \in Groups, r \in Roles : pc[g][r] \in Early =>
       mpc \in {"create", "ready", "exit"} /\ retval # "SUCCESS"
  /\ \A f, g \in Groups, q, r \in Roles : pc[f][q] \in Early => pc[g][r] \in Early
  /\ mpc = "done" => have_errors = 0 /\ interrupted = 0
  /\ SuccessIsClean

Ind == TypeOK /\ Order /\ Locks /\ Counts /\ Work /\ Phases

-----------------------------------------------------------------------------

\* The inductive invariant holds before main has created a thread.
LEMMA IndInit == Init => Ind
<1> SUFFICES ASSUME Init PROVE Ind
  OBVIOUS
<1> USE ConstantsAssumption DEF Init, Groups, Roles
<1>1. TypeOK
  BY DEF TypeOK, WorkerLocs, Outside, MainLocs
<1>2. Order /\ Locks /\ Work
  BY DEF Order, Locks, Work, Early, LeftLoop
<1>3. Counts
  BY DEF Counts, Inversion
<1>4. Phases
  BY DEF Phases, Early, Outside, SuccessIsClean
<1> QED
  BY <1>1, <1>2, <1>3, <1>4 DEF Ind

\* What a step of one worker does to pc.
LEMMA StepPc ==
  ASSUME NEW g \in Groups, NEW r \in Roles, NEW from, NEW to \in WorkerLocs,
         TypeOK, Step(g, r, from, to)
  PROVE  /\ pc' \in [Groups -> [Roles -> WorkerLocs]]
         /\ pc[g][r] = from /\ pc'[g][r] = to
         /\ \A q \in Roles : q # r => pc'[g][q] = pc[g][q]
         /\ \A h \in Groups : h # g => pc'[h] = pc[h]
         /\ retval = "none"
  BY DEF Step, TypeOK

\* What a barrier of a group does to pc.
LEMMA BarrierPc ==
  ASSUME NEW g \in Groups, NEW rs \in SUBSET Roles, NEW at,
         NEW to, \A r \in rs : to[r] \in WorkerLocs,
         TypeOK, Barrier(g, rs, at, to)
  PROVE  /\ pc' \in [Groups -> [Roles -> WorkerLocs]]
         /\ \A r \in rs : pc[g][r] = at /\ pc'[g][r] = to[r]
         /\ \A r \in Roles \ rs : pc'[g][r] = pc[g][r]
         /\ \A h \in Groups : h # g => pc'[h] = pc[h]
         /\ retval = "none"
  BY DEF Barrier, TypeOK

\* verify_cpu, passed or failed, keeps the inductive invariant.
LEMMA VerifyCpuInd ==
  ASSUME NEW g \in Groups, NEW r \in Roles, Ind, VerifyCpu(g, r)
  PROVE  Ind'
<1> USE DEF Ind
<1>0. PICK to \in {"ready", "failed"} : Step(g, r, "verify", to)
  BY DEF VerifyCpu
<1>a. to \in WorkerLocs
  BY DEF WorkerLocs, Outside
<1>b. /\ UNCHANGED <<ri, shutdown, interrupted, loop, total, mutex, watchdog,
                     watchdog_hits, failures>>
      /\ have_errors' \in {have_errors, 1}
      /\ \/ UNCHANGED <<mpc, retval>>
         \/ mpc' = "exit" /\ retval' = "FAILURE"
  BY DEF VerifyCpu, dogVars
<1>c. /\ pc' \in [Groups -> [Roles -> WorkerLocs]]
      /\ pc[g][r] = "verify" /\ pc'[g][r] \in {"ready", "failed"}
      /\ \A q \in Roles : q # r => pc'[g][q] = pc[g][q]
      /\ \A h \in Groups : h # g => pc'[h] = pc[h]
      /\ retval = "none"
  BY StepPc, <1>0, <1>a
<1> USE <1>b, <1>c
<1>1. TypeOK'
  BY DEF TypeOK, MainLocs
<1>2. Order'
  BY DEF TypeOK, Order, LeftLoop, Roles
<1>3. Locks'
  BY DEF TypeOK, Locks, Roles
<1>4. Counts'
  BY DEF TypeOK, Counts, Inversion, Roles
<1>5. Work'
  BY DEF TypeOK, Work, Early, Outside, LeftLoop, Roles
<1>6. Phases'
  <2>1. pc[g][r] \in Early
    BY DEF Early, Outside
  <2>2. \A f \in Groups, q \in Roles : pc[f][q] \in Early
    BY <2>1 DEF Phases
  <2>3. \A f \in Groups, q \in Roles : pc'[f][q] \in Early
    BY <2>2 DEF Early, Outside
  <2>4. mpc \in {"create", "ready", "exit"}
    BY <2>1 DEF Phases
  <2> QED
    BY <2>3, <2>4 DEF Phases, SuccessIsClean
<1> QED
  BY <1>1, <1>2, <1>3, <1>4, <1>5, <1>6

\* A step of workers that are past the ready barrier keeps Phases.
LEMMA LatePhases ==
  ASSUME Ind, NEW g \in Groups, NEW r \in Roles, pc[g][r] \notin Early,
         \A h \in Groups, q \in Roles : pc'[h][q] = pc[h][q] \/ pc'[h][q] \notin Early,
         UNCHANGED <<mpc, have_errors, interrupted, retval>>, retval = "none"
  PROVE  Phases'
<1> USE DEF Ind, Phases
<1>1. \A h \in Groups, q \in Roles : pc[h][q] \notin Early
  OBVIOUS
<1>2. \A h \in Groups, q \in Roles : pc'[h][q] \notin Early
  BY <1>1
<1>3. mpc \notin {"create", "ready"}
  BY <1>1
<1> QED
  BY <1>2, <1>3 DEF SuccessIsClean

\* The comparison of total with --inversions keeps it: shutdown only rises.
LEMMA CheckTotalInd ==
  ASSUME NEW g \in Groups, NEW r \in Roles, Ind, CheckTotal(g, r)
  PROVE  Ind'
<1> USE DEF Ind
<1>a. Step(g, r, "top", "chkloop")
  BY DEF CheckTotal
<1>b. "chkloop" \in WorkerLocs
  BY DEF WorkerLocs, LoopHead, Inversion, LeftLoop
<1>c. /\ pc' \in [Groups -> [Roles -> WorkerLocs]]
      /\ pc[g][r] = "top" /\ pc'[g][r] = "chkloop"
      /\ \A q \in Roles : q # r => pc'[g][q] = pc[g][q]
      /\ \A h \in Groups : h # g => pc'[h] = pc[h]
      /\ retval = "none"
  BY StepPc, <1>a, <1>b
<1>d. /\ UNCHANGED <<mpc, ri, have_errors, interrupted, loop, total, mutex,
                  watchdog, watchdog_hits, failures, retval>>
      /\ shutdown' = IF Inversions >= 0 /\ total[g] >= Inversions THEN 1 ELSE shutdown
  BY <1>c DEF CheckTotal, Step, dogVars, flagVars
<1> USE <1>c, <1>d
<1>1. TypeOK'
  BY DEF TypeOK
<1>2. Order'
  BY DEF TypeOK, Order, LeftLoop, Roles
<1>3. Locks'
  BY DEF TypeOK, Locks, Roles
<1>4. Counts'
  BY ConstantsAssumption DEF TypeOK, Counts, Inversion, Order, Roles
<1>5. Work'
  BY ConstantsAssumption DEF TypeOK, Work, Early, Outside, LeftLoop, Order, Roles
<1>6. Phases'
  <2>1. pc[g][r] \notin Early
    BY DEF Early, Outside
  <2>2. \A h \in Groups, q \in Roles : pc'[h][q] = pc[h][q] \/ pc'[h][q] \notin Early
    BY DEF Early, Outside, Roles
  <2> QED
    BY <2>1, <2>2, LatePhases
<1> QED
  BY <1>1, <1>2, <1>3, <1>4, <1>5, <1>6

\* The test of loop keeps it: a worker leaves only where the others will leave.
LEMMA CheckLoopInd ==
  ASSUME NEW g \in Groups, NEW r \in Roles, Ind, CheckLoop(g, r)
  PROVE  Ind'
<1> USE DEF Ind
<1>a. PICK to \in {"leave", "loop_barr"} : Step(g, r, "chkloop", to)
  BY DEF CheckLoop
<1>b. to \in WorkerLocs
  BY DEF WorkerLocs, LoopHead, Inversion, LeftLoop
<1>c. /\ pc' \in [Groups -> [Roles -> WorkerLocs]]
      /\ pc[g][r] = "chkloop" /\ pc'[g][r] \in {"leave", "loop_barr"}
      /\ \A q \in Roles : q # r => pc'[g][q] = pc[g][q]
      /\ \A h \in Groups : h # g => pc'[h] = pc[h]
      /\ retval = "none"
  BY StepPc, <1>a, <1>b
<1>d. /\ UNCHANGED <<mpc, ri, shutdown, have_errors, interrupted, loop,
                  total, mutex, watchdog, watchdog_hits, failures, retval>>
      /\ loop[g] = 0 => pc'[g][r] = "leave"
      /\ loop[g] # 0 => pc'[g][r] = "loop_barr"
  BY <1>c DEF CheckLoop, Step, dogVars, flagVars
<1> USE <1>c, <1>d
<1>1. TypeOK'
  BY DEF TypeOK
<1>2. Order'
  BY DEF TypeOK, Order, LeftLoop, Roles
<1>3. Locks'
  BY DEF TypeOK, Locks, Roles
<1>4. Counts'
  BY ConstantsAssumption DEF TypeOK, Counts, Inversion, Order, Roles
<1>5. Work'
  BY ConstantsAssumption DEF TypeOK, Work, Early, Outside, LeftLoop, Order, Roles
<1>6. Phases'
  <2>1. pc[g][r] \notin Early
    BY DEF Early, Outside
  <2>2. \A h \in Groups, q \in Roles : pc'[h][q] = pc[h][q] \/ pc'[h][q] \notin Early
    BY DEF Early, Outside, Roles
  <2> QED
    BY <2>1, <2>2, LatePhases
<1> QED
  BY <1>1, <1>2, <1>3, <1>4, <1>5, <1>6

\* The serial thread may clear loop: the other two are at the start barrier.
LEMMA SerialCheckInd ==
  ASSUME NEW g \in Groups, NEW r \in Roles, Ind, SerialCheck(g, r)
  PROVE  Ind'
<1> USE DEF Ind
<1>a. Step(g, r, "serial", "start")
  BY DEF SerialCheck
<1>b. "start" \in WorkerLocs
  BY DEF WorkerLocs, LoopHead, Inversion, LeftLoop
<1>c. /\ pc' \in [Groups -> [Roles -> WorkerLocs]]
      /\ pc[g][r] = "serial" /\ pc'[g][r] = "start"
      /\ \A q \in Roles : q # r => pc'[g][q] = pc[g][q]
      /\ \A h \in Groups : h # g => pc'[h] = pc[h]
      /\ retval = "none"
  BY StepPc, <1>a, <1>b
<1>d. /\ UNCHANGED <<mpc, ri, shutdown, have_errors, interrupted, total,
                  mutex, watchdog, watchdog_hits, failures, retval>>
      /\ loop' = [loop EXCEPT ![g] = IF shutdown = 1 THEN 0 ELSE @]
  BY <1>c DEF SerialCheck, Step, dogVars, flagVars
<1> USE <1>c, <1>d
<1>1. TypeOK'
  BY DEF TypeOK
<1>2. Order'
  BY DEF TypeOK, Order, LeftLoop, Roles
<1>3. Locks'
  BY DEF TypeOK, Locks, Roles
<1>4. Counts'
  BY ConstantsAssumption DEF TypeOK, Counts, Inversion, Order, Roles
<1>5. Work'
  BY ConstantsAssumption DEF TypeOK, Work, Early, Outside, LeftLoop, Order, Roles
<1>6. Phases'
  <2>1. pc[g][r] \notin Early
    BY DEF Early, Outside
  <2>2. \A h \in Groups, q \in Roles : pc'[h][q] = pc[h][q] \/ pc'[h][q] \notin Early
    BY DEF Early, Outside, Roles
  <2> QED
    BY <2>1, <2>2, LatePhases
<1> QED
  BY <1>1, <1>2, <1>3, <1>4, <1>5, <1>6

\* Low's lock keeps it.
LEMMA LowLockInd ==
  ASSUME NEW g \in Groups, Ind, LowLock(g)
  PROVE  Ind'
<1> USE DEF Ind
<1>a. Step(g, "low", "lock", "locked")
  BY DEF LowLock
<1>b. "locked" \in WorkerLocs /\ "low" \in Roles
  BY DEF WorkerLocs, LoopHead, Inversion, LeftLoop, Roles
<1>c. /\ pc' \in [Groups -> [Roles -> WorkerLocs]]
      /\ pc[g]["low"] = "lock" /\ pc'[g]["low"] = "locked"
      /\ \A q \in Roles : q # "low" => pc'[g][q] = pc[g][q]
      /\ \A h \in Groups : h # g => pc'[h] = pc[h]
      /\ retval = "none"
  BY StepPc, <1>a, <1>b
<1>d. /\ UNCHANGED <<mpc, ri, shutdown, have_errors, interrupted, loop,
                  total, watchdog, watchdog_hits, failures, retval>>
      /\ mutex[g] = "none"
      /\ mutex' = [mutex EXCEPT ![g] = "low"]
  BY <1>c DEF LowLock, Step, dogVars, flagVars
<1> USE <1>c, <1>d
<1>1. TypeOK'
  BY DEF TypeOK
<1>2. Order'
  BY DEF TypeOK, Order, LeftLoop, Roles
<1>3. Locks'
  BY DEF TypeOK, Locks, Roles
<1>4. Counts'
  BY ConstantsAssumption DEF TypeOK, Counts, Inversion, Order, Roles
<1>5. Work'
  BY ConstantsAssumption DEF TypeOK, Work, Early, Outside, LeftLoop, Order, Roles
<1>6. Phases'
  <2>1. pc[g]["low"] \notin Early
    BY DEF Early, Outside
  <2>2. \A h \in Groups, q \in Roles : pc'[h][q] = pc[h][q] \/ pc'[h][q] \notin Early
    BY DEF Early, Outside, Roles
  <2> QED
    BY <2>1, <2>2, <1>b, LatePhases
<1> QED
  BY <1>1, <1>2, <1>3, <1>4, <1>5, <1>6

\* Low's unlock keeps it.
LEMMA LowUnlockInd ==
  ASSUME NEW g \in Groups, Ind, LowUnlock(g)
  PROVE  Ind'
<1> USE DEF Ind
<1>a. Step(g, "low", "unlock", "finish")
  BY DEF LowUnlock
<1>b. "finish" \in WorkerLocs /\ "low" \in Roles
  BY DEF WorkerLocs, LoopHead, Inversion, LeftLoop, Roles
<1>c. /\ pc' \in [Groups -> [Roles -> WorkerLocs]]
      /\ pc[g]["low"] = "unlock" /\ pc'[g]["low"] = "finish"
      /\ \A q \in Roles : q # "low" => pc'[g][q] = pc[g][q]
      /\ \A h \in Groups : h # g => pc'[h] = pc[h]
      /\ retval = "none"
  BY StepPc, <1>a, <1>b
<1>d. /\ UNCHANGED <<mpc, ri, shutdown, have_errors, interrupted, loop,
                  total, watchdog, watchdog_hits, failures, retval>>
      /\ mutex' = [mutex EXCEPT ![g] = "none"]
  BY <1>c DEF LowUnlock, Step, dogVars, flagVars
<1> USE <1>c, <1>d
<1>1. TypeOK'
  BY DEF TypeOK
<1>2. Order'
  BY DEF TypeOK, Order, LeftLoop, Roles
<1>3. Locks'
  BY DEF TypeOK, Locks, Roles
<1>4. Counts'
  BY ConstantsAssumption DEF TypeOK, Counts, Inversion, Order, Roles
<1>5. Work'
  BY ConstantsAssumption DEF TypeOK, Work, Early, Outside, LeftLoop, Order, Roles
<1>6. Phases'
  <2>1. pc[g]["low"] \notin Early
    BY DEF Early, Outside
  <2>2. \A h \in Groups, q \in Roles : pc'[h][q] = pc[h][q] \/ pc'[h][q] \notin Early
    BY DEF Early, Outside, Roles
  <2> QED
    BY <2>1, <2>2, <1>b, LatePhases
<1> QED
  BY <1>1, <1>2, <1>3, <1>4, <1>5, <1>6

\* High's lock, granted or blocked, keeps it.
LEMMA HighLockInd ==
  ASSUME NEW g \in Groups, Ind, HighLock(g)
  PROVE  Ind'
<1> USE DEF Ind
<1>a. PICK to \in {"hunlock", "hwait"} : Step(g, "high", "hlock", to)
  BY DEF HighLock
<1>b. to \in WorkerLocs /\ "high" \in Roles
  BY DEF WorkerLocs, LoopHead, Inversion, LeftLoop, Roles
<1>c. /\ pc' \in [Groups -> [Roles -> WorkerLocs]]
      /\ pc[g]["high"] = "hlock" /\ pc'[g]["high"] \in {"hunlock", "hwait"}
      /\ \A q \in Roles : q # "high" => pc'[g][q] = pc[g][q]
      /\ \A h \in Groups : h # g => pc'[h] = pc[h]
      /\ retval = "none"
  BY StepPc, <1>a, <1>b
<1>d. /\ UNCHANGED <<mpc, ri, shutdown, have_errors, interrupted, loop,
                  total, watchdog, watchdog_hits, failures, retval>>
      /\ mutex[g] = "none" => pc'[g]["high"] = "hunlock"
      /\ mutex[g] # "none" => pc'[g]["high"] = "hwait"
      /\ mutex' = [mutex EXCEPT ![g] = IF @ = "none" THEN "high" ELSE @]
  BY <1>c DEF HighLock, Step, dogVars, flagVars
<1> USE <1>c, <1>d
<1>1. TypeOK'
  BY DEF TypeOK
<1>2. Order'
  BY DEF TypeOK, Order, LeftLoop, Roles
<1>3. Locks'
  BY DEF TypeOK, Locks, Roles
<1>4. Counts'
  BY ConstantsAssumption DEF TypeOK, Counts, Inversion, Order, Roles
<1>5. Work'
  BY ConstantsAssumption DEF TypeOK, Work, Early, Outside, LeftLoop, Order, Roles
<1>6. Phases'
  <2>1. pc[g]["high"] \notin Early
    BY DEF Early, Outside
  <2>2. \A h \in Groups, q \in Roles : pc'[h][q] = pc[h][q] \/ pc'[h][q] \notin Early
    BY DEF Early, Outside, Roles
  <2> QED
    BY <2>1, <2>2, <1>b, LatePhases
<1> QED
  BY <1>1, <1>2, <1>3, <1>4, <1>5, <1>6

\* High's wakeup with the mutex keeps it.
LEMMA HighWakeInd ==
  ASSUME NEW g \in Groups, Ind, HighWake(g)
  PROVE  Ind'
<1> USE DEF Ind
<1>a. Step(g, "high", "hwait", "hunlock")
  BY DEF HighWake
<1>b. "hunlock" \in WorkerLocs /\ "high" \in Roles
  BY DEF WorkerLocs, LoopHead, Inversion, LeftLoop, Roles
<1>c. /\ pc' \in [Groups -> [Roles -> WorkerLocs]]
      /\ pc[g]["high"] = "hwait" /\ pc'[g]["high"] = "hunlock"
      /\ \A q \in Roles : q # "high" => pc'[g][q] = pc[g][q]
      /\ \A h \in Groups : h # g => pc'[h] = pc[h]
      /\ retval = "none"
  BY StepPc, <1>a, <1>b
<1>d. /\ UNCHANGED <<mpc, ri, shutdown, have_errors, interrupted, loop,
                  total, watchdog, watchdog_hits, failures, retval>>
      /\ mutex[g] = "none"
      /\ mutex' = [mutex EXCEPT ![g] = "high"]
  BY <1>c DEF HighWake, Step, dogVars, flagVars
<1> USE <1>c, <1>d
<1>1. TypeOK'
  BY DEF TypeOK
<1>2. Order'
  BY DEF TypeOK, Order, LeftLoop, Roles
<1>3. Locks'
  BY DEF TypeOK, Locks, Roles
<1>4. Counts'
  BY ConstantsAssumption DEF TypeOK, Counts, Inversion, Order, Roles
<1>5. Work'
  BY ConstantsAssumption DEF TypeOK, Work, Early, Outside, LeftLoop, Order, Roles
<1>6. Phases'
  <2>1. pc[g]["high"] \notin Early
    BY DEF Early, Outside
  <2>2. \A h \in Groups, q \in Roles : pc'[h][q] = pc[h][q] \/ pc'[h][q] \notin Early
    BY DEF Early, Outside, Roles
  <2> QED
    BY <2>1, <2>2, <1>b, LatePhases
<1> QED
  BY <1>1, <1>2, <1>3, <1>4, <1>5, <1>6

\* High's unlock keeps it.
LEMMA HighUnlockInd ==
  ASSUME NEW g \in Groups, Ind, HighUnlock(g)
  PROVE  Ind'
<1> USE DEF Ind
<1>a. Step(g, "high", "hunlock", "finish")
  BY DEF HighUnlock
<1>b. "finish" \in WorkerLocs /\ "high" \in Roles
  BY DEF WorkerLocs, LoopHead, Inversion, LeftLoop, Roles
<1>c. /\ pc' \in [Groups -> [Roles -> WorkerLocs]]
      /\ pc[g]["high"] = "hunlock" /\ pc'[g]["high"] = "finish"
      /\ \A q \in Roles : q # "high" => pc'[g][q] = pc[g][q]
      /\ \A h \in Groups : h # g => pc'[h] = pc[h]
      /\ retval = "none"
  BY StepPc, <1>a, <1>b
<1>d. /\ UNCHANGED <<mpc, ri, shutdown, have_errors, interrupted, loop,
                  total, watchdog, watchdog_hits, failures, retval>>
      /\ mutex' = [mutex EXCEPT ![g] = "none"]
  BY <1>c DEF HighUnlock, Step, dogVars, flagVars
<1> USE <1>c, <1>d
<1>1. TypeOK'
  BY DEF TypeOK
<1>2. Order'
  BY DEF TypeOK, Order, LeftLoop, Roles
<1>3. Locks'
  BY DEF TypeOK, Locks, Roles
<1>4. Counts'
  BY ConstantsAssumption DEF TypeOK, Counts, Inversion, Order, Roles
<1>5. Work'
  BY ConstantsAssumption DEF TypeOK, Work, Early, Outside, LeftLoop, Order, Roles
<1>6. Phases'
  <2>1. pc[g]["high"] \notin Early
    BY DEF Early, Outside
  <2>2. \A h \in Groups, q \in Roles : pc'[h][q] = pc[h][q] \/ pc'[h][q] \notin Early
    BY DEF Early, Outside, Roles
  <2> QED
    BY <2>1, <2>2, <1>b, LatePhases
<1> QED
  BY <1>1, <1>2, <1>3, <1>4, <1>5, <1>6

\* total++ keeps it: the group has not seen the count exceeded before.
LEMMA CountInversionInd ==
  ASSUME NEW g \in Groups, Ind, CountInversion(g)
  PROVE  Ind'
<1> USE DEF Ind
<1>a. Step(g, "high", "total", "watchdog")
  BY DEF CountInversion
<1>b. "watchdog" \in WorkerLocs /\ "high" \in Roles
  BY DEF WorkerLocs, LoopHead, Inversion, LeftLoop, Roles
<1>c. /\ pc' \in [Groups -> [Roles -> WorkerLocs]]
      /\ pc[g]["high"] = "total" /\ pc'[g]["high"] = "watchdog"
      /\ \A q \in Roles : q # "high" => pc'[g][q] = pc[g][q]
      /\ \A h \in Groups : h # g => pc'[h] = pc[h]
      /\ retval = "none"
  BY StepPc, <1>a, <1>b
<1>d. /\ UNCHANGED <<mpc, ri, shutdown, have_errors, interrupted, loop,
                  mutex, watchdog, watchdog_hits, failures, retval>>
      /\ total' = [total EXCEPT ![g] = IF @ < TotalCap THEN @ + 1 ELSE @]
  BY <1>c DEF CountInversion, Step, dogVars, flagVars
<1> USE <1>c, <1>d
<1>1. TypeOK'
  BY ConstantsAssumption DEF TypeOK
<1>2. Order'
  BY DEF TypeOK, Order, LeftLoop, Roles
<1>3. Locks'
  BY DEF TypeOK, Locks, Roles
<1>4. Counts'
  BY ConstantsAssumption DEF TypeOK, Counts, Inversion, Order, Roles
<1>5. Work'
  BY ConstantsAssumption DEF TypeOK, Work, Early, Outside, LeftLoop, Order, Roles
<1>6. Phases'
  <2>1. pc[g]["high"] \notin Early
    BY DEF Early, Outside
  <2>2. \A h \in Groups, q \in Roles : pc'[h][q] = pc[h][q] \/ pc'[h][q] \notin Early
    BY DEF Early, Outside, Roles
  <2> QED
    BY <2>1, <2>2, <1>b, LatePhases
<1> QED
  BY <1>1, <1>2, <1>3, <1>4, <1>5, <1>6

\* watchdog++ keeps it.
LEMMA FeedWatchdogInd ==
  ASSUME NEW g \in Groups, Ind, FeedWatchdog(g)
  PROVE  Ind'
<1> USE DEF Ind
<1>a. Step(g, "high", "watchdog", "top")
  BY DEF FeedWatchdog
<1>b. "top" \in WorkerLocs /\ "high" \in Roles
  BY DEF WorkerLocs, LoopHead, Inversion, LeftLoop, Roles
<1>c. /\ pc' \in [Groups -> [Roles -> WorkerLocs]]
      /\ pc[g]["high"] = "watchdog" /\ pc'[g]["high"] = "top"
      /\ \A q \in Roles : q # "high" => pc'[g][q] = pc[g][q]
      /\ \A h \in Groups : h # g => pc'[h] = pc[h]
      /\ retval = "none"
  BY StepPc, <1>a, <1>b
<1>d. /\ UNCHANGED <<mpc, ri, shutdown, have_errors, interrupted, loop,
                  total, mutex, watchdog_hits, failures, retval>>
      /\ watchdog' = [watchdog EXCEPT ![g] = 1]
  BY <1>c DEF FeedWatchdog, Step, dogVars, flagVars
<1> USE <1>c, <1>d
<1>1. TypeOK'
  BY DEF TypeOK
<1>2. Order'
  BY DEF TypeOK, Order, LeftLoop, Roles
<1>3. Locks'
  BY DEF TypeOK, Locks, Roles
<1>4. Counts'
  BY ConstantsAssumption DEF TypeOK, Counts, Inversion, Order, Roles
<1>5. Work'
  BY ConstantsAssumption DEF TypeOK, Work, Early, Outside, LeftLoop, Order, Roles
<1>6. Phases'
  <2>1. pc[g]["high"] \notin Early
    BY DEF Early, Outside
  <2>2. \A h \in Groups, q \in Roles : pc'[h][q] = pc[h][q] \/ pc'[h][q] \notin Early
    BY DEF Early, Outside, Roles
  <2> QED
    BY <2>1, <2>2, <1>b, LatePhases
<1> QED
  BY <1>1, <1>2, <1>3, <1>4, <1>5, <1>6

\* set_shutdown_flag after a worker's loop keeps it.
LEMMA LeaveLoopInd ==
  ASSUME NEW g \in Groups, NEW r \in Roles, Ind, LeaveLoop(g, r)
  PROVE  Ind'
<1> USE DEF Ind
<1>a. PICK to \in {"done", "chkerr"} : Step(g, r, "leave", to)
  BY DEF LeaveLoop
<1>b. to \in WorkerLocs
  BY DEF WorkerLocs, LoopHead, Inversion, LeftLoop
<1>c. /\ pc' \in [Groups -> [Roles -> WorkerLocs]]
      /\ pc[g][r] = "leave" /\ pc'[g][r] \in {"done", "chkerr"}
      /\ \A q \in Roles : q # r => pc'[g][q] = pc[g][q]
      /\ \A h \in Groups : h # g => pc'[h] = pc[h]
      /\ retval = "none"
  BY StepPc, <1>a, <1>b
<1>d. /\ UNCHANGED <<mpc, ri, have_errors, interrupted, loop, total, mutex,
                  watchdog, watchdog_hits, failures, retval>>
      /\ shutdown' = 1
  BY <1>c DEF LeaveLoop, Step, dogVars, flagVars
<1> USE <1>c, <1>d
<1>1. TypeOK'
  BY DEF TypeOK
<1>2. Order'
  BY DEF TypeOK, Order, LeftLoop, Roles
<1>3. Locks'
  BY DEF TypeOK, Locks, Roles
<1>4. Counts'
  BY ConstantsAssumption DEF TypeOK, Counts, Inversion, Order, Roles
<1>5. Work'
  BY ConstantsAssumption DEF TypeOK, Work, Early, Outside, LeftLoop, Order, Roles
<1>6. Phases'
  <2>1. pc[g][r] \notin Early
    BY DEF Early, Outside
  <2>2. \A h \in Groups, q \in Roles : pc'[h][q] = pc[h][q] \/ pc'[h][q] \notin Early
    BY DEF Early, Outside, Roles
  <2> QED
    BY <2>1, <2>2, LatePhases
<1> QED
  BY <1>1, <1>2, <1>3, <1>4, <1>5, <1>6

\* The look at have_errors after the loop keeps it.
LEMMA CheckErrorsInd ==
  ASSUME NEW g \in Groups, NEW r \in Roles, Ind, CheckErrors(g, r)
  PROVE  Ind'
<1> USE DEF Ind
<1>a. PICK to \in {"done", "gone"} : Step(g, r, "chkerr", to)
  BY DEF CheckErrors
<1>b. to \in WorkerLocs
  BY DEF WorkerLocs, LoopHead, Inversion, LeftLoop
<1>c. /\ pc' \in [Groups -> [Roles -> WorkerLocs]]
      /\ pc[g][r] = "chkerr" /\ pc'[g][r] \in {"done", "gone"}
      /\ \A q \in Roles : q # r => pc'[g][q] = pc[g][q]
      /\ \A h \in Groups : h # g => pc'[h] = pc[h]
      /\ retval = "none"
  BY StepPc, <1>a, <1>b
<1>d. /\ UNCHANGED <<mpc, ri, shutdown, have_errors, interrupted, loop,
                  total, mutex, watchdog, watchdog_hits, failures, retval>>
  BY <1>c DEF CheckErrors, Step, dogVars, flagVars
<1> USE <1>c, <1>d
<1>1. TypeOK'
  BY DEF TypeOK
<1>2. Order'
  BY DEF TypeOK, Order, LeftLoop, Roles
<1>3. Locks'
  BY DEF TypeOK, Locks, Roles
<1>4. Counts'
  BY ConstantsAssumption DEF TypeOK, Counts, Inversion, Order, Roles
<1>5. Work'
  BY ConstantsAssumption DEF TypeOK, Work, Early, Outside, LeftLoop, Order, Roles
<1>6. Phases'
  <2>1. pc[g][r] \notin Early
    BY DEF Early, Outside
  <2>2. \A h \in Groups, q \in Roles : pc'[h][q] = pc[h][q] \/ pc'[h][q] \notin Early
    BY DEF Early, Outside, Roles
  <2> QED
    BY <2>1, <2>2, LatePhases
<1> QED
  BY <1>1, <1>2, <1>3, <1>4, <1>5, <1>6

\* The loop barrier keeps it, whoever becomes the serial thread.
LEMMA LoopBarrierInd ==
  ASSUME NEW g \in Groups, Ind, LoopBarrier(g)
  PROVE  Ind'
<1> USE DEF Ind
<1>0. PICK s \in Roles : Barrier(g, Roles, "loop_barr",
             [r \in Roles |-> IF r = s THEN "serial" ELSE "start"])
  BY DEF LoopBarrier
<1> DEFINE to == [r \in Roles |-> IF r = s THEN "serial" ELSE "start"]
<1>a. \A r \in Roles : to[r] \in WorkerLocs /\ to[r] = IF r = s THEN "serial" ELSE "start"
  BY DEF WorkerLocs, LoopHead, Inversion, Roles
<1>b. Barrier(g, Roles, "loop_barr", to)
  BY <1>0 DEF LoopBarrier
<1> HIDE DEF to
<1>c. /\ pc' \in [Groups -> [Roles -> WorkerLocs]]
      /\ \A r \in Roles : pc[g][r] = "loop_barr"
                          /\ pc'[g][r] = IF r = s THEN "serial" ELSE "start"
      /\ \A h \in Groups : h # g => pc'[h] = pc[h]
      /\ retval = "none"
  BY <1>a, <1>b, BarrierPc
<1>d. UNCHANGED <<mpc, ri, shutdown, have_errors, interrupted, loop,
                  total, mutex, watchdog, watchdog_hits, failures, retval>>
  BY <1>b DEF Barrier, dogVars, flagVars
<1> USE <1>c, <1>d
<1>1. TypeOK'
  BY DEF TypeOK
<1>2. Order'
  BY DEF TypeOK, Order, LeftLoop, Roles
<1>3. Locks'
  BY DEF TypeOK, Locks, Roles
<1>4. Counts'
  BY DEF TypeOK, Counts, Inversion, Order, Roles
<1>5. Work'
  BY DEF TypeOK, Work, Early, Outside, LeftLoop, Order, Roles
<1>6. Phases'
  <2>1. pc[g]["low"] \notin Early
    BY DEF Early, Outside, Roles
  <2>2. \A h \in Groups, q \in Roles : pc'[h][q] = pc[h][q] \/ pc'[h][q] \notin Early
    BY DEF Early, Outside, Roles
  <2> QED
    BY <2>1, <2>2, LatePhases DEF Roles
<1> QED
  BY <1>1, <1>2, <1>3, <1>4, <1>5, <1>6

\* The start barrier keeps it.
LEMMA StartBarrierInd ==
  ASSUME NEW g \in Groups, Ind, StartBarrier(g)
  PROVE  Ind'
<1> USE DEF Ind
<1> DEFINE to == AfterStart
<1>a. /\ \A r \in Roles : to[r] \in WorkerLocs
      /\ to["low"] = "lock" /\ to["med"] = "elevate" /\ to["high"] = "locked"
  BY DEF WorkerLocs, LoopHead, Inversion, Roles, AfterStart
<1>b. Barrier(g, Roles, "start", to)
  BY DEF StartBarrier
<1> HIDE DEF to
<1>c. /\ pc' \in [Groups -> [Roles -> WorkerLocs]]
      /\ pc[g]["low"] = "start" /\ pc'[g]["low"] = "lock"
      /\ pc[g]["med"] = "start" /\ pc'[g]["med"] = "elevate"
      /\ pc[g]["high"] = "start" /\ pc'[g]["high"] = "locked"
      /\ \A h \in Groups : h # g => pc'[h] = pc[h]
      /\ retval = "none"
  BY <1>a, <1>b, BarrierPc DEF Roles
<1>d. UNCHANGED <<mpc, ri, shutdown, have_errors, interrupted, loop,
                  total, mutex, watchdog, watchdog_hits, failures, retval>>
  BY <1>b DEF Barrier, dogVars, flagVars
<1> USE <1>c, <1>d
<1>1. TypeOK'
  BY DEF TypeOK
<1>2. Order'
  BY DEF TypeOK, Order, LeftLoop, Roles
<1>3. Locks'
  BY DEF TypeOK, Locks, Roles
<1>4. Counts'
  BY ConstantsAssumption DEF TypeOK, Counts, Inversion, Order, Roles
<1>5. Work'
  BY ConstantsAssumption DEF TypeOK, Work, Early, Outside, LeftLoop, Order, Roles
<1>6. Phases'
  <2>1. pc[g]["low"] \notin Early
    BY DEF Early, Outside
  <2>2. \A h \in Groups, q \in Roles : pc'[h][q] = pc[h][q] \/ pc'[h][q] \notin Early
    BY DEF Early, Outside, Roles
  <2> QED
    BY <2>1, <2>2, LatePhases DEF Roles
<1> QED
  BY <1>1, <1>2, <1>3, <1>4, <1>5, <1>6

\* The locked barrier keeps it.
LEMMA LockedBarrierInd ==
  ASSUME NEW g \in Groups, Ind, LockedBarrier(g)
  PROVE  Ind'
<1> USE DEF Ind
<1> DEFINE to == [low |-> "elevate", high |-> "hlock"]
<1>a. /\ \A r \in {"low", "high"} : to[r] \in WorkerLocs
      /\ to["low"] = "elevate" /\ to["high"] = "hlock"
  BY DEF WorkerLocs, LoopHead, Inversion, Roles
<1>b. Barrier(g, {"low", "high"}, "locked", to)
  BY DEF LockedBarrier
<1> HIDE DEF to
<1>c. /\ pc' \in [Groups -> [Roles -> WorkerLocs]]
      /\ pc[g]["low"] = "locked" /\ pc'[g]["low"] = "elevate"
      /\ pc[g]["high"] = "locked" /\ pc'[g]["high"] = "hlock"
      /\ pc'[g]["med"] = pc[g]["med"]
      /\ \A h \in Groups : h # g => pc'[h] = pc[h]
      /\ retval = "none"
  <2>1. {"low", "high"} \in SUBSET Roles /\ "med" \in Roles \ {"low", "high"}
    BY DEF Roles
  <2>2. TypeOK
    OBVIOUS
  <2>3. /\ pc' \in [Groups -> [Roles -> WorkerLocs]]
        /\ \A r \in {"low", "high"} : pc[g][r] = "locked" /\ pc'[g][r] = to[r]
        /\ \A r \in Roles \ {"low", "high"} : pc'[g][r] = pc[g][r]
        /\ \A h \in Groups : h # g => pc'[h] = pc[h]
        /\ retval = "none"
    BY <1>a, <1>b, <2>1, <2>2, BarrierPc, Zenon
  <2> QED
    BY <1>a, <2>1, <2>3
<1>d. UNCHANGED <<mpc, ri, shutdown, have_errors, interrupted, loop,
                  total, mutex, watchdog, watchdog_hits, failures, retval>>
  BY <1>b DEF Barrier, dogVars, flagVars
<1> USE <1>c, <1>d
<1>1. TypeOK'
  BY DEF TypeOK
<1>2. Order'
  BY DEF TypeOK, Order, LeftLoop, Roles
<1>3. Locks'
  BY DEF TypeOK, Locks, Roles
<1>4. Counts'
  BY ConstantsAssumption DEF TypeOK, Counts, Inversion, Order, Roles
<1>5. Work'
  BY ConstantsAssumption DEF TypeOK, Work, Early, Outside, LeftLoop, Order, Roles
<1>6. Phases'
  <2>1. pc[g]["low"] \notin Early
    BY DEF Early, Outside
  <2>2. \A h \in Groups, q \in Roles : pc'[h][q] = pc[h][q] \/ pc'[h][q] \notin Early
    BY DEF Early, Outside, Roles
  <2> QED
    BY <2>1, <2>2, LatePhases DEF Roles
<1> QED
  BY <1>1, <1>2, <1>3, <1>4, <1>5, <1>6

\* The elevate barrier keeps it.
LEMMA ElevateBarrierInd ==
  ASSUME NEW g \in Groups, Ind, ElevateBarrier(g)
  PROVE  Ind'
<1> USE DEF Ind
<1> DEFINE to == [low |-> "unlock", med |-> "finish"]
<1>a. /\ \A r \in {"low", "med"} : to[r] \in WorkerLocs
      /\ to["low"] = "unlock" /\ to["med"] = "finish"
  BY DEF WorkerLocs, LoopHead, Inversion, Roles
<1>b. Barrier(g, {"low", "med"}, "elevate", to)
  BY DEF ElevateBarrier
<1> HIDE DEF to
<1>c. /\ pc' \in [Groups -> [Roles -> WorkerLocs]]
      /\ pc[g]["low"] = "elevate" /\ pc'[g]["low"] = "unlock"
      /\ pc[g]["med"] = "elevate" /\ pc'[g]["med"] = "finish"
      /\ pc'[g]["high"] = pc[g]["high"]
      /\ \A h \in Groups : h # g => pc'[h] = pc[h]
      /\ retval = "none"
  <2>1. {"low", "med"} \in SUBSET Roles /\ "high" \in Roles \ {"low", "med"}
    BY DEF Roles
  <2>2. TypeOK
    OBVIOUS
  <2>3. /\ pc' \in [Groups -> [Roles -> WorkerLocs]]
        /\ \A r \in {"low", "med"} : pc[g][r] = "elevate" /\ pc'[g][r] = to[r]
        /\ \A r \in Roles \ {"low", "med"} : pc'[g][r] = pc[g][r]
        /\ \A h \in Groups : h # g => pc'[h] = pc[h]
        /\ retval = "none"
    BY <1>a, <1>b, <2>1, <2>2, BarrierPc, Zenon
  <2> QED
    BY <1>a, <2>1, <2>3
<1>d. UNCHANGED <<mpc, ri, shutdown, have_errors, interrupted, loop,
                  total, mutex, watchdog, watchdog_hits, failures, retval>>
  BY <1>b DEF Barrier, dogVars, flagVars
<1> USE <1>c, <1>d
<1>1. TypeOK'
  BY DEF TypeOK
<1>2. Order'
  BY DEF TypeOK, Order, LeftLoop, Roles
<1>3. Locks'
  BY DEF TypeOK, Locks, Roles
<1>4. Counts'
  BY ConstantsAssumption DEF TypeOK, Counts, Inversion, Order, Roles
<1>5. Work'
  BY ConstantsAssumption DEF TypeOK, Work, Early, Outside, LeftLoop, Order, Roles
<1>6. Phases'
  <2>1. pc[g]["low"] \notin Early
    BY DEF Early, Outside
  <2>2. \A h \in Groups, q \in Roles : pc'[h][q] = pc[h][q] \/ pc'[h][q] \notin Early
    BY DEF Early, Outside, Roles
  <2> QED
    BY <2>1, <2>2, LatePhases DEF Roles
<1> QED
  BY <1>1, <1>2, <1>3, <1>4, <1>5, <1>6

\* The finish barrier keeps it.
LEMMA FinishBarrierInd ==
  ASSUME NEW g \in Groups, Ind, FinishBarrier(g)
  PROVE  Ind'
<1> USE DEF Ind
<1> DEFINE to == AfterFinish
<1>a. /\ \A r \in Roles : to[r] \in WorkerLocs
      /\ to["low"] = "top" /\ to["med"] = "top" /\ to["high"] = "total"
  BY DEF WorkerLocs, LoopHead, Inversion, Roles, AfterFinish
<1>b. Barrier(g, Roles, "finish", to)
  BY DEF FinishBarrier
<1> HIDE DEF to
<1>c. /\ pc' \in [Groups -> [Roles -> WorkerLocs]]
      /\ pc[g]["low"] = "finish" /\ pc'[g]["low"] = "top"
      /\ pc[g]["med"] = "finish" /\ pc'[g]["med"] = "top"
      /\ pc[g]["high"] = "finish" /\ pc'[g]["high"] = "total"
      /\ \A h \in Groups : h # g => pc'[h] = pc[h]
      /\ retval = "none"
  BY <1>a, <1>b, BarrierPc DEF Roles
<1>d. UNCHANGED <<mpc, ri, shutdown, have_errors, interrupted, loop,
                  total, mutex, watchdog, watchdog_hits, failures, retval>>
  BY <1>b DEF Barrier, dogVars, flagVars
<1> USE <1>c, <1>d
<1>1. TypeOK'
  BY DEF TypeOK
<1>2. Order'
  BY DEF TypeOK, Order, LeftLoop, Roles
<1>3. Locks'
  BY DEF TypeOK, Locks, Roles
<1>4. Counts'
  BY SMTT(30), ConstantsAssumption DEF TypeOK, Counts, Inversion, Order, Roles
<1>5. Work'
  BY ConstantsAssumption DEF TypeOK, Work, Early, Outside, LeftLoop, Order, Roles
<1>6. Phases'
  <2>1. pc[g]["low"] \notin Early
    BY DEF Early, Outside
  <2>2. \A h \in Groups, q \in Roles : pc'[h][q] = pc[h][q] \/ pc'[h][q] \notin Early
    BY DEF Early, Outside, Roles
  <2> QED
    BY <2>1, <2>2, LatePhases DEF Roles
<1> QED
  BY <1>1, <1>2, <1>3, <1>4, <1>5, <1>6

-----------------------------------------------------------------------------
(* Main *)

\* A step that leaves the workers' state alone and at most raises shutdown.
LEMMA WorkersUntouched ==
  ASSUME Ind, UNCHANGED <<pc, loop, total, mutex>>, shutdown' \in {shutdown, 1}
  PROVE  Order' /\ Locks' /\ Counts' /\ Work'
<1> USE DEF Ind
<1>1. Order' /\ Locks' /\ Work'
  BY DEF Order, Locks, Work
<1>2. Counts'
  BY DEF Counts
<1> QED
  BY <1>1, <1>2

\* A step of main in reporter() or after it.
LEMMA MainPhases ==
  ASSUME Ind, UNCHANGED pc, mpc \notin {"create", "ready", "exit"},
         mpc' \notin {"create", "ready"},
         mpc' = "done" => have_errors' = 0 /\ interrupted' = 0,
         retval' # "SUCCESS"
  PROVE  Phases'
<1>1. \A g \in Groups, r \in Roles : pc'[g][r] \notin Early
  BY DEF Ind, Phases
<1> QED
  BY <1>1 DEF Phases, SuccessIsClean

\* Every step of reporter, of the watchdog and of main after them keeps it.
LEMMA ReporterInd ==
  ASSUME Ind,
         \/ ReporterFirstSleep \/ ReporterTop \/ ReporterSleep
         \/ PendingInterrupt \/ WatchdogCheck \/ WatchdogClear \/ ReporterReturn
         \/ MainFinish
  PROVE  Ind'
<1> USE DEF Ind
<1>1. CASE ReporterFirstSleep
  <2> USE <1>1 DEF ReporterFirstSleep, Main
  <2>1. UNCHANGED <<pc, loop, total, mutex>> /\ shutdown' \in {shutdown, 1}
    BY DEF workerVars, flagVars
  <2>2. TypeOK'
    BY DEF TypeOK, MainLocs, workerVars, flagVars, dogVars
  <2>3. Phases'
    BY <2>1, MainPhases DEF flagVars
  <2> QED
    BY <2>1, <2>2, <2>3, WorkersUntouched
<1>2. CASE ReporterTop
  <2> USE <1>2 DEF ReporterTop, Main
  <2>1. UNCHANGED <<pc, loop, total, mutex>> /\ shutdown' \in {shutdown, 1}
    BY DEF workerVars, flagVars
  <2>2. TypeOK'
    BY DEF TypeOK, MainLocs, workerVars, flagVars, dogVars
  <2>3. Phases'
    BY <2>1, MainPhases DEF flagVars
  <2> QED
    BY <2>1, <2>2, <2>3, WorkersUntouched
<1>3. CASE ReporterSleep
  <2> USE <1>3 DEF ReporterSleep, DurationReached, Main
  <2>1. UNCHANGED <<pc, loop, total, mutex>> /\ shutdown' \in {shutdown, 1}
    BY DEF workerVars, flagVars
  <2>2. TypeOK'
    BY DEF TypeOK, MainLocs, workerVars, flagVars, dogVars
  <2>3. Phases'
    BY <2>1, MainPhases DEF flagVars
  <2> QED
    BY <2>1, <2>2, <2>3, WorkersUntouched
<1>4. CASE PendingInterrupt
  <2> USE <1>4 DEF PendingInterrupt, Main
  <2>1. UNCHANGED <<pc, loop, total, mutex>> /\ shutdown' \in {shutdown, 1}
    BY DEF workerVars, flagVars
  <2>2. TypeOK'
    BY ConstantsAssumption
       DEF TypeOK, MainLocs, workerVars, flagVars, dogVars, Groups
  <2>3. Phases'
    BY <2>1, MainPhases DEF flagVars
  <2> QED
    BY <2>1, <2>2, <2>3, WorkersUntouched
<1>5. CASE WatchdogCheck
  <2> USE <1>5 DEF WatchdogCheck, Main
  <2>1. UNCHANGED <<pc, loop, total, mutex>> /\ shutdown' \in {shutdown, 1}
    BY DEF workerVars, flagVars
  <2>2. TypeOK'
    <3>1. NewHits(ri) \in Nat
      BY DEF TypeOK, NewHits
    <3>2. watchdog_hits' \in [Groups -> Nat]
      BY <3>1 DEF TypeOK
    <3>3. ri' \in Groups
      BY ConstantsAssumption DEF TypeOK, Groups
    <3>4. mpc' \in MainLocs
      BY DEF MainLocs
    <3> QED
      BY <3>2, <3>3, <3>4 DEF TypeOK, workerVars
  <2>3. Phases'
    BY <2>1, MainPhases DEF flagVars
  <2> QED
    BY <2>1, <2>2, <2>3, WorkersUntouched
<1>6. CASE WatchdogClear
  <2> USE <1>6 DEF WatchdogClear, Main
  <2>1. UNCHANGED <<pc, loop, total, mutex>> /\ shutdown' \in {shutdown, 1}
    BY DEF workerVars, flagVars
  <2>2. TypeOK'
    BY ConstantsAssumption
       DEF TypeOK, MainLocs, workerVars, flagVars, dogVars, Groups
  <2>3. Phases'
    BY <2>1, MainPhases DEF flagVars
  <2> QED
    BY <2>1, <2>2, <2>3, WorkersUntouched
<1>7. CASE ReporterReturn
  <2> USE <1>7 DEF ReporterReturn, Main
  <2>1. UNCHANGED <<pc, loop, total, mutex>> /\ shutdown' \in {shutdown, 1}
    BY DEF workerVars, flagVars
  <2>2. TypeOK'
    BY DEF TypeOK, MainLocs, workerVars, flagVars, dogVars
  <2>3. Phases'
    BY <2>1, MainPhases DEF flagVars
  <2> QED
    BY <2>1, <2>2, <2>3, WorkersUntouched
<1>8. CASE MainFinish
  <2> USE <1>8 DEF MainFinish, Main
  <2>1. UNCHANGED <<pc, loop, total, mutex>> /\ shutdown' \in {shutdown, 1}
    BY DEF workerVars, flagVars
  <2>2. TypeOK'
    BY DEF TypeOK, MainLocs, workerVars, flagVars, dogVars
  <2>3. Phases'
    BY <2>1, MainPhases DEF flagVars
  <2> QED
    BY <2>1, <2>2, <2>3, WorkersUntouched
<1> QED
  BY <1>1, <1>2, <1>3, <1>4, <1>5, <1>6, <1>7, <1>8

\* create_group, also with a failing pthread_create, keeps it.
LEMMA CreateGroupInd ==
  ASSUME Ind, CreateGroup
  PROVE  Ind'
<1> USE DEF Ind
<1>1. /\ retval = "none" /\ mpc = "create" /\ mpc' \in {"create", "ready", "exit"}
      /\ UNCHANGED <<interrupted, loop, total, mutex, watchdog, watchdog_hits,
                     failures>>
      /\ shutdown' \in {shutdown, 1} /\ have_errors' \in {have_errors, 1}
      /\ retval' \in {"none", "FAILURE"}
  BY DEF CreateGroup, Main, dogVars
<1>2. ri' \in Groups
  BY ConstantsAssumption DEF CreateGroup, TypeOK, Groups
<1>3. PICK f \in [Roles -> {"unborn", "verify"}] : pc' = [pc EXCEPT ![ri] = f]
  <2>1. CASE pc' = [pc EXCEPT ![ri] = [r \in Roles |-> "verify"]]
    BY <2>1
  <2>2. ASSUME NEW r \in Roles,
               pc' = [pc EXCEPT ![ri] = [q \in Roles |->
                        IF q \in CreatedBefore[r] THEN "verify" ELSE "unborn"]]
        PROVE  \E f \in [Roles -> {"unborn", "verify"}] : pc' = [pc EXCEPT ![ri] = f]
    BY <2>2
  <2> QED
    BY <2>1, <2>2 DEF CreateGroup
<1>4. \A g \in Groups, r \in Roles : pc[g][r] \in Early
  BY <1>1 DEF Phases
<1>5. /\ pc' \in [Groups -> [Roles -> WorkerLocs]]
      /\ \A g \in Groups, r \in Roles :
           pc'[g][r] = pc[g][r] \/ pc'[g][r] \in {"unborn", "verify"}
  BY <1>3 DEF TypeOK, WorkerLocs, Outside
<1>6. \A g \in Groups, r \in Roles : pc'[g][r] \in Early
  BY <1>4, <1>5 DEF Early, Outside
<1>7. TypeOK'
  BY <1>1, <1>2, <1>5 DEF TypeOK, MainLocs
<1>8. Order'
  BY <1>6, <1>1 DEF Order, Early, Outside, LeftLoop, Roles
<1>9. Locks'
  BY <1>4, <1>6, <1>1 DEF Locks, Early, Outside, Roles
<1>10. Counts'
  BY <1>4, <1>6, <1>1, ConstantsAssumption DEF Counts, Early, Outside, Inversion, Roles
<1>11. Work'
  BY <1>4, <1>6, <1>1 DEF Work, Early, Outside, LeftLoop, Roles
<1>12. Phases'
  BY <1>1, <1>6 DEF Phases, SuccessIsClean
<1> QED
  BY <1>7, <1>8, <1>9, <1>10, <1>11, <1>12

\* The barrier all_threads_ready keeps it and lets every worker into its loop.
LEMMA ReadyBarrierInd ==
  ASSUME Ind, ReadyBarrier
  PROVE  Ind'
<1> USE DEF Ind
<1>1. /\ retval = "none" /\ mpc = "ready" /\ mpc' = "sleep0"
      /\ UNCHANGED <<ri, shutdown, have_errors, interrupted, loop, total, mutex,
                     watchdog, watchdog_hits, failures, retval>>
  BY DEF ReadyBarrier, Main, flagVars, dogVars
<1>2. /\ pc' \in [Groups -> [Roles -> WorkerLocs]]
      /\ \A g \in Groups, r \in Roles : pc[g][r] = "ready" /\ pc'[g][r] = "top"
  BY DEF ReadyBarrier, WorkerLocs, LoopHead
<1> USE <1>1, <1>2
<1>3. TypeOK'
  BY DEF TypeOK, MainLocs
<1>4. Order'
  BY DEF Order, LeftLoop, Roles
<1>5. Locks'
  BY DEF Locks, Roles
<1>6. Counts'
  BY DEF Counts, Inversion, Roles
<1>7. Work'
  BY DEF Work, Early, Outside, LeftLoop, Roles
<1>8. Phases'
  BY DEF Phases, Early, Outside, SuccessIsClean
<1> QED
  BY <1>3, <1>4, <1>5, <1>6, <1>7, <1>8

\* The barrier all_threads_done keeps it; only here success is reported.
LEMMA DoneBarrierInd ==
  ASSUME Ind, DoneBarrier
  PROVE  Ind'
<1> USE DEF Ind
<1>1. /\ retval = "none" /\ mpc = "done" /\ mpc' = "exit" /\ retval' = "SUCCESS"
      /\ UNCHANGED <<ri, shutdown, have_errors, interrupted, loop, total, mutex,
                     watchdog, watchdog_hits, failures>>
  BY DEF DoneBarrier, Main, flagVars, dogVars
<1>2. /\ pc' \in [Groups -> [Roles -> WorkerLocs]]
      /\ \A g \in Groups, r \in Roles : pc[g][r] = "done" /\ pc'[g][r] = "gone"
  BY DEF DoneBarrier, WorkerLocs, LeftLoop
<1> USE <1>1, <1>2
<1>3. TypeOK'
  BY DEF TypeOK, MainLocs
<1>4. Order'
  BY DEF Order, LeftLoop, Roles
<1>5. Locks'
  BY DEF Locks, Roles
<1>6. Counts'
  BY DEF Counts, Inversion, Roles
<1>7. Work'
  BY DEF Work, Early, Outside, LeftLoop, Roles
<1>8. Phases'
  <2>1. \A g \in Groups : loop[g] = 0
    BY DEF Order, LeftLoop, Roles
  <2>2. \A g \in Groups : mutex[g] = "none"
    BY DEF TypeOK, Locks, Roles
  <2>3. \A g \in Groups : total[g] > 0
    BY <2>1 DEF Work, Early, Outside, LeftLoop, Roles
  <2>4. have_errors = 0 /\ interrupted = 0
    BY DEF Phases
  <2>5. SuccessIsClean'
    BY <2>1, <2>2, <2>3, <2>4 DEF SuccessIsClean
  <2> QED
    BY <2>5 DEF Phases, Early, Outside
<1> QED
  BY <1>3, <1>4, <1>5, <1>6, <1>7, <1>8

\* The end of the process keeps it.
LEMMA EndInd ==
  ASSUME Ind, UNCHANGED vars
  PROVE  Ind'
<1> USE DEF Ind
<1>1. UNCHANGED <<pc, mpc, ri, shutdown, have_errors, interrupted, loop, total,
                  mutex, watchdog, watchdog_hits, failures, retval>>
  BY DEF vars
<1>2. TypeOK'
  BY <1>1 DEF TypeOK
<1>3. Phases'
  BY <1>1 DEF Phases, SuccessIsClean
<1> QED
  BY <1>1, <1>2, <1>3, WorkersUntouched

-----------------------------------------------------------------------------
(* The theorems *)

\* Every step of the program keeps the inductive invariant.
LEMMA IndNext == Ind /\ [Next]_vars => Ind'
<1> SUFFICES ASSUME Ind, [Next]_vars PROVE Ind'
  OBVIOUS
<1>1. ASSUME NEW g \in Groups, NEW r \in Roles, WorkerStep(g, r) PROVE Ind'
  BY <1>1, VerifyCpuInd, CheckTotalInd, CheckLoopInd, SerialCheckInd, LeaveLoopInd,
     CheckErrorsInd DEF WorkerStep
<1>2. ASSUME NEW g \in Groups, LowStep(g) \/ HighStep(g) PROVE Ind'
  BY <1>2, LowLockInd, LowUnlockInd, HighLockInd, HighWakeInd, HighUnlockInd,
     CountInversionInd, FeedWatchdogInd DEF LowStep, HighStep
<1>3. ASSUME NEW g \in Groups, GroupBarrier(g) PROVE Ind'
  BY <1>3, LoopBarrierInd, StartBarrierInd, LockedBarrierInd, ElevateBarrierInd,
     FinishBarrierInd DEF GroupBarrier
<1>4. CASE MainStep
  BY <1>4, CreateGroupInd, ReadyBarrierInd, ReporterInd, DoneBarrierInd DEF MainStep
<1>5. CASE Terminated \/ UNCHANGED vars
  BY <1>5, EndInd DEF Terminated
<1> QED
  BY <1>1, <1>2, <1>3, <1>4, <1>5 DEF Next

\* The inductive invariant holds in every reachable state.
THEOREM Invariance == Spec => []Ind
  BY IndInit, IndNext, PTL DEF Spec

\* Every variable keeps its type, whatever fails and however the threads are
\* scheduled.
THEOREM TypeCorrect == Spec => []TypeOK
<1>1. Ind => TypeOK
  BY DEF Ind
<1> QED
  BY <1>1, Invariance, PTL

\* No worker is left waiting at a loop barrier the others have walked past.
THEOREM AllOrNoneHolds == Spec => []AllOrNone
<1>1. Ind => AllOrNone
  BY DEF Ind, Order, AllOrNone
<1> QED
  BY <1>1, Invariance, PTL

\* No group does more than one inversion beyond --inversions.
THEOREM OvershootBounded == Spec => []BoundedOvershoot
<1>1. Ind => BoundedOvershoot
  BY DEF Ind, Counts, BoundedOvershoot
<1> QED
  BY <1>1, Invariance, PTL

\* EXIT_SUCCESS is only reached cleanly.
THEOREM SuccessClean == Spec => []SuccessIsClean
<1>1. Ind => SuccessIsClean
  BY DEF Ind, Phases
<1> QED
  BY <1>1, Invariance, PTL

\* A worker on the wrong CPU keeps all groups out of their loops.
THEOREM NoShortHandedRun == Spec => []NobodyRunsShortHanded
<1>1. Ind => NobodyRunsShortHanded
  BY DEF Ind, Phases, Early, NobodyRunsShortHanded
<1> QED
  BY <1>1, Invariance, PTL

\* Only LowUnlock takes the low thread away from its unlock.
LEMMA OnlyLowUnlock ==
  ASSUME Ind, Next, NEW g \in Groups,
         pc[g]["low"] = "unlock", pc'[g]["low"] # "unlock"
  PROVE  LowUnlock(g)
<1> USE DEF Ind
<1>0. "low" \in Roles /\ "high" \in Roles
  BY DEF Roles
<1>1. ASSUME NEW h \in Groups, NEW r \in Roles, NEW from, NEW to, Step(h, r, from, to)
      PROVE  h = g /\ r = "low" /\ from = "unlock"
  BY <1>0, <1>1 DEF Step, TypeOK
<1>2. ASSUME NEW h \in Groups, NEW rs \in SUBSET Roles, NEW at, NEW to, at # "unlock",
             Barrier(h, rs, at, to)
      PROVE  FALSE
  BY <1>0, <1>2 DEF Barrier, TypeOK
<1>3. ASSUME NEW h \in Groups, NEW r \in Roles, WorkerStep(h, r)
      PROVE  FALSE
  BY <1>1, <1>3 DEF WorkerStep, VerifyCpu, CheckTotal, CheckLoop, SerialCheck,
     LeaveLoop, CheckErrors
<1>4. ASSUME NEW h \in Groups, LowStep(h) \/ HighStep(h)
      PROVE  LowUnlock(g)
  BY <1>0, <1>1, <1>4 DEF LowStep, HighStep, LowLock, LowUnlock, HighLock, HighWake,
     HighUnlock, CountInversion, FeedWatchdog
<1>5. ASSUME NEW h \in Groups, GroupBarrier(h)
      PROVE  FALSE
  <2>1. {"low", "high"} \in SUBSET Roles /\ {"low", "med"} \in SUBSET Roles
    BY DEF Roles
  <2> QED
    BY <1>2, <1>5, <2>1 DEF GroupBarrier, LoopBarrier, StartBarrier, LockedBarrier,
       ElevateBarrier, FinishBarrier
<1>6. ~MainStep
  <2>1. pc[g]["low"] \notin Early
    BY DEF Early, Outside
  <2>2. ~CreateGroup
    BY <1>0, <2>1 DEF CreateGroup, Main, Phases
  <2>3. ~ReadyBarrier /\ ~DoneBarrier
    BY <1>0 DEF ReadyBarrier, DoneBarrier
  <2>4. UNCHANGED pc => FALSE
    OBVIOUS
  <2> QED
    BY <2>2, <2>3, <2>4 DEF MainStep, ReporterFirstSleep, ReporterTop, ReporterSleep,
       DurationReached, PendingInterrupt, WatchdogCheck, WatchdogClear, ReporterReturn,
       MainFinish, workerVars
<1> QED
  BY <1>3, <1>4, <1>5, <1>6 DEF Next, Terminated, vars, workerVars

\* On one CPU under SCHED_FIFO the low thread releases the mutex only while the
\* high thread is blocked on it, with or without priority inheritance.
THEOREM InversionIsReal == Spec => RealInversion
<1>1. ASSUME Ind, [Next]_vars, NEW g \in Groups, Fifo,
             pc[g]["low"] = "unlock", pc'[g]["low"] # "unlock"
      PROVE  pc[g]["high"] = "hwait"
  <2>1. LowUnlock(g)
    BY <1>1, OnlyLowUnlock DEF vars
  <2>2. MayRun(g, "low")
    BY <2>1 DEF LowUnlock, Step
  <2>3. pc[g]["high"] \in {"hlock", "hwait"}
    BY <1>1 DEF Ind, Locks
  <2>4. ASSUME pc[g]["high"] = "hlock" PROVE FALSE
    <3>1. CanRun(g, "high")
      BY <2>4 DEF CanRun, Barriers
    <3>2. EffPrio(g, "high") = 3 /\ EffPrio(g, "low") = 1
      BY <2>4 DEF EffPrio, BasePrio
    <3> QED
      BY <1>1, <2>2, <3>1, <3>2 DEF MayRun, Roles
  <2> QED
    BY <2>3, <2>4
<1>2. Ind /\ [Next]_vars =>
        [\A g \in Groups :
           Fifo /\ pc[g]["low"] = "unlock" /\ pc'[g]["low"] # "unlock"
             => pc[g]["high"] = "hwait"]_vars
  BY <1>1
<1> QED
  BY <1>2, Invariance, PTL DEF Spec, RealInversion

-----------------------------------------------------------------------------
(* The watchdog *)

\* Where high is between feeding the watchdog and the next inversion, or for good.
Fed == {"top", "chkloop"} \cup LeftLoop

\* Between the reporter's test of shutdown and the end of watchdog_check.
Watching == {"rsleep", "rint", "wcheck"}

\* loop is only cleared once shutdown is set.  The reporter goes on to watchdog_check
\* only if shutdown was not set after watchdog_clear; a group whose loop is cleared
\* later has an inversion before it, and feeds the watchdog.
Watch ==
  /\ \A g \in Groups : loop[g] = 0 => shutdown = 1
  /\ mpc \in Watching =>
       \A g \in Groups : loop[g] = 0 /\ pc[g]["high"] \in Fed => watchdog[g] = 1

\* A step that leaves loop, the watchdog and main alone, or ends the process,
\* keeps Watch, unless it brings high out of an inversion.
LEMMA WatchFrame ==
  ASSUME Watch, UNCHANGED <<loop, watchdog>>, mpc' \in {mpc, "exit"},
         shutdown' \in {shutdown, 1},
         \A g \in Groups : pc'[g]["high"] \in Fed => pc[g]["high"] \in Fed
  PROVE  Watch'
  BY DEF Watch, Watching

\* Worker r of group g moves between two places that are both in Fed, or not to Fed.
LEMMA WatchStep ==
  ASSUME Ind, Watch, NEW g \in Groups, NEW r \in Roles, NEW from, NEW to \in WorkerLocs,
         Step(g, r, from, to), to \in Fed /\ r = "high" => from \in Fed,
         UNCHANGED <<loop, watchdog>>, mpc' \in {mpc, "exit"},
         shutdown' \in {shutdown, 1}
  PROVE  Watch'
<1>1. \A h \in Groups : pc'[h]["high"] \in Fed => pc[h]["high"] \in Fed
  BY StepPc DEF Ind, Roles
<1> QED
  BY <1>1, WatchFrame

\* A barrier brings high nowhere into Fed.
LEMMA WatchBarrier ==
  ASSUME Ind, Watch, NEW g \in Groups, NEW rs \in SUBSET Roles, NEW at, NEW to,
         \A r \in rs : to[r] \in WorkerLocs, "high" \in rs => to["high"] \notin Fed,
         Barrier(g, rs, at, to)
  PROVE  Watch'
<1>1. UNCHANGED <<mpc, loop, watchdog, shutdown>>
  BY DEF Barrier, flagVars, dogVars
<1>2. \A h \in Groups : pc'[h]["high"] \in Fed => pc[h]["high"] \in Fed
  BY BarrierPc DEF Ind, Roles
<1> QED
  BY <1>1, <1>2, WatchFrame

\* A step of a worker keeps Watch; loop is cleared only when shutdown is set.
LEMMA WatchWorker ==
  ASSUME Ind, Watch, NEW g \in Groups, NEW r \in Roles, WorkerStep(g, r)
  PROVE  Watch'
<1> USE DEF flagVars, dogVars
<1>0. WorkerLocs = {"unborn", "verify", "ready", "top", "chkloop", "loop_barr", "serial",
                    "start", "lock", "locked", "elevate", "unlock", "hlock", "hwait",
                    "hunlock", "finish", "total", "leave", "chkerr", "done", "gone",
                    "watchdog", "failed"}
  BY DEF WorkerLocs, Outside, LoopHead, Inversion, LeftLoop
<1>1. CASE VerifyCpu(g, r)
  BY <1>0, <1>1, WatchStep DEF VerifyCpu, Fed, LeftLoop
<1>2. CASE CheckTotal(g, r)
  BY <1>0, <1>2, WatchStep DEF CheckTotal, Fed
<1>3. CASE CheckLoop(g, r)
  BY <1>0, <1>3, WatchStep DEF CheckLoop, Fed
<1>4. CASE SerialCheck(g, r)
  <2>1. /\ Step(g, r, "serial", "start") /\ UNCHANGED <<mpc, watchdog, shutdown>>
        /\ loop' = [loop EXCEPT ![g] = IF shutdown = 1 THEN 0 ELSE @]
    BY <1>4 DEF SerialCheck
  <2>2. pc[g][r] = "serial" /\ \A q \in Roles : q # r => pc[g][q] = "start"
    BY <2>1 DEF Step, Ind, Order
  <2>3. \A q \in Roles : pc'[g][q] = "start"
    BY <1>0, <2>1, <2>2, StepPc DEF Ind
  <2>4. \A h \in Groups : h # g => pc'[h] = pc[h]
    BY <1>0, <2>1, StepPc DEF Ind
  <2>5. "high" \in Roles /\ "start" \notin Fed
    BY DEF Roles, Fed, LeftLoop
  <2> QED
    BY <2>1, <2>3, <2>4, <2>5 DEF Watch, Ind, TypeOK
<1>5. CASE LeaveLoop(g, r)
  BY <1>0, <1>5, WatchStep DEF LeaveLoop, Fed, LeftLoop
<1>6. CASE CheckErrors(g, r)
  BY <1>0, <1>6, WatchStep DEF CheckErrors, Fed, LeftLoop
<1> QED
  BY <1>1, <1>2, <1>3, <1>4, <1>5, <1>6 DEF WorkerStep

\* The steps of the inversion keep Watch: high feeds the watchdog on its way out.
LEMMA WatchGroup ==
  ASSUME Ind, Watch, NEW g \in Groups, LowStep(g) \/ HighStep(g) \/ GroupBarrier(g)
  PROVE  Watch'
<1> USE DEF flagVars, dogVars
<1>0. /\ {"locked", "finish", "hunlock", "hwait", "watchdog", "serial", "start", "lock",
          "elevate", "hlock", "unlock", "top", "total"} \subseteq WorkerLocs
      /\ {"low", "med", "high"} = Roles
      /\ {"hunlock", "hwait", "watchdog", "finish", "serial", "start", "locked", "hlock",
          "total"} \cap Fed = {}
  BY DEF WorkerLocs, LoopHead, Inversion, Roles, Fed, LeftLoop
<1>1. CASE LowLock(g) \/ LowUnlock(g)
  BY <1>0, <1>1, WatchStep DEF LowLock, LowUnlock
<1>2. CASE HighLock(g) \/ HighWake(g) \/ HighUnlock(g) \/ CountInversion(g)
  BY <1>0, <1>2, WatchStep DEF HighLock, HighWake, HighUnlock, CountInversion
<1>3. CASE FeedWatchdog(g)
  <2>1. /\ Step(g, "high", "watchdog", "top") /\ UNCHANGED <<mpc, loop, shutdown>>
        /\ watchdog' = [watchdog EXCEPT ![g] = 1]
    BY <1>3 DEF FeedWatchdog
  <2>2. \A h \in Groups : h # g => pc'[h] = pc[h]
    BY <1>0, <2>1, StepPc DEF Ind
  <2> QED
    BY <2>1, <2>2 DEF Watch, Ind, TypeOK
<1>4. CASE LoopBarrier(g)
  <2>1. PICK s \in Roles :
          Barrier(g, Roles, "loop_barr",
                  [r \in Roles |-> IF r = s THEN "serial" ELSE "start"])
    BY <1>4 DEF LoopBarrier
  <2> DEFINE to == [r \in Roles |-> IF r = s THEN "serial" ELSE "start"]
  <2>2. (\A r \in Roles : to[r] \in WorkerLocs) /\ to["high"] \notin Fed
    BY <1>0
  <2> QED
    BY <2>1, <2>2, WatchBarrier
<1>5. CASE StartBarrier(g)
  <2>1. (\A r \in Roles : AfterStart[r] \in WorkerLocs) /\ AfterStart["high"] \notin Fed
    BY <1>0 DEF AfterStart
  <2> QED
    BY <1>5, <2>1, WatchBarrier DEF StartBarrier
<1>6. CASE LockedBarrier(g)
  <2> DEFINE to == [low |-> "elevate", high |-> "hlock"]
  <2>1. (\A r \in {"low", "high"} : to[r] \in WorkerLocs) /\ to["high"] \notin Fed
        /\ {"low", "high"} \in SUBSET Roles
    BY <1>0
  <2> QED
    BY <1>6, <2>1, WatchBarrier DEF LockedBarrier
<1>7. CASE ElevateBarrier(g)
  <2> DEFINE to == [low |-> "unlock", med |-> "finish"]
  <2>1. (\A r \in {"low", "med"} : to[r] \in WorkerLocs) /\ {"low", "med"} \in SUBSET Roles
    BY <1>0
  <2> QED
    BY <1>7, <2>1, WatchBarrier DEF ElevateBarrier
<1>8. CASE FinishBarrier(g)
  <2>1. (\A r \in Roles : AfterFinish[r] \in WorkerLocs) /\ AfterFinish["high"] \notin Fed
    BY <1>0 DEF AfterFinish
  <2> QED
    BY <1>8, <2>1, WatchBarrier DEF FinishBarrier
<1> QED
  BY <1>1, <1>2, <1>3, <1>4, <1>5, <1>6, <1>7, <1>8 DEF LowStep, HighStep, GroupBarrier

\* The reporter enters Watching only with shutdown still 0, so that every loop is 1,
\* and clears no watchdog inside.
LEMMA WatchMain ==
  ASSUME Ind, Watch, MainStep
  PROVE  Watch'
<1> USE DEF Main, flagVars, dogVars, workerVars, Watch
<1>1. CASE CreateGroup
  BY <1>1 DEF CreateGroup, Watching, Ind, TypeOK
<1>2. CASE ReadyBarrier \/ DoneBarrier
  BY <1>2 DEF ReadyBarrier, DoneBarrier, Watching
<1>3. CASE ReporterFirstSleep \/ ReporterReturn \/ MainFinish
  BY <1>3 DEF ReporterFirstSleep, ReporterReturn, MainFinish, Watching
<1>4. CASE ReporterTop
  BY <1>4 DEF ReporterTop, Watching
<1>5. CASE ReporterSleep \/ PendingInterrupt
  BY <1>5 DEF ReporterSleep, DurationReached, PendingInterrupt, Watching
<1>6. CASE WatchdogCheck
  <2>1. mpc = "wcheck" /\ UNCHANGED <<pc, loop, watchdog>> /\ shutdown' \in {shutdown, 1}
    BY <1>6 DEF WatchdogCheck
  <2> QED
    BY <2>1 DEF Watching
<1>7. CASE WatchdogClear
  BY <1>7 DEF WatchdogClear, Watching
<1> QED
  BY <1>1, <1>2, <1>3, <1>4, <1>5, <1>6, <1>7 DEF MainStep

\* Watch holds before main has created a thread.
LEMMA WatchInit == Init => Watch
  BY DEF Init, Watch, Watching

\* Every step keeps Watch.
LEMMA WatchNext == Ind /\ Watch /\ [Next]_vars => Watch'
<1> SUFFICES ASSUME Ind, Watch, [Next]_vars
             PROVE  Watch'
  OBVIOUS
<1>1. CASE UNCHANGED vars \/ Terminated
  <2>1. UNCHANGED <<pc, mpc, loop, watchdog, shutdown>>
    BY <1>1 DEF Terminated, vars, workerVars, flagVars, dogVars
  <2> QED
    BY <2>1 DEF Watch
<1> QED
  BY <1>1, WatchWorker, WatchGroup, WatchMain DEF Next

\* "don't report deadlock if group is finished": the watchdog never counts a hit
\* against a group whose three workers have left the loop, although such a group feeds
\* it no more and may have done one inversion more than --inversions, so that its
\* total does not tell it from a group that hangs.
THEOREM FinishedIsNeverHit == Spec => FinishedGroupNeverHit
<1>1. Spec => []Watch
  BY Invariance, WatchInit, WatchNext, PTL DEF Spec
<1>2. ASSUME Ind, Watch, [Next]_vars, NEW g \in Groups, Finished(g),
             watchdog_hits'[g] > watchdog_hits[g]
      PROVE  FALSE
  <2>1. watchdog_hits[g] \in Nat /\ ~(watchdog_hits[g] > watchdog_hits[g])
    BY <1>2 DEF Ind, TypeOK
  <2>2. watchdog_hits' # watchdog_hits
    BY <1>2, <2>1
  <2>3. WatchdogCheck
    <3> USE DEF dogVars
    <3>1. ~(\E h \in Groups, r \in Roles : WorkerStep(h, r))
      BY <2>2 DEF WorkerStep, VerifyCpu, CheckTotal, CheckLoop, SerialCheck, LeaveLoop,
         CheckErrors
    <3>2. ~(\E h \in Groups : LowStep(h) \/ HighStep(h) \/ GroupBarrier(h))
      BY <2>2 DEF LowStep, HighStep, GroupBarrier, LowLock, LowUnlock, HighLock, HighWake,
         HighUnlock, CountInversion, FeedWatchdog, LoopBarrier, StartBarrier,
         LockedBarrier, ElevateBarrier, FinishBarrier, Barrier
    <3>3. MainStep => WatchdogCheck
      BY <2>2 DEF MainStep, CreateGroup, ReadyBarrier, ReporterFirstSleep, ReporterTop,
         ReporterSleep, DurationReached, PendingInterrupt, WatchdogClear, ReporterReturn,
         MainFinish, DoneBarrier
    <3> QED
      BY <1>2, <2>2, <3>1, <3>2, <3>3 DEF Next, Terminated, vars
  <2>4. /\ mpc = "wcheck" /\ ri \in Groups
        /\ watchdog_hits' = [watchdog_hits EXCEPT ![ri] = NewHits(ri)]
    BY <1>2, <2>3 DEF WatchdogCheck, Main, Ind, TypeOK
  <2>5. ri = g /\ NewHits(g) > watchdog_hits[g]
    BY <1>2, <2>1, <2>4 DEF Ind, TypeOK
  <2>6. pc[g]["high"] \in LeftLoop /\ loop[g] = 0
    BY <1>2 DEF Finished, Roles, Ind, Order
  <2>7. watchdog[g] = 1
    BY <1>2, <2>4, <2>6 DEF Watch, Watching, Fed
  <2> QED
    BY <2>1, <2>5, <2>7 DEF NewHits, Hit
<1>3. Ind /\ Watch /\ [Next]_vars =>
        [\A g \in Groups : watchdog_hits'[g] > watchdog_hits[g] => ~Finished(g)]_vars
  BY <1>2
<1> QED
  BY <1>1, <1>3, Invariance, PTL DEF Spec, FinishedGroupNeverHit
=============================================================================

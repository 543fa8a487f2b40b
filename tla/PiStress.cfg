\* Two groups on a CPU each under SCHED_FIFO, with every failure.  A worker that
\* verify_cpu turns away leaves the process hanging, so deadlock is not checked.
SPECIFICATION FairSpec
CONSTANTS
  NGroups = 2
  Inversions = 1
  Duration = TRUE
  WATCHDOG_LIMIT = 2
  TotalCap = 3
  Failures <- AllFailures
  Fifo = TRUE
  Inherit = TRUE
INVARIANTS AllOrNone BoundedOvershoot SuccessIsClean NobodyRunsShortHanded
PROPERTIES FinishedGroupNeverHit RealInversion ShutdownCompletes
CHECK_DEADLOCK FALSE

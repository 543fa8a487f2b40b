\* Three tasks, --loops=2, with and without --check.  The
\* program stops when it exits; one that stops before violates Ends.
SPECIFICATION FairSpec
CONSTANTS
  NrTasks = 3
  NrRuns = 2
  MaxErr = 1
  Measurements <- MCMeasurements
  Masks <- MCMasks
INVARIANTS TableComplete EveryCpuInTurn VerdictSound
PROPERTIES Ends
CHECK_DEADLOCK FALSE

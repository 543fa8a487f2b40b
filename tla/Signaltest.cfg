\* Three threads with --loops=3 and --breaktrace, and a buffer of two values.
SPECIFICATION FairSpec
CONSTANTS
  NumThreads = 3
  MaxCycles = 3
  ValbufSize = 2
  Tracelimit = TRUE
CHECK_DEADLOCK FALSE
INVARIANTS EveryLatencyOneRound OutputFaithful
PROPERTIES ShutdownCompletes

\* Two threads under four command lines: aligned with --loops, --breaktrace with
\* --duration, --refresh_on_max with --loops, and --fifo with --loops.
SPECIFICATION FairSpec
CONSTANTS
  NThreads = 2
  CommandLines <- EveryStyle
  MaxLatency = 2
  Failures <- AllFailures
INVARIANTS AlignedStart FreedAfterJoin BreakReported
PROPERTIES ShutdownCompletes

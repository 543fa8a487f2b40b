\* Two pairs of threads or processes with --loops=2 and --breaktrace.
SPECIFICATION FairSpec
CONSTANTS
  NThreads = 2
  MaxCycles = 2
  Breaktrace = TRUE
PROPERTIES EveryLatencyItsEvent LoopsEnd

\* Two pairs with --loops=2 and --breaktrace.
SPECIFICATION FairSpec
CONSTANTS
  NThreads = 2
  MaxCycles = 2
  Breaktrace = TRUE
INVARIANT NobodyStuck
PROPERTIES EveryLatencyItsEvent LoopsEnd

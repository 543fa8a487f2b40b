\* Two pairs with --loops=2 under every way to wait, and with queues that may hold
\* messages of an earlier process.
SPECIFICATION FairSpec
CONSTANTS
  NThreads = 2
  MaxCycles = 2
  StalePairs = {0}
  Styles = {"wait", "timed", "forced"}
PROPERTIES EveryLatencyItsEvent LoopsEnd

\* Two pairs with --loops=2 and --breaktrace; senders may be late, and a signal from
\* outside may reach the threads of the first pair.
SPECIFICATION FairSpec
CONSTANTS
  NThreads = 2
  MaxCycles = 2
  Breaktrace = TRUE
  Exposed = {0}
INVARIANT NoTornStamp
PROPERTIES EveryLatencyItsEvent LoopsEnd

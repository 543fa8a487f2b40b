\* Two groups of two workers or one group of four, two messages of two bytes from every
\* sender to every receiver of its group.
SPECIFICATION FairSpec
CONSTANTS
  Shapes <- MCShapes
  Loops = 2
  Datasize = 2
  Capacity = 3
CHECK_DEADLOCK FALSE
INVARIANTS TimeSpansTraffic NobodyLeftBehind
PROPERTIES Ends

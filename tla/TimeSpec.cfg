SPECIFICATION StampSpec
CONSTANTS
  Secs <- MCSecs
  Nsecs <- MCNsecs
  Intervals <- MCIntervals
INVARIANTS OrderAgrees WithinAMicrosecond MonotoneLatency
CHECK_DEADLOCK FALSE

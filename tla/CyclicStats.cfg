\* Latencies in and above two bins and above a second, with and without a histogram
\* and a reduction, and a ring that may be lapped.
SPECIFICATION Spec
CONSTANTS
  Latencies <- Microseconds
  Width = 4000000
  Histograms <- NoneOrTwoBins
  Reductions <- AllOrPairs
  BufSize = 2
  MaxSamples = 4
INVARIANTS HistogramFaithful Extremes OutputFaithful

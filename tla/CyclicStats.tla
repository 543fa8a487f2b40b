----------------------------- MODULE CyclicStats -----------------------------
(***************************************************************************)
(* The statistics of one cyclictest thread (src/src/cyclictest/            *)
(* cyclictest.c): timerthread stores each measured latency in min, max,    *)
(* the histogram and, with --verbose, in a ring of BufSize values; main    *)
(* prints the ring in print_stat while the thread keeps writing it.        *)
(* Nothing protects the ring: the two sides only share cycles.             *)
(*                                                                         *)
(* diff is an uint64_t that is compared with the longs min and max: the    *)
(* comparison is unsigned, modulo Width.                                   *)
(***************************************************************************)
EXTENDS Integers, Sequences, FiniteSetsExt

CONSTANTS
  Latencies,   \* what a cycle may measure
  Width,       \* 2^64 of the code; any number above all latencies
  Histograms,  \* the values of histogram, -h; 0 = none
  Reductions,  \* the values of oscope_reduction, -o
  BufSize,     \* VALBUF_SIZE
  MaxSamples   \* bound: cycles of a run (-l)

ASSUME ConstantsAssumption ==
  /\ Latencies \subseteq Int
  /\ Width \in Nat /\ \A d \in Latencies : d < Width /\ -d < Width
  /\ Histograms \subseteq Nat /\ Reductions \subseteq Nat \ {0}
  /\ BufSize \in Nat \ {0}
  /\ MaxSamples \in Nat

InitialMin == 1000000

VARIABLES
  histogram, oscope_reduction,    \* the command line of this run
  wpc, diff,                      \* timerthread
  cycles, min, max, values, hist_array, hist_overflow, outliers,
  rpc, cyclesread, reduce, redmax, cycleofmax,   \* print_stat
  output,                         \* the lines printed: <<count, value>>
  samples, lapped                 \* history: all values, and was a slot lost?

optVars    == <<histogram, oscope_reduction>>
writerVars == <<cycles, min, max, values, hist_array, hist_overflow, outliers>>
readerVars == <<rpc, cyclesread, reduce, redmax, cycleofmax, output>>
vars == <<histogram, oscope_reduction, wpc, diff, cycles, min, max, values,
          hist_array, hist_overflow, outliers, rpc, cyclesread, reduce, redmax,
          cycleofmax, output, samples, lapped>>

Slots == 0 .. (BufSize - 1)
Bins  == 0 .. (histogram - 1)

\* The conversion of a long to uint64_t.
U(x) == x % Width

Init ==
  /\ histogram \in Histograms /\ oscope_reduction \in Reductions
  /\ wpc = "wait" /\ diff = 0
  /\ cycles = 0 /\ min = InitialMin /\ max = 0
  /\ values = [k \in Slots |-> 0]
  /\ hist_array = [k \in Bins |-> 0] /\ hist_overflow = 0 /\ outliers = <<>>
  /\ rpc = "sleep" /\ cyclesread = 0
  /\ reduce = 0 /\ redmax = 0 /\ cycleofmax = 0
  /\ output = <<>>
  /\ samples = <<>> /\ lapped = FALSE

-----------------------------------------------------------------------------
(* timerthread *)

\* Mutant: else if.
Measure_ElseIf ==
  /\ wpc = "wait" /\ cycles < MaxSamples
  /\ \E d \in Latencies :
       /\ diff' = d
       /\ min' = IF U(d) < U(min) THEN d ELSE min
       /\ max' = IF ~(U(d) < U(min)) /\ U(d) > U(max) THEN d ELSE max
       /\ samples' = Append(samples, d)
  /\ wpc' = "store"
  /\ UNCHANGED <<optVars, cycles, values, hist_array, hist_overflow, outliers,
                 readerVars, lapped>>

\* The wait and the clock: a new latency.
Measure ==
  /\ wpc = "wait" /\ cycles < MaxSamples
  /\ \E d \in Latencies :
       /\ diff' = d
       /\ min' = IF U(d) < U(min) THEN d ELSE min
       /\ max' = IF U(d) > U(max) THEN d ELSE max
       /\ samples' = Append(samples, d)
  /\ wpc' = "store"
  /\ UNCHANGED <<optVars, cycles, values, hist_array, hist_overflow, outliers,
                 readerVars, lapped>>

\* values[cycles & bufmsk] = diff
StoreValue ==
  /\ wpc = "store"
  /\ values' = [values EXCEPT ![cycles % BufSize] = diff]
  /\ lapped' = (lapped \/ cycles - cyclesread >= BufSize)
  /\ wpc' = "hist"
  /\ UNCHANGED <<optVars, diff, cycles, min, max, hist_array, hist_overflow, outliers,
                 readerVars, samples>>

\* Mutant: > for >=, guarded so that the array is not left.
UpdateHistogram_Greater ==
  /\ wpc = "hist"
  /\ wpc' = "count"
  /\ \/ /\ histogram > 0 /\ U(diff) > histogram
        /\ hist_overflow' = hist_overflow + 1
        /\ outliers' = IF Len(outliers) < histogram THEN Append(outliers, cycles)
                       ELSE outliers
        /\ UNCHANGED hist_array
     \/ /\ histogram > 0 /\ U(diff) <= histogram
        /\ hist_array' = [k \in Bins |-> IF k = diff THEN hist_array[k] + 1
                                         ELSE hist_array[k]]
        /\ UNCHANGED <<hist_overflow, outliers>>
     \/ histogram = 0 /\ UNCHANGED <<hist_array, hist_overflow, outliers>>
  /\ UNCHANGED <<optVars, diff, cycles, min, max, values, readerVars, samples,
                 lapped>>

\* The histogram: a bin, or the overflow count and the list of outliers, which
\* has room for histogram entries.
UpdateHistogram ==
  /\ wpc = "hist"
  /\ wpc' = "count"
  /\ \/ /\ histogram > 0 /\ U(diff) >= histogram
        /\ hist_overflow' = hist_overflow + 1
        /\ outliers' = IF Len(outliers) < histogram THEN Append(outliers, cycles)
                       ELSE outliers
        /\ UNCHANGED hist_array
     \/ /\ histogram > 0 /\ U(diff) < histogram
        /\ hist_array' = [hist_array EXCEPT ![diff] = @ + 1]
        /\ UNCHANGED <<hist_overflow, outliers>>
     \/ histogram = 0 /\ UNCHANGED <<hist_array, hist_overflow, outliers>>
  /\ UNCHANGED <<optVars, diff, cycles, min, max, values, readerVars, samples,
                 lapped>>

CountCycle ==
  /\ wpc = "count"
  /\ cycles' = cycles + 1
  /\ wpc' = "wait"
  /\ UNCHANGED <<optVars, diff, min, max, values, hist_array, hist_overflow, outliers,
                 readerVars, samples, lapped>>

-----------------------------------------------------------------------------
(* print_stat with --verbose, called from main's loop and once at the end *)

StartPrinting ==
  /\ rpc = "sleep" /\ cyclesread < MaxSamples
  /\ rpc' = "print"
  /\ UNCHANGED <<optVars, wpc, diff, writerVars, cyclesread, reduce, redmax,
                 cycleofmax, output, samples, lapped>>

\* Mutant: the ring is read before the cycle is counted.
PrintValue_Ahead ==
  LET d   == values[cyclesread % BufSize]
      new == d > redmax
      red == IF new THEN d ELSE redmax
      cyc == IF new THEN cyclesread ELSE cycleofmax
      out == reduce + 1 = oscope_reduction
  IN /\ rpc = "print"
     /\ cycles + 1 # cyclesread /\ cyclesread < MaxSamples
     /\ output' = IF out THEN Append(output, <<cyc, red>>) ELSE output
     /\ reduce' = IF out THEN 0 ELSE reduce + 1
     /\ redmax' = IF out THEN 0 ELSE red
     /\ cycleofmax' = cyc
     /\ cyclesread' = cyclesread + 1
     /\ UNCHANGED <<optVars, wpc, diff, writerVars, rpc, samples, lapped>>

\* One turn of "while (cycles != cyclesread)".
PrintValue ==
  LET d   == values[cyclesread % BufSize]
      new == d > redmax
      red == IF new THEN d ELSE redmax
      cyc == IF new THEN cyclesread ELSE cycleofmax
      out == reduce + 1 = oscope_reduction
  IN /\ rpc = "print"
     /\ cycles # cyclesread
     /\ output' = IF out THEN Append(output, <<cyc, red>>) ELSE output
     /\ reduce' = IF out THEN 0 ELSE reduce + 1
     /\ redmax' = IF out THEN 0 ELSE red
     /\ cycleofmax' = cyc
     /\ cyclesread' = cyclesread + 1
     /\ UNCHANGED <<optVars, wpc, diff, writerVars, rpc, samples, lapped>>

StopPrinting ==
  /\ rpc = "print" /\ cycles = cyclesread
  /\ rpc' = "sleep"
  /\ UNCHANGED <<optVars, wpc, diff, writerVars, cyclesread, reduce, redmax,
                 cycleofmax, output, samples, lapped>>

Finished ==
  /\ cycles = MaxSamples /\ cyclesread = MaxSamples /\ rpc = "sleep"
  /\ UNCHANGED vars

Writer == Measure \/ StoreValue \/ UpdateHistogram \/ CountCycle
Reader == StartPrinting \/ PrintValue \/ StopPrinting

Next == Writer \/ Reader \/ Finished

Spec == Init /\ [][Next]_vars

-----------------------------------------------------------------------------
(* Properties *)

Recorded ==
  SubSeq(samples, 1, Len(samples) - (IF wpc \in {"store", "hist"} THEN 1 ELSE 0))

\* Every counted cycle is in exactly one bin or in the overflow count, also while
\* the next one is being stored: each bin counts the cycles with its latency, the
\* overflow count those above all bins, and the outliers are the first cycles that
\* overflowed, in order, and no more of them than their array holds.
HistogramFaithful ==
  /\ Len(outliers) <= histogram
  /\ histogram > 0 =>
       hist_overflow = Quantify(DOMAIN Recorded, LAMBDA n : U(Recorded[n]) >= histogram)
  /\ \A k \in Bins :
       hist_array[k] = Quantify(DOMAIN Recorded, LAMBDA n : Recorded[n] = k)
  /\ \A j \in 1 .. Len(outliers) :
       /\ U(samples[outliers[j] + 1]) >= histogram
       /\ Quantify(1 .. (outliers[j] + 1), LAMBDA n : U(samples[n]) >= histogram) = j

\* min and max are the extremes of what was measured; the smallest of several
\* latencies above a second is lost, because min starts at a second.
Extremes ==
  samples # <<>> =>
    /\ min = Min({samples[n] : n \in DOMAIN samples} \cup {InitialMin})
    /\ max = Max({samples[n] : n \in DOMAIN samples} \cup {0})

\* The window of cycles that output line j stands for.
Window(j) == ((j - 1) * oscope_reduction) .. (j * oscope_reduction - 1)

\* "c=count v=value in us": a line has the largest value of its window, and names
\* a cycle of the window that measured it.  redmax starts at 0 and is replaced by
\* larger values only, so that a line of value 0 carries the count of an older one.
LineFaithful(j) ==
  /\ \A c \in Window(j) : c + 1 \in DOMAIN samples
  /\ output[j][2] = Max({samples[c + 1] : c \in Window(j)})
  /\ output[j][2] > 0 => /\ output[j][1] \in Window(j)
                         /\ output[j][2] = samples[output[j][1] + 1]

\* Unless the thread has overwritten a value main had not read yet, every line is
\* faithful.
OutputFaithful == ~lapped => \A j \in DOMAIN output : LineFaithful(j)
=============================================================================

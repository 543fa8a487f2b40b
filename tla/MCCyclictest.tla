---------------------------- MODULE MCCyclictest ----------------------------
(* Command lines and failures for Cyclictest. *)
EXTENDS Cyclictest

Plain == [max_cycles |-> 0, tracelimit |-> 0, duration |-> FALSE,
          refresh_on_max |-> FALSE, aligned |-> FALSE, verbose |-> FALSE,
          nanosleep |-> TRUE, use_fifo |-> FALSE]

AlignedLoops == [Plain EXCEPT !.max_cycles = 2, !.aligned = TRUE, !.nanosleep = FALSE]
BreakAtLimit == [Plain EXCEPT !.tracelimit = 1, !.duration = TRUE, !.verbose = TRUE]
RefreshLoops == [Plain EXCEPT !.max_cycles = 1, !.refresh_on_max = TRUE, !.verbose = TRUE]

FifoLoops    == [Plain EXCEPT !.max_cycles = 1, !.use_fifo = TRUE]

EveryStyle  == {AlignedLoops, BreakAtLimit, RefreshLoops, FifoLoops}
AllFailures == Fallible
=============================================================================

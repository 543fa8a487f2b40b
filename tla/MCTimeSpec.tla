----------------------------- MODULE MCTimeSpec -----------------------------
(* Time stamps around the boundaries of a microsecond and of a second. *)
EXTENDS TimeSpec

MCSecs      == 0 .. 1
MCNsecs     == {0, 1, 999, 1000, 500000000, 999999999}
MCIntervals == {1, 999, 1000, 500000000, 999999999}
=============================================================================

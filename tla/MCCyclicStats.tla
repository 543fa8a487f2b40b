---------------------------- MODULE MCCyclicStats ----------------------------
(* Model values for CyclicStats. *)
EXTENDS CyclicStats

Microseconds  == {0, 1, 2, 2000000}
NoneOrTwoBins == {0, 2}
AllOrPairs    == {1, 2}
=============================================================================

---------------------------- MODULE MCRtMigrate ----------------------------
(* Values for the constants of RtMigrate. *)
EXTENDS RtMigrate

\* On time; too late and starved; late, but beside its neighbour on a CPU of its own.
MCMeasurements == { [time |-> 0, length |-> 3, loops |-> 2],
                    [time |-> 2, length |-> 5, loops |-> 1],
                    [time |-> 2, length |-> 4, loops |-> 2] }

\* No gap, a gap, and no CPU 0.
MCMasks == { {0, 1}, {0, 2}, {1} }
=============================================================================

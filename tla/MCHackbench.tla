---------------------------- MODULE MCHackbench ----------------------------
(* Values for the constants of Hackbench. *)
EXTENDS Hackbench

\* Two groups of a receiver and a sender each; one group of two receivers and two
\* senders that each write to both.
MCShapes == { <<2, 1>>, <<1, 2>> }
=============================================================================

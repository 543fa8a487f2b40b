----------------------------- MODULE MCPiStress -----------------------------
(***************************************************************************)
(* Model values for PiStress.  watchdog_hits grows without bound in the    *)
(* code while a group is stuck; it is bounded here by WATCHDOG_LIMIT,      *)
(* because the check that reaches the limit ends the reporter.             *)
(***************************************************************************)
EXTENDS PiStress

AllFailures == Fallible
=============================================================================

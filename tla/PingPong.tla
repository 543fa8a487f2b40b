------------------------------ MODULE PingPong ------------------------------
(***************************************************************************)
(* What ptsematest, svsematest, pmqtest and sigwaittest promise: pairs of  *)
(* threads that measure, over and over, the latency between an event that  *)
(* the sender causes and the receiver's reaction to it.  A measurement is  *)
(* worth something only if it belongs to one event: the sender stamps a    *)
(* new event after the last one was measured, and the receiver measures an *)
(* event once.  The promise ends for a pair (open[n] = 0) when main has    *)
(* left its reporting loop: then the threads are torn down and nothing     *)
(* they measure is reported any more.  A program may end it earlier, where *)
(* it rests on an assumption about timing that has failed.                 *)
(***************************************************************************)
EXTENDS Naturals

CONSTANT Pairs

VARIABLES
  sent,   \* sent[n]: events that sender n has stamped
  got,    \* got[n]: latencies that receiver n has measured
  open    \* open[n]: 1 while the promise holds for pair n

vars == <<sent, got, open>>

Init ==
  /\ sent = [n \in Pairs |-> 0]
  /\ got = [n \in Pairs |-> 0]
  /\ open \in [Pairs -> 0..1]

Send(n) ==
  /\ sent[n] = got[n]
  /\ sent' = [sent EXCEPT ![n] = @ + 1]
  /\ UNCHANGED <<got, open>>

Receive(n) ==
  /\ got[n] < sent[n]
  /\ got' = [got EXCEPT ![n] = @ + 1]
  /\ UNCHANGED <<sent, open>>

Close ==
  /\ \E ps \in SUBSET Pairs : open' = [n \in Pairs |-> IF n \in ps THEN 0 ELSE open[n]]
  /\ UNCHANGED <<sent, got>>

\* A pair that is not open any more does whatever it does.
Drain ==
  /\ sent' \in [Pairs -> Nat] /\ got' \in [Pairs -> Nat]
  /\ \A n \in Pairs : open[n] = 1 => sent'[n] = sent[n] /\ got'[n] = got[n]
  /\ UNCHANGED open

Next == (\E n \in Pairs : Send(n) \/ Receive(n)) \/ Close \/ Drain

Spec == Init /\ [][Next]_vars
=============================================================================

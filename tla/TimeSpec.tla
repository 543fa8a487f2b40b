------------------------------ MODULE TimeSpec ------------------------------
(***************************************************************************)
(* The arithmetic on struct timespec that the tests share (cyclictest.c    *)
(* has all four functions; signaltest.c and pi_stress.c have copies):      *)
(* tsnorm, tsgreater, calcdiff in microseconds, calcdiff_ns.  The state is *)
(* three time stamps; the step is the one every measuring loop makes: add  *)
(* an interval to a stamp and normalise it.                                *)
(***************************************************************************)
EXTENDS Integers

CONSTANTS
  Secs,      \* the tv_sec values of the stamps
  Nsecs,     \* the tv_nsec values of the stamps
  Intervals  \* the intervals that are added, in nanoseconds

NSEC_PER_SEC == 1000000000
USEC_PER_SEC == 1000000

Below(limit) == {n \in Nat : n < limit}

ASSUME StampAssumption ==
  /\ Secs \subseteq Nat
  /\ Nsecs \subseteq Below(NSEC_PER_SEC)
  /\ Intervals \subseteq Below(NSEC_PER_SEC)

\* A normalised timespec.
Timespec == [tv_sec : Nat, tv_nsec : Below(NSEC_PER_SEC)]

\* while (tv_nsec >= NSEC_PER_SEC) { tv_nsec -= NSEC_PER_SEC; tv_sec++ }: after an
\* addition of two normalised values the loop runs at most once.
tsnorm(ts) ==
  IF ts.tv_nsec >= NSEC_PER_SEC
  THEN [tv_sec |-> ts.tv_sec + 1, tv_nsec |-> ts.tv_nsec - NSEC_PER_SEC]
  ELSE ts

\* Mutant: the seconds of b are not compared.
tsgreater_AnySecond(a, b) == a.tv_sec > b.tv_sec \/ a.tv_nsec > b.tv_nsec

tsgreater(a, b) ==
  \/ a.tv_sec > b.tv_sec
  \/ a.tv_sec = b.tv_sec /\ a.tv_nsec > b.tv_nsec

\* C's division by a positive number: it truncates toward zero.
CDiv(a, b) == IF a >= 0 THEN a \div b ELSE -((-a) \div b)

calcdiff_ns(t1, t2) ==
  NSEC_PER_SEC * (t1.tv_sec - t2.tv_sec) + (t1.tv_nsec - t2.tv_nsec)

\* Mutant: the difference of the nanoseconds has no sign.
calcdiff_Unsigned(t1, t2) ==
  USEC_PER_SEC * (t1.tv_sec - t2.tv_sec)
    + (IF t1.tv_nsec > t2.tv_nsec THEN t1.tv_nsec - t2.tv_nsec
       ELSE t2.tv_nsec - t1.tv_nsec) \div 1000

\* Mutant: the microseconds are rounded away from zero.
calcdiff_AwayFromZero(t1, t2) ==
  LET d == t1.tv_nsec - t2.tv_nsec
  IN USEC_PER_SEC * (t1.tv_sec - t2.tv_sec) + CDiv(d + (IF d > 0 THEN 999 ELSE -999), 1000)

calcdiff(t1, t2) ==
  USEC_PER_SEC * (t1.tv_sec - t2.tv_sec) + CDiv(t1.tv_nsec - t2.tv_nsec, 1000)

VARIABLES ts_now, ts_next, ts_stop       \* now, next and stop
stampVars == <<ts_now, ts_next, ts_stop>>

Stamps == [tv_sec : Secs, tv_nsec : Nsecs]

StampInit == ts_now \in Stamps /\ ts_next \in Stamps /\ ts_stop \in Stamps

\* next.tv_nsec += interval.tv_nsec; tsnorm(&next).  Bound: a stamp is advanced
\* while it is one of Stamps and up to the last of Secs, so that the stamps stay
\* finitely many.
AddInterval ==
  /\ ts_next \in Stamps
  /\ \E n \in Intervals : ts_next' = tsnorm([tv_sec |-> ts_next.tv_sec, tv_nsec |-> ts_next.tv_nsec + n])
  /\ ts_next'.tv_sec \in Secs
  /\ UNCHANGED <<ts_now, ts_stop>>

StampNext == AddInterval

StampSpec == StampInit /\ [][StampNext]_stampVars

-----------------------------------------------------------------------------
(* Properties *)

\* The stamps stay normalised.
Normalised == {ts_now, ts_next, ts_stop} \subseteq Timespec

\* tsgreater is the sign of calcdiff_ns: the loop that skips missed periods and
\* the latencies agree about which stamp is the later one.
OrderAgrees == tsgreater(ts_now, ts_next) <=> calcdiff_ns(ts_now, ts_next) > 0

\* calcdiff is off by less than a microsecond, on either side of a second.
WithinAMicrosecond ==
  LET usec == calcdiff(ts_now, ts_next) - USEC_PER_SEC * (ts_now.tv_sec - ts_next.tv_sec)
      nsec == ts_now.tv_nsec - ts_next.tv_nsec
  IN -1000 < 1000 * usec - nsec /\ 1000 * usec - nsec < 1000

\* A later now never yields a smaller latency, also when the clock passes a full
\* second between the two: the maximum of a run is not an artefact of rounding.
MonotoneLatency ==
  ~tsgreater(ts_stop, ts_now) => calcdiff(ts_stop, ts_next) <= calcdiff(ts_now, ts_next)
=============================================================================

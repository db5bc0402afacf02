--------------------------- MODULE TickIntervals ---------------------------
(***************************************************************************)
(* Lookups over the processed tick intervals (validator/tick/models.go),   *)
(* used by the RPC server's tick-within-bounds interceptor.                *)
(* GetProcessedTickIntervals lists the epochs in key order, so the code    *)
(* meets the intervals in the order Before.                                *)
(***************************************************************************)
EXTENDS PebbleStore

Positions == UNION {{e} \X DOMAIN processedTickIntervals[e] : e \in Epochs}

Before(p, q) == p[1] < q[1] \/ (p[1] = q[1] /\ p[2] < q[2])

IntervalAt(p) == processedTickIntervals[p[1]][p[2]]

InInterval(t, i) == i.initial <= t /\ t <= i.last

\* Mutant: the tick before an interval counts as part of it.
WasSkippedByArchiveOffByOne(t) ==
  \E p \in Positions :
    /\ t < IntervalAt(p).initial - 1
    /\ \A q \in Positions : Before(q, p) => ~InInterval(t, IntervalAt(q))

\* The walk stops at the first interval that contains t or starts after it.
WasSkippedByArchive(t) ==
  \E p \in Positions :
    /\ t < IntervalAt(p).initial
    /\ \A q \in Positions : Before(q, p) => ~InInterval(t, IntervalAt(q))

\* The request passes the interceptor.
TickWithinArchiverIntervals(t) ==
  /\ lastProcessedTick.tickNumber # 0
  /\ t <= lastProcessedTick.tickNumber
  /\ ~WasSkippedByArchive(t)
=============================================================================

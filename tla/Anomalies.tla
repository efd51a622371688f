----------------------------- MODULE Anomalies ------------------------------
(***************************************************************************)
(* The last stage, which owns anomalies: at every minute that event time   *)
(* has crossed since the last flush it runs the detectors on the rollups   *)
(* as the transaction sees them and inserts the findings that no earlier   *)
(* row of the same kind and subject covers.  The cursor, the high-water    *)
(* mark and the list of what to announce are only in memory.  The table is *)
(* the set of its rows, whose ids are left out.                            *)
(***************************************************************************)
EXTENDS Detectors

CONSTANT DedupWindow  \* how far back a row of the same kind and subject counts (15m)

ASSUME AnomaliesAssumption == DedupWindow \in Nat

AnomaliesEmpty == [cursor |-> ZeroTime, hwm |-> ZeroTime, emitted |-> {}]

AnomaliesApply(m, e) == [m EXCEPT !.hwm = Later(@, e.ts)]

(* The minutes this flush runs; none at the first one, which only anchors. *)
Minutes(m) ==
    IF m.hwm = ZeroTime \/ m.cursor = ZeroTime THEN {}
    ELSE {t \in (m.cursor + 1)..BucketOf(m.hwm) : BucketOf(t) = t}

(* The insert's NOT EXISTS: rows of the minute itself do not count. *)
Covered(rows, f, t) ==
    \E r \in rows : /\ r.kind = f.kind /\ r.subject = f.subject
                    /\ t - DedupWindow <= r.ts /\ r.ts < t

RowAt(f, t) == [ts |-> t, kind |-> f.kind, subject |-> f.subject,
                obs |-> f.obs, src |-> f.src]

(* The rows that minute t adds to a table that holds these. *)
RaisedAt(rows, rollup, neighbors, t) ==
    {RowAt(f, t) : f \in {x \in FindingsAt(rollup, neighbors, t) : ~Covered(rows, x, t)}}

(* These minutes run in order: the rows there are then, and those inserted. *)
RunMinutes(rows, rollup, neighbors, minutes) ==
    MapThenFoldSet(
        LAMBDA t, acc : LET new == RaisedAt(acc.rows, rollup, neighbors, t)
                        IN  [rows |-> acc.rows \cup new, raised |-> acc.raised \cup new],
        [rows |-> rows, raised |-> {}],
        LAMBDA t : t, LAMBDA left : Max(left), minutes)

AnomaliesFlushTable(m, rows, rollup, neighbors) ==
    RunMinutes(rows, rollup, neighbors, Minutes(m)).rows

(* Mutant of AnomaliesFlushMem: findings that were suppressed are announced. *)
AnomaliesFlushAll(m, rows, rollup, neighbors) ==
    IF m.hwm = ZeroTime THEN m
    ELSE [m EXCEPT !.cursor = BucketOf(m.hwm),
                   !.emitted = @ \cup UNION {RaisedAt({}, rollup, neighbors, t) :
                                                t \in Minutes(m)}]

(* The rows that were inserted are put on the list to announce. *)
AnomaliesFlushMem(m, rows, rollup, neighbors) ==
    IF m.hwm = ZeroTime THEN m
    ELSE [m EXCEPT !.cursor = BucketOf(m.hwm),
                   !.emitted = @ \cup RunMinutes(rows, rollup, neighbors, Minutes(m)).raised]

(* The flush breaks off in some minute: the list has the rows inserted till  *)
(* then, the cursor has not moved.                                           *)
AnomaliesInterrupted(m, rows, rollup, neighbors) ==
    UNION {LET before == RunMinutes(rows, rollup, neighbors, {u \in Minutes(m) : u < t})
           IN  {[m EXCEPT !.emitted = @ \cup before.raised \cup some] :
                   some \in SUBSET RaisedAt(before.rows, rollup, neighbors, t)} :
           t \in Minutes(m)}

(* Notify announces the list and empties it; Evict does nothing. *)
AnomaliesNotify(m) == [m EXCEPT !.emitted = {}]
AnomaliesEvict(m) == m
=============================================================================

------------------------------ MODULE Buckets -------------------------------
(***************************************************************************)
(* Time buckets and stored averages, common to the rollup stages.          *)
(***************************************************************************)
EXTENDS Events

CONSTANT BucketDur  \* bucket width (1m, or 1h for rollup_observer_1h)

ASSUME BucketAssumption == BucketDur \in Nat \ {0}

BucketOf(ts) == (ts \div BucketDur) * BucketDur

(* Integer division that truncates, and one that rounds half away from zero. *)
Truncated(a, b) == IF a >= 0 THEN a \div b ELSE -((-a) \div b)
Rounded(a, b) == IF a >= 0 THEN (2 * a + b) \div (2 * b) ELSE -((b - 2 * a) \div (2 * b))

(* avg_rssi is numeric(6,2): an average in hundredths. *)
StoredAvg(sum, n) == IF n = 0 THEN None ELSE Rounded(100 * sum, n)

(* The sum that a reload makes of a stored average over that many packets. *)
SumOf(avg, packets) == Truncated(avg * packets, 100)
=============================================================================

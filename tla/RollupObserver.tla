--------------------------- MODULE RollupObserver ---------------------------
(***************************************************************************)
(* The stage behind rollup_observer_1m and rollup_observer_1h: counters    *)
(* per (observer, time bucket).  Rows are overwritten by the accumulator,  *)
(* which a restart or an eviction loses and Flush then rebuilds from the   *)
(* row itself.  direct_pkts follows flood_pkts and avg_snr follows         *)
(* avg_rssi; they are left out.                                            *)
(***************************************************************************)
EXTENDS Buckets

CONSTANT RollupRetention  \* how long a bucket stays in memory after its end

ASSUME RollupAssumption == RollupRetention \in Nat

KeyOf(e) == <<e.obs, BucketOf(e.ts)>>

FreshBucket ==
    [packets |-> 0, hashes |-> {}, flood |-> 0, sum |-> 0, n |-> 0,
     min |-> None, max |-> None, floor |-> None, floorTS |-> ZeroTime,
     loaded |-> FALSE, dirty |-> FALSE]

Bucket(m, k) == IF k \in DOMAIN m THEN m[k] ELSE FreshBucket

ApplyPacket(m, e) ==
    LET acc == Bucket(m, KeyOf(e))
        heard == e.rssi # None
    IN  Put(m, KeyOf(e),
            [acc EXCEPT !.packets = @ + 1,
                        !.hashes = IF Hashed(e) THEN @ \cup {e.hash} ELSE @,
                        !.flood = IF e.flood THEN @ + 1 ELSE @,
                        !.sum = IF heard THEN @ + e.rssi ELSE @,
                        !.n = IF heard THEN @ + 1 ELSE @,
                        !.min = OptMin(@, e.rssi),
                        !.max = OptMax(@, e.rssi),
                        !.dirty = TRUE])

(* Touching the bucket creates it even if the floor is not taken over. *)
ApplyStatus(m, e) ==
    LET acc == Bucket(m, KeyOf(e))
    IN  Put(m, KeyOf(e),
            IF e.ts > acc.floorTS
            THEN [acc EXCEPT !.floor = e.floor, !.floorTS = e.ts, !.dirty = TRUE]
            ELSE acc)

(* Mutant of RollupApply: a status without a noise floor is taken as well. *)
RollupApplyAny(m, e) ==
    CASE e.kind = "packet" -> ApplyPacket(m, e)
      [] e.kind = "status" -> ApplyStatus(m, e)
      [] OTHER -> m

RollupApply(m, e) ==
    CASE e.kind = "packet" -> ApplyPacket(m, e)
      [] e.kind = "status" /\ e.floor # None -> ApplyStatus(m, e)
      [] OTHER -> m

-----------------------------------------------------------------------------
(* Mutant of WithRow: the row's counters are not added. *)
WithRowBounds(acc, row) ==
    [acc EXCEPT !.min = OptMin(@, row.min), !.max = OptMax(@, row.max),
                !.floor = Coalesce(@, row.floor)]

(* Mutant of WithRow: the sum is rebuilt, the number of packets in it is not. *)
WithRowSumOnly(acc, row) ==
    LET weighed == row.avg # None /\ row.packets > 0
    IN  [acc EXCEPT
            !.packets = @ + row.packets,
            !.flood = @ + row.flood,
            !.sum = IF weighed THEN @ + SumOf(row.avg, row.packets) ELSE @,
            !.n = IF weighed THEN @ + 1 ELSE @,
            !.min = OptMin(@, row.min),
            !.max = OptMax(@, row.max),
            !.floor = Coalesce(@, row.floor)]

(* loadRowTotals: the row's totals are added to a bucket that was not loaded. *)
WithRow(acc, row) ==
    LET weighed == row.avg # None /\ row.packets > 0
    IN  [acc EXCEPT
            !.packets = @ + row.packets,
            !.flood = @ + row.flood,
            !.sum = IF weighed THEN @ + SumOf(row.avg, row.packets) ELSE @,
            !.n = IF weighed THEN @ + row.packets ELSE @,
            !.min = OptMin(@, row.min),
            !.max = OptMax(@, row.max),
            !.floor = Coalesce(@, row.floor)]

(* Mutant of HashesIn: the interval of the bucket is not looked at. *)
HashesOfObserver(observations, k) ==
    {row.hash : row \in {o \in RowsOf(observations) : o.hash # None /\ o.obs = k[1]}}

(* loadHistoricalHashes: the hashes of the bucket's committed observations,  *)
(* a blank one among them: it is not NULL.                                   *)
HashesIn(observations, k) ==
    {row.hash : row \in {o \in RowsOf(observations) : o.hash # None /\ KeyOf(o) = k}}

RollupPending(m) == {k \in DOMAIN m : m[k].dirty /\ ~m[k].loaded}

(* The memory once these buckets' totals, then those buckets' hashes, were read. *)
RollupRead(m, rollup, observations, totals, hashed) ==
    [k \in DOMAIN m |->
        LET acc == IF k \in totals \cap DOMAIN rollup
                   THEN WithRow(m[k], rollup[k]) ELSE m[k]
        IN  IF k \notin hashed THEN acc
            ELSE [acc EXCEPT !.hashes = @ \cup HashesIn(observations, k)]]

(* Mutant of RollupRehydrate: a bucket that is in memory is loaded again. *)
RollupReload(m, rollup, observations) ==
    LET dirty == {k \in DOMAIN m : m[k].dirty}
        read == RollupRead(m, rollup, observations, dirty, dirty)
    IN  [k \in DOMAIN m |->
            IF k \in dirty THEN [read[k] EXCEPT !.loaded = TRUE] ELSE m[k]]

RollupRehydrate(m, rollup, observations) ==
    LET pending == RollupPending(m)
        read == RollupRead(m, rollup, observations, pending, pending)
    IN  [k \in DOMAIN m |->
            IF k \in pending THEN [read[k] EXCEPT !.loaded = TRUE] ELSE m[k]]

(* What memory may be when one of the two queries breaks off: what was read *)
(* is added, but no bucket is marked as loaded.                             *)
RollupInterrupted(m, rollup, observations) ==
    LET pending == RollupPending(m)
    IN  {RollupRead(m, rollup, observations, totals, {}) : totals \in SUBSET pending}
          \cup
        {RollupRead(m, rollup, observations, pending, hashed) : hashed \in SUBSET pending}

RollupUpsert(rollup, k, acc) ==
    [packets |-> acc.packets, unique |-> Cardinality(acc.hashes), flood |-> acc.flood,
     avg |-> StoredAvg(acc.sum, acc.n), min |-> acc.min, max |-> acc.max,
     floor |-> IF k \in DOMAIN rollup THEN Coalesce(acc.floor, rollup[k].floor)
                                      ELSE acc.floor]

RollupDirty(m) == {k \in DOMAIN m : m[k].dirty}

RollupFlushMem(m, rollup, observations, written) ==
    LET loaded == RollupRehydrate(m, rollup, observations)
    IN  [k \in DOMAIN m |->
            IF k \in written THEN [loaded[k] EXCEPT !.dirty = FALSE] ELSE loaded[k]]

RollupFlushTable(m, rollup, observations) ==
    LET loaded == RollupRehydrate(m, rollup, observations)
    IN  [k \in DOMAIN rollup \cup RollupDirty(m) |->
            IF k \in RollupDirty(m) THEN RollupUpsert(rollup, k, loaded[k])
                                    ELSE rollup[k]]

RollupEvict(m, hwm) ==
    LET Keep(k) == m[k].dirty \/ k[2] + BucketDur >= hwm - RollupRetention
        kept == Keeping(m, Keep)
    IN  [k \in DOMAIN kept |-> [kept[k] EXCEPT !.dirty = FALSE]]
=============================================================================

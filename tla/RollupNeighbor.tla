--------------------------- MODULE RollupNeighbor ---------------------------
(***************************************************************************)
(* The stage behind rollup_neighbor_1m: per (observer, source, minute) the *)
(* packets heard from that source and their RSSI.  The row is overwritten  *)
(* by the accumulator, which is rebuilt from the row after a restart or an *)
(* eviction.  avg_snr follows avg_rssi and is left out.                    *)
(***************************************************************************)
EXTENDS Buckets

CONSTANT NeighborRetention  \* how long a bucket stays in memory (1h)

ASSUME NeighborAssumption == NeighborRetention \in Nat

NeighborKey(e) == <<e.obs, e.src, BucketOf(e.ts)>>

FreshNeighbor ==
    [packets |-> 0, sum |-> 0, n |-> 0, min |-> None, max |-> None,
     loaded |-> FALSE, dirty |-> FALSE]

NeighborApply(m, e) ==
    IF ~IsPacket(e) \/ e.src = None THEN m
    ELSE LET k == NeighborKey(e)
             acc == IF k \in DOMAIN m THEN m[k] ELSE FreshNeighbor
             heard == e.rssi # None
         IN  Put(m, k, [acc EXCEPT !.packets = @ + 1,
                                   !.sum = IF heard THEN @ + e.rssi ELSE @,
                                   !.n = IF heard THEN @ + 1 ELSE @,
                                   !.min = OptMin(@, e.rssi),
                                   !.max = OptMax(@, e.rssi),
                                   !.dirty = TRUE])

WithNeighborRow(acc, row) ==
    LET weighed == row.avg # None /\ row.packets > 0
    IN  [acc EXCEPT
            !.packets = @ + row.packets,
            !.sum = IF weighed THEN @ + SumOf(row.avg, row.packets) ELSE @,
            !.n = IF weighed THEN @ + row.packets ELSE @,
            !.min = OptMin(@, row.min),
            !.max = OptMax(@, row.max)]

NeighborPending(m) == {k \in DOMAIN m : m[k].dirty /\ ~m[k].loaded}

(* The memory once the rows of these keys were read. *)
NeighborRead(m, neighbors, keys) ==
    [k \in DOMAIN m |->
        IF k \in keys \cap DOMAIN neighbors THEN WithNeighborRow(m[k], neighbors[k])
                                            ELSE m[k]]

NeighborRehydrate(m, neighbors) ==
    LET pending == NeighborPending(m)
        read == NeighborRead(m, neighbors, pending)
    IN  [k \in DOMAIN m |->
            IF k \in pending THEN [read[k] EXCEPT !.loaded = TRUE] ELSE m[k]]

(* What memory may be when the query breaks off. *)
NeighborInterrupted(m, neighbors) ==
    {NeighborRead(m, neighbors, keys) : keys \in SUBSET NeighborPending(m)}

NeighborRow(acc) ==
    [packets |-> acc.packets, avg |-> StoredAvg(acc.sum, acc.n),
     min |-> acc.min, max |-> acc.max]

NeighborDirty(m) == {k \in DOMAIN m : m[k].dirty}

NeighborFlushMem(m, neighbors, written) ==
    LET loaded == NeighborRehydrate(m, neighbors)
    IN  [k \in DOMAIN m |->
            IF k \in written THEN [loaded[k] EXCEPT !.dirty = FALSE] ELSE loaded[k]]

NeighborFlushTable(m, neighbors) ==
    LET loaded == NeighborRehydrate(m, neighbors)
    IN  [k \in DOMAIN neighbors \cup NeighborDirty(m) |->
            IF k \in NeighborDirty(m) THEN NeighborRow(loaded[k]) ELSE neighbors[k]]

(* Mutant of NeighborEvict: what the batch did not touch is kept, but marked *)
(* as not loaded.                                                            *)
NeighborUnload(m, hwm) ==
    [k \in DOMAIN m |-> [m[k] EXCEPT !.dirty = FALSE, !.loaded = FALSE]]

NeighborEvict(m, hwm) ==
    LET Keep(k) == m[k].dirty \/ k[3] + BucketDur >= hwm - NeighborRetention
        kept == Keeping(m, Keep)
    IN  [k \in DOMAIN kept |-> [kept[k] EXCEPT !.dirty = FALSE]]
=============================================================================

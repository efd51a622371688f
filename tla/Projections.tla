---------------------------- MODULE Projections -----------------------------
(***************************************************************************)
(* What the derived tables promise as functions of the log: each row is    *)
(* compared with a definition over the projected prefix of the log that    *)
(* knows nothing of batches, memory, eviction, rehydration or restarts.    *)
(***************************************************************************)
EXTENDS Pipeline

Projected == 1..dbCursor

(* Positions of the projected packets that satisfy P. *)
PacketsWith(P(_)) == {i \in Projected : IsPacket(log[i]) /\ P(log[i])}

Observations == tables["packet_observations"]

-----------------------------------------------------------------------------
(* packet_observations holds one row per packet logged, in log order: the   *)
(* n-th row is that of the n-th packet and there are no others, whatever    *)
(* batches, crashes and undecodable events came in between.                 *)
ObservationsExact ==
    LET packets == PacketsWith(LAMBDA e : TRUE)
    IN  /\ Len(Observations) = Cardinality(packets)
        /\ \A i \in packets : Observations[Cardinality({j \in packets : j <= i})] = log[i]

(* Rows may repeat after a failed batch, but none is ever missing: each     *)
(* observation has at least as many rows as projected events.               *)
ObservationsComplete ==
    \A e \in EventSet :
        Cardinality({i \in Projected : IsPacket(log[i]) /\ log[i] = e})
            <= Cardinality({i \in DOMAIN Observations : Observations[i] = e})

(* The browser is never told of more rows than the table has. *)
AnnouncedAreCommitted == told <= Len(Observations)

-----------------------------------------------------------------------------
Unique == tables["packets_unique"]

Sightings(h) == PacketsWith(LAMBDA e : e.hash = h)
ProjectedHashes == {log[i].hash : i \in PacketsWith(Hashed)}

(* observer_count is the number of distinct observers of the hash so far,   *)
(* regardless of how packets were batched, evicted, replayed after a failed *)
(* batch or split by a restart.                                             *)
ObserverCountExact ==
    /\ DOMAIN Unique = ProjectedHashes
    /\ \A h \in ProjectedHashes :
          Unique[h].observers = Cardinality({log[i].obs : i \in Sightings(h)})

(* first_seen and last_seen bound the sightings even when events arrive out *)
(* of time order, after the hash was evicted, or again after a failure.     *)
SeenBoundsExact ==
    \A h \in ProjectedHashes \cap DOMAIN Unique :
        /\ Unique[h].first = Min({log[i].ts : i \in Sightings(h)})
        /\ Unique[h].last = Max({log[i].ts : i \in Sightings(h)})

(* packet_type and its like carry the value logged last, source_prefix the  *)
(* one logged first, as if the log had been projected in one go.            *)
FieldsExact ==
    \A h \in ProjectedHashes \cap DOMAIN Unique :
        LET typed == {i \in Sightings(h) : log[i].type # None}
            sourced == {i \in Sightings(h) : log[i].src # None}
        IN  /\ Unique[h].type = IF typed = {} THEN None ELSE log[Max(typed)].type
            /\ Unique[h].src = IF sourced = {} THEN None ELSE log[Min(sourced)].src

-----------------------------------------------------------------------------
Rollup == tables["rollup_observer"]

InBucket(k) == PacketsWith(LAMBDA e : KeyOf(e) = k)
PacketBuckets == {KeyOf(log[i]) : i \in PacketsWith(LAMBDA e : TRUE)}
Rssis(k) == {log[i].rssi : i \in {j \in InBucket(k) : log[j].rssi # None}}

(* packets and flood_pkts count each projected packet of the bucket once,   *)
(* through restarts, evictions and stragglers.                              *)
RollupCountsExact ==
    \A k \in PacketBuckets :
        /\ k \in DOMAIN Rollup
        /\ Rollup[k].packets = Cardinality(InBucket(k))
        /\ Rollup[k].flood = Cardinality({i \in InBucket(k) : log[i].flood})

(* The counters never fall short, even after failed batches. *)
RollupCountsEnough ==
    \A k \in PacketBuckets :
        /\ k \in DOMAIN Rollup
        /\ Rollup[k].packets >= Cardinality(InBucket(k))
        /\ Rollup[k].flood >= Cardinality({i \in InBucket(k) : log[i].flood})

(* unique_pkts, min_rssi and max_rssi are exact even when a batch fails and *)
(* is applied to the same memory again: they come from sets and bounds.     *)
(* Blank hashes may count as one, since a reload reads them back.           *)
RollupSetsExact ==
    \A k \in PacketBuckets \cap DOMAIN Rollup :
        LET hashes == {log[i].hash : i \in InBucket(k)} \ {None}
        IN  /\ Cardinality(hashes \ {Blank}) <= Rollup[k].unique
            /\ Rollup[k].unique <= Cardinality(hashes)
            /\ Rollup[k].min = IF Rssis(k) = {} THEN None ELSE Min(Rssis(k))
            /\ Rollup[k].max = IF Rssis(k) = {} THEN None ELSE Max(Rssis(k))

(* avg_rssi lies between the bucket's smallest and largest RSSI: the sum    *)
(* that a reload makes of a rounded average, truncated and weighed with     *)
(* packets that carry no RSSI, never takes the average out of these bounds. *)
AvgWithinBounds ==
    \A k \in PacketBuckets \cap DOMAIN Rollup :
        Rssis(k) # {} => /\ Rollup[k].avg # None
                         /\ 100 * Min(Rssis(k)) <= Rollup[k].avg
                         /\ Rollup[k].avg <= 100 * Max(Rssis(k))

(* noise_floor is that of a status of the bucket as soon as one was logged: *)
(* neither a status without one nor a restart or eviction loses it.         *)
FloorFromBucket ==
    LET with == {i \in Projected : log[i].kind = "status" /\ log[i].floor # None}
        of(k) == {log[i].floor : i \in {j \in with : KeyOf(log[j]) = k}}
    IN  \A k \in {KeyOf(log[i]) : i \in with} :
            k \in DOMAIN Rollup /\ Rollup[k].floor \in of(k)

-----------------------------------------------------------------------------
Neighbors == tables["rollup_neighbor"]

(* A neighbor's packets are counted once and its RSSI bounds are those of   *)
(* the bucket's packets, through restarts, evictions and stragglers.        *)
NeighborsExact ==
    LET from(k) == PacketsWith(LAMBDA e : e.src # None /\ NeighborKey(e) = k)
        rssis(k) == {log[i].rssi : i \in {j \in from(k) : log[j].rssi # None}}
        keys == {NeighborKey(log[i]) : i \in PacketsWith(LAMBDA e : e.src # None)}
    IN  /\ DOMAIN Neighbors = keys
        /\ \A k \in keys :
              /\ Neighbors[k].packets = Cardinality(from(k))
              /\ Neighbors[k].min = IF rssis(k) = {} THEN None ELSE Min(rssis(k))
              /\ Neighbors[k].max = IF rssis(k) = {} THEN None ELSE Max(rssis(k))

-----------------------------------------------------------------------------
StatusesWith(P(_)) == {i \in Projected : log[i].kind = "status" /\ P(log[i])}

(* An observer has a row as soon as one status of it is logged; its fields  *)
(* carry the value logged last that is not empty, first_seen and last_seen  *)
(* bound its statuses, whatever the order of their times and however often  *)
(* a batch was applied.                                                     *)
ObserversExact ==
    LET rows == tables["observers"]
        of(o) == StatusesWith(LAMBDA e : e.obs = o)
        named(o) == StatusesWith(LAMBDA e : e.obs = o /\ e.origin # None)
        seen == {log[i].obs : i \in StatusesWith(LAMBDA e : TRUE)}
    IN  /\ DOMAIN rows = seen
        /\ \A o \in seen :
              /\ rows[o].first = Min({log[i].ts : i \in of(o)})
              /\ rows[o].last = Max({log[i].ts : i \in of(o)})
              /\ rows[o].origin = IF named(o) = {} THEN None
                                  ELSE log[Max(named(o))].origin

(* observer_status has one row per observer and time, and it is the status  *)
(* that was logged first, in one batch, over several, or applied again.     *)
StatusFirstWins ==
    LET rows == tables["observer_status"]
        at(k) == StatusesWith(LAMBDA e : StatusKey(e) = k)
        keys == {StatusKey(log[i]) : i \in StatusesWith(LAMBDA e : TRUE)}
    IN  /\ DOMAIN rows = keys
        /\ \A k \in keys : rows[k] = log[Min(at(k))].floor

(* The foreign key from observer_status to observers never refuses a row:   *)
(* by the time a status is inserted the stage before it has written its     *)
(* observer, so that no batch is stuck on it for good.                      *)
StatusAccepted ==
    (ppc = "flush" /\ turn <= Len(Stages)) => Accepts(Stages[turn], mem[Stages[turn]])

-----------------------------------------------------------------------------
NodeRows == tables["nodes"]

Adverts == PacketsWith(LAMBDA e : e.advert # None)
AdvertsOf(key) == {i \in Adverts : log[i].advert.key = key}
NodeKeys == {log[i].advert.key : i \in Adverts}

(* advert_count is the number of adverts logged, first_seen and last_seen   *)
(* bound their reception.                                                   *)
AdvertsCounted ==
    /\ DOMAIN NodeRows = NodeKeys
    /\ \A key \in NodeKeys :
          /\ NodeRows[key].count = Cardinality(AdvertsOf(key))
          /\ NodeRows[key].first = Min({log[i].ts : i \in AdvertsOf(key)})
          /\ NodeRows[key].last = Max({log[i].ts : i \in AdvertsOf(key)})

(* A node is described by the advert with the latest time of its own, by    *)
(* the first one logged if several carry it, and advert_received_at is the  *)
(* earliest reception of such an advert: stragglers, batches and retries    *)
(* make no difference.                                                      *)
FreshestAdvertWins ==
    \A key \in NodeKeys \cap DOMAIN NodeRows :
        LET latest == Max({log[i].advert.at : i \in AdvertsOf(key)})
            carriers == {i \in AdvertsOf(key) : log[i].advert.at = latest}
        IN  /\ NodeRows[key].at = latest
            /\ NodeRows[key].name = log[Min(carriers)].advert.name
            /\ NodeRows[key].received = Min({log[i].ts : i \in carriers})

-----------------------------------------------------------------------------
(* The loop consumes the log from the front and leaves nothing out. *)
Abstract == INSTANCE LogConsumer WITH
    Ids <- 1..MaxLog,
    committed <- 1..Len(log),
    consumed <- Projected

ConsumesLog == Abstract!Spec
=============================================================================

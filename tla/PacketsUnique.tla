--------------------------- MODULE PacketsUnique ----------------------------
(***************************************************************************)
(* The stage that owns packets_unique: per packet hash it accumulates the  *)
(* set of observers and the bounds of the sightings, writes rows for the   *)
(* hashes touched by the batch, and forgets a hash some time after its     *)
(* last sighting.  A hash met again after that, or after a restart, is     *)
(* rehydrated from the tables inside Flush.                                *)
(***************************************************************************)
EXTENDS Events

CONSTANT UniqueRetention  \* how long a hash stays in memory (1h in the code)

ASSUME UniqueAssumption == UniqueRetention \in Nat

FreshHash(e) ==
    [first |-> e.ts, last |-> e.ts, type |-> None, src |-> None,
     observers |-> {}, loaded |-> FALSE, dirty |-> FALSE]

UniqueApply(m, e) ==
    IF ~IsPacket(e) \/ ~Hashed(e) THEN m
    ELSE LET st == IF e.hash \in DOMAIN m THEN m[e.hash] ELSE FreshHash(e)
         IN  Put(m, e.hash,
                 [first |-> Earlier(st.first, e.ts),
                  last |-> Later(st.last, e.ts),
                  type |-> Coalesce(e.type, st.type),
                  src |-> Coalesce(st.src, e.src),
                  observers |-> st.observers \cup {e.obs},
                  loaded |-> st.loaded,
                  dirty |-> TRUE])

(* Mutant of HistoryOf: the observers seen before a restart are not read back. *)
NoHistoryOf(hashes, unique, observations) == {}

(* The join of packet_observations with packets_unique for these hashes, as *)
(* the transaction sees it before this batch's observations are written.    *)
HistoryOf(hashes, unique, observations) ==
    {row \in RowsOf(observations) : row.hash \in hashes \cap DOMAIN unique}

UniquePending(m) == {h \in DOMAIN m : m[h].dirty /\ ~m[h].loaded}

(* The memory once these rows of the join were read. *)
UniqueRead(m, unique, rows) ==
    [h \in DOMAIN m |->
        LET seen == {row \in rows : row.hash = h}
        IN  IF seen = {} THEN m[h]
            ELSE [[m[h] EXCEPT !.observers = @ \cup {row.obs : row \in seen}]
                       EXCEPT !.first = Earlier(@, unique[h].first)]]

UniqueRehydrate(m, unique, observations) ==
    LET pending == UniquePending(m)
        read == UniqueRead(m, unique, HistoryOf(pending, unique, observations))
    IN  [h \in DOMAIN m |->
            IF h \in pending THEN [read[h] EXCEPT !.loaded = TRUE] ELSE m[h]]

(* What memory may be when the query breaks off: rows were read, no hash is *)
(* marked as loaded.                                                        *)
UniqueInterrupted(m, unique, observations) ==
    {UniqueRead(m, unique, rows) :
        rows \in SUBSET HistoryOf(UniquePending(m), unique, observations)}

(* Mutant of UniqueUpsert: last_seen is overwritten instead of maximised. *)
UpsertLastWins(unique, h, st) ==
    LET new == [first |-> st.first, last |-> st.last, type |-> st.type,
                src |-> st.src, observers |-> Cardinality(st.observers)]
    IN  IF h \notin DOMAIN unique THEN new
        ELSE [new EXCEPT !.first = Earlier(unique[h].first, @),
                         !.type = Coalesce(@, unique[h].type),
                         !.src = Coalesce(unique[h].src, @)]

(* Mutant of UniqueUpsert: a later source prefix replaces the first one. *)
UpsertLastSource(unique, h, st) ==
    LET new == [first |-> st.first, last |-> st.last, type |-> st.type,
                src |-> st.src, observers |-> Cardinality(st.observers)]
    IN  IF h \notin DOMAIN unique THEN new
        ELSE [new EXCEPT !.first = Earlier(unique[h].first, @),
                         !.last = Later(unique[h].last, @),
                         !.type = Coalesce(@, unique[h].type),
                         !.src = Coalesce(@, unique[h].src)]

(* INSERT ... ON CONFLICT (packet_hash) DO UPDATE. *)
UniqueUpsert(unique, h, st) ==
    LET new == [first |-> st.first, last |-> st.last, type |-> st.type,
                src |-> st.src, observers |-> Cardinality(st.observers)]
    IN  IF h \notin DOMAIN unique THEN new
        ELSE LET old == unique[h]
             IN  [first |-> Earlier(old.first, new.first),
                  last |-> Later(old.last, new.last),
                  type |-> Coalesce(new.type, old.type),
                  src |-> Coalesce(old.src, new.src),
                  observers |-> new.observers]

UniqueDirty(m) == {h \in DOMAIN m : m[h].dirty}

(* The memory after rehydration once the hashes in `written` were upserted. *)
UniqueFlushMem(m, unique, observations, written) ==
    LET loaded == UniqueRehydrate(m, unique, observations)
    IN  [h \in DOMAIN m |->
            IF h \in written THEN [loaded[h] EXCEPT !.dirty = FALSE] ELSE loaded[h]]

UniqueFlushTable(m, unique, observations) ==
    LET loaded == UniqueRehydrate(m, unique, observations)
    IN  [h \in DOMAIN unique \cup UniqueDirty(m) |->
            IF h \in UniqueDirty(m) THEN UniqueUpsert(unique, h, loaded[h])
                                    ELSE unique[h]]

UniqueEvict(m, hwm) ==
    LET Keep(h) == m[h].dirty \/ m[h].last >= hwm - UniqueRetention
        kept == Keeping(m, Keep)
    IN  [h \in DOMAIN kept |-> [kept[h] EXCEPT !.dirty = FALSE]]
=============================================================================

------------------------------- MODULE Nodes --------------------------------
(***************************************************************************)
(* The stage that owns nodes: one row per public key seen in an ADVERT.    *)
(* The description follows the advert with the latest time of its own, no  *)
(* matter when it was received; the name stands for all of it.  Memory     *)
(* holds the batch's share only, which the upsert merges into the row.     *)
(***************************************************************************)
EXTENDS Events

FreshNode(e) ==
    [first |-> e.ts, last |-> e.ts, count |-> 0,
     at |-> ZeroTime, received |-> ZeroTime, name |-> None]

(* An advert heard again moves only its reception time; a later one replaces *)
(* the description; an older one counts.                                     *)
Heard(row, e) ==
    LET newer == e.advert.at > row.at
    IN  [first |-> Earlier(row.first, e.ts),
         last |-> Later(row.last, e.ts),
         count |-> row.count + 1,
         at |-> Later(row.at, e.advert.at),
         received |-> CASE newer -> e.ts
                        [] e.advert.at = row.at -> Earlier(row.received, e.ts)
                        [] OTHER -> row.received,
         name |-> IF newer THEN e.advert.name ELSE row.name]

NodesApply(m, e) ==
    IF ~IsPacket(e) \/ e.advert = None THEN m
    ELSE LET key == e.advert.key
             row == IF key \in DOMAIN m THEN m[key] ELSE FreshNode(e)
         IN  Put(m, key, Heard(row, e))

(* Mutant of NodesUpsert: an advert as old as the stored one replaces it. *)
UpsertNotOlder(old, row) ==
    LET newer == row.at >= old.at
    IN  [first |-> Earlier(old.first, row.first),
         last |-> Later(old.last, row.last),
         count |-> old.count + row.count,
         at |-> Later(old.at, row.at),
         received |-> IF newer THEN row.received ELSE old.received,
         name |-> IF newer THEN row.name ELSE old.name]

(* Mutant of NodesUpsert: the count is overwritten. *)
UpsertCount(old, row) ==
    LET newer == row.at > old.at
    IN  [first |-> Earlier(old.first, row.first),
         last |-> Later(old.last, row.last),
         count |-> row.count,
         at |-> Later(old.at, row.at),
         received |-> CASE newer -> row.received
                        [] row.at = old.at -> Earlier(old.received, row.received)
                        [] OTHER -> old.received,
         name |-> IF newer THEN row.name ELSE old.name]

(* ON CONFLICT (public_key) DO UPDATE. *)
NodesUpsert(old, row) ==
    LET newer == row.at > old.at
    IN  [first |-> Earlier(old.first, row.first),
         last |-> Later(old.last, row.last),
         count |-> old.count + row.count,
         at |-> Later(old.at, row.at),
         received |-> CASE newer -> row.received
                        [] row.at = old.at -> Earlier(old.received, row.received)
                        [] OTHER -> old.received,
         name |-> IF newer THEN row.name ELSE old.name]

NodesFlushTable(m, nodes) ==
    [key \in DOMAIN nodes \cup DOMAIN m |->
        CASE key \notin DOMAIN m -> nodes[key]
          [] key \notin DOMAIN nodes -> m[key]
          [] OTHER -> NodesUpsert(nodes[key], m[key])]

(* Flush leaves memory alone, Evict empties it. *)
NodesFlushMem(m) == m
NodesEvict(m) == EmptyMap
=============================================================================

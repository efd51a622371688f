----------------------------- MODULE Observers ------------------------------
(***************************************************************************)
(* The stage that owns observers: one row per observer that sent a status. *)
(* Memory holds the batch's share, which the upsert merges into the row.   *)
(***************************************************************************)
EXTENDS Events

(* Mutant of ObserversApply: a status that names no origin is passed over. *)
ObserversApplyNamed(m, e) ==
    IF e.kind # "status" THEN m
    ELSE IF e.origin = None THEN m
    ELSE LET row == IF e.obs \in DOMAIN m THEN m[e.obs]
                    ELSE [first |-> e.ts, last |-> e.ts, origin |-> None]
         IN  Put(m, e.obs, [first |-> Earlier(row.first, e.ts),
                            last |-> Later(row.last, e.ts),
                            origin |-> e.origin])

ObserversApply(m, e) ==
    IF e.kind # "status" THEN m
    ELSE LET row == IF e.obs \in DOMAIN m THEN m[e.obs]
                    ELSE [first |-> e.ts, last |-> e.ts, origin |-> None]
         IN  Put(m, e.obs, [first |-> Earlier(row.first, e.ts),
                            last |-> Later(row.last, e.ts),
                            origin |-> Coalesce(e.origin, row.origin)])

(* Mutant of ObserversUpsert: an empty field empties the stored one. *)
UpsertDescription(old, row) ==
    [first |-> Earlier(old.first, row.first),
     last |-> Later(old.last, row.last),
     origin |-> row.origin]

(* ON CONFLICT (id) DO UPDATE. *)
ObserversUpsert(old, row) ==
    [first |-> Earlier(old.first, row.first),
     last |-> Later(old.last, row.last),
     origin |-> Coalesce(row.origin, old.origin)]

ObserversFlushTable(m, observers) ==
    [o \in DOMAIN observers \cup DOMAIN m |->
        CASE o \notin DOMAIN m -> observers[o]
          [] o \notin DOMAIN observers -> m[o]
          [] OTHER -> ObserversUpsert(observers[o], m[o])]

(* Flush leaves memory alone, Evict empties it. *)
ObserversFlushMem(m) == m
ObserversEvict(m) == EmptyMap
=============================================================================

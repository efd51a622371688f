--------------------------- MODULE ObserverStatus ---------------------------
(***************************************************************************)
(* The stage that owns observer_status: one row per observer and time, the *)
(* first one to arrive.  The buffer and the set of observers to announce   *)
(* on meshbug_status are emptied by Evict alone.  floor stands for all the *)
(* readings of a status.                                                   *)
(***************************************************************************)
EXTENDS Events, FiniteSetsExt

StatusEmpty == [buf |-> <<>>, touched |-> {}]

StatusApply(m, e) ==
    IF e.kind # "status" THEN m
    ELSE [buf |-> Append(m.buf, e), touched |-> m.touched \cup {e.obs}]

StatusKey(e) == <<e.obs, e.ts>>

(* The foreign key to observers lets these rows in. *)
StatusAccepts(m, observers) == {e.obs : e \in RowsOf(m.buf)} \subseteq DOMAIN observers

(* The places in the buffer of the statuses with key k. *)
StatusAt(m, k) == {j \in DOMAIN m.buf : StatusKey(m.buf[j]) = k}

(* Mutant of StatusFlushTable: ON CONFLICT (observer_id, ts) DO UPDATE. *)
StatusReplaces(m, status) ==
    [k \in DOMAIN status \cup {StatusKey(e) : e \in RowsOf(m.buf)} |->
        IF StatusAt(m, k) # {} THEN m.buf[Max(StatusAt(m, k))].floor ELSE status[k]]

(* ON CONFLICT (observer_id, ts) DO NOTHING, row by row. *)
StatusFlushTable(m, status) ==
    [k \in DOMAIN status \cup {StatusKey(e) : e \in RowsOf(m.buf)} |->
        IF k \in DOMAIN status THEN status[k] ELSE m.buf[Min(StatusAt(m, k))].floor]

StatusFlushMem(m) == m
StatusEvict(m) == StatusEmpty
=============================================================================

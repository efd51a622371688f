------------------------- MODULE PacketObservations -------------------------
(***************************************************************************)
(* The stage that owns packet_observations: packets are buffered by Apply  *)
(* and appended by Flush.  The table is the sequence of its rows in        *)
(* observation_id order.  The buffer is emptied by Evict alone.  Of the    *)
(* notification only the row count is kept, not the observers it names.    *)
(***************************************************************************)
EXTENDS Events

ObservationsEmpty == [buf |-> <<>>, count |-> 0]

(* Mutant of ObservationsApply: packets without a hash are left out, as they *)
(* are from packets_unique.                                                  *)
ObservationsApplyHashed(m, e) ==
    IF IsPacket(e) /\ Hashed(e) THEN [m EXCEPT !.buf = Append(@, e)] ELSE m

ObservationsApply(m, e) ==
    IF IsPacket(e) THEN [m EXCEPT !.buf = Append(@, e)] ELSE m

(* Mutant of ObservationsFlushMem: the count adds up over failed attempts. *)
ObservationsCountUp(m) ==
    IF m.buf = <<>> THEN m ELSE [m EXCEPT !.count = @ + Len(m.buf)]

(* The batch is copied to the table in one statement; with nothing buffered *)
(* Flush returns before it sets the count.                                  *)
ObservationsFlushMem(m) ==
    IF m.buf = <<>> THEN m ELSE [m EXCEPT !.count = Len(m.buf)]

ObservationsFlushTable(m, table) == table \o m.buf

(* The row count that Notify sends on meshbug_packets; 0 sends nothing. *)
ObservationsAnnounced(m) == m.count

(* Mutant of ObservationsEvict: the buffer outlives the commit. *)
ObservationsKeep(m) == [m EXCEPT !.count = 0]

ObservationsEvict(m) == ObservationsEmpty
=============================================================================

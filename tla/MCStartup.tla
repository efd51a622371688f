----------------------------- MODULE MCStartup ------------------------------
(* Small instances of Startup. *)
EXTENDS Startup

LatestOf == [old |-> [ingest |-> 1, project |-> 1], new |-> [ingest |-> 1, project |-> 2]]

(* Two ingest replicas, one projector. *)
Services == [p \in Proc |-> IF p = "p1" THEN "project" ELSE "ingest"]

(* January to May; the last day of a month before a short one, and the     *)
(* first days of the next two.                                             *)
Calendar == <<31, 28, 31, 30, 31>>
Dates == { [month |-> 1, day |-> 31], [month |-> 2, day |-> 1], [month |-> 3, day |-> 1] }
FirstDate == [month |-> 1, day |-> 31]
=============================================================================

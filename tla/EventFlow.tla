----------------------------- MODULE EventFlow ------------------------------
(***************************************************************************)
(* The write side and the read side of MeshBug running against one         *)
(* Postgres: Ingest replicas append to raw_events and notify, one          *)
(* Projector consumes the log by cursor.  Nothing but the table, the       *)
(* sequence and the notifications connects them.                           *)
(***************************************************************************)
EXTENDS Ingest, Projector

vars == <<logVars, ingestVars, projectorVars>>

Init ==
    /\ RawLogInit
    /\ IngestInit
    /\ ProjectorInit

Next ==
    \/ IngestNext /\ UNCHANGED projectorVars
    \/ ProjectorNext /\ UNCHANGED ingestVars

Spec == Init /\ [][Next]_vars

(* The select loops never block on one another, Listen retries for ever and *)
(* the deployment restarts a projector that died.  Nothing obliges a message *)
(* to arrive or a fault to happen, nor a stopped replica to come back.       *)
Fairness ==
    /\ \A r \in Replica :
          WF_vars(IngestStep(r) /\ UNCHANGED projectorVars)
    /\ WF_vars(ProjectorStep /\ UNCHANGED ingestVars)

FairSpec == Spec /\ Fairness

TypeOK ==
    /\ RawLogTypeOK
    /\ IngestTypeOK
    /\ ProjectorTypeOK

-----------------------------------------------------------------------------
(* The cursor never passes a row that was not projected: every raw_events   *)
(* row at or below last_event_id has reached the derived tables.  This is   *)
(* what FetchRawEventsAfter (id > cursor) relies on.                        *)
NoSkip == \A i \in Committed : i <= dbCursor => times[i] > 0

(* No row is projected twice between two resets, whatever crashes, failed   *)
(* batches and broken sessions come in between: the derived rows and the    *)
(* cursor commit together.                                                  *)
ProjectedOnce == \A i \in Ids : times[i] <= 1

(* A message that one replica received is stored in at most one row: flush  *)
(* gives a failed batch up instead of trying it again.                      *)
AtMostOneRow ==
    \A i, j \in Committed : raw[i] = raw[j] => i = j

(* The durable cursor only moves forward, except for a reset, also when the *)
(* local cursor lags behind it after a lost acknowledgement.                *)
CursorAdvances == [][dbCursor' >= dbCursor \/ ppc = "down"]_vars

(* A message that an MQTT callback accepted and that is neither stored nor  *)
(* held any more was lost to a fault, and one fault (a failed insert, a     *)
(* SIGTERM, whose last flush runs on the cancelled context, a crash) costs  *)
(* no more than one batch and what the channel holds.                       *)
Lost(r) ==
    heard[r] \ ({raw[i] : i \in Committed}
                  \cup {chan[r][k] : k \in DOMAIN chan[r]}
                  \cup {batch[r][k] : k \in DOMAIN batch[r]})

LossBounded ==
    \A r \in Replica : Cardinality(Lost(r)) <= faults * (IngestBatch + ChanCap)

(* A notification queued on a live session ends in the projection of every  *)
(* row committed by then.                                                   *)
WakeupDrains ==
    \A i \in Ids :
        (raw[i] # NoMsg /\ session = "up" /\ inbox > 0) ~> times[i] > 0

(* Every committed row is projected in the end. *)
AllProjected == \A i \in Ids : raw[i] # NoMsg ~> times[i] > 0

(* With one ingest replica, ingest and project together are a log consumer. *)
Abstract == INSTANCE LogConsumer WITH
    committed <- Committed,
    consumed <- {i \in Committed : times[i] > 0}

ConsumesLog == Abstract!Spec
=============================================================================

------------------------------- MODULE Ingest -------------------------------
(***************************************************************************)
(* The ingest service: MQTT callbacks feed a bounded channel, one loop per *)
(* replica gathers a batch and appends it to raw_events, then wakes the    *)
(* projector.  InsertRawEvents draws all ids in one statement and writes   *)
(* the rows in a second one, so other replicas run in between.             *)
(***************************************************************************)
EXTENDS RawLog

CONSTANTS
    Replica,      \* ingest processes running at the same time
    IngestBatch,  \* messages that force a flush (500 in the code)
    ChanCap       \* capacity of the message channel (1024 in the code)

ASSUME IngestAssumption ==
    /\ IngestBatch \in Nat \ {0}
    /\ ChanCap \in Nat \ {0}

VARIABLES
    ipc,        \* where replica r's loop is
    cancelled,  \* TRUE once r's context is cancelled (SIGTERM)
    heard,      \* messages r's MQTT callbacks accepted
    chan,       \* r's channel of messages not yet taken by the loop
    batch,      \* r's current batch
    ids         \* ids reserved for that batch

ingestVars == <<ipc, cancelled, heard, chan, batch, ids>>

IngestTypeOK ==
    /\ ipc \in [Replica -> {"select", "reserve", "copy", "publish", "stopped"}]
    /\ cancelled \in [Replica -> BOOLEAN]
    /\ heard \in [Replica -> SUBSET Msgs]
    /\ chan \in [Replica -> Seq(Msgs)]
    /\ batch \in [Replica -> Seq(Msgs)]
    /\ ids \in [Replica -> Seq(Ids)]

IngestInit ==
    /\ ipc = [r \in Replica |-> "select"]
    /\ cancelled = [r \in Replica |-> FALSE]
    /\ heard = [r \in Replica |-> {}]
    /\ chan = [r \in Replica |-> <<>>]
    /\ batch = [r \in Replica |-> <<>>]
    /\ ids = [r \in Replica |-> <<>>]

-----------------------------------------------------------------------------
(* Mutant of Receive: a callback that finds the channel full does not wait. *)
ReceiveOrDrop(r, m) ==
    /\ ipc[r] # "stopped"
    /\ ~cancelled[r]
    /\ m \notin heard[r]
    /\ heard' = [heard EXCEPT ![r] = @ \cup {m}]
    /\ chan' = IF Len(chan[r]) < ChanCap
               THEN [chan EXCEPT ![r] = Append(@, m)] ELSE chan
    /\ UNCHANGED <<logVars, ipc, cancelled, batch, ids>>

(* An MQTT callback of r: every replica holds its own QoS 0 subscription to *)
(* the same topics.  It blocks while the channel is full and gives the      *)
(* message up once the context is cancelled.                                *)
Receive(r, m) ==
    /\ ipc[r] # "stopped"
    /\ ~cancelled[r]
    /\ m \notin heard[r]
    /\ Len(chan[r]) < ChanCap
    /\ heard' = [heard EXCEPT ![r] = @ \cup {m}]
    /\ chan' = [chan EXCEPT ![r] = Append(@, m)]
    /\ UNCHANGED <<logVars, ipc, cancelled, batch, ids>>

TakeMsg(r) ==
    /\ ipc[r] = "select"
    /\ chan[r] # <<>>
    /\ batch' = [batch EXCEPT ![r] = Append(@, Head(chan[r]))]
    /\ chan' = [chan EXCEPT ![r] = Tail(@)]
    /\ ipc' = [ipc EXCEPT ![r] =
                   IF Len(batch[r]) + 1 >= IngestBatch THEN "reserve" ELSE @]
    /\ UNCHANGED <<logVars, cancelled, heard, ids>>

(* The flush timer; with an empty batch flush returns at once. *)
TimerFires(r) ==
    /\ ipc[r] = "select"
    /\ batch[r] # <<>>
    /\ ipc' = [ipc EXCEPT ![r] = "reserve"]
    /\ UNCHANGED <<logVars, cancelled, heard, chan, batch, ids>>

-----------------------------------------------------------------------------
(* flush ends by emptying the batch, whatever the outcome of the insert. *)
EndFlush(r, next) ==
    /\ ipc' = [ipc EXCEPT ![r] = next]
    /\ batch' = [batch EXCEPT ![r] = <<>>]
    /\ ids' = [ids EXCEPT ![r] = <<>>]

(* One nextval of the id statement: sequences are not transactional, so the *)
(* draws of two replicas interleave.                                        *)
NextVal(r) ==
    /\ ipc[r] = "reserve"
    /\ ~cancelled[r]
    /\ Len(ids[r]) < Len(batch[r])
    /\ seq < MaxId
    /\ seq' = seq + 1
    /\ ids' = [ids EXCEPT ![r] = Append(@, seq + 1)]
    /\ ipc' = [ipc EXCEPT ![r] =
                   IF Len(ids[r]) + 1 = Len(batch[r]) THEN "copy" ELSE @]
    /\ UNCHANGED <<raw, session, inbox, faults, cancelled, heard, chan, batch>>

(* The id statement fails, always so on a cancelled context: the batch goes. *)
ReserveFails(r) ==
    /\ ipc[r] = "reserve"
    /\ \/ cancelled[r] /\ UNCHANGED faults
       \/ Fault("insert")
    /\ EndFlush(r, "select")
    /\ UNCHANGED <<raw, seq, session, inbox, cancelled, heard, chan>>

WithBatch(r) ==
    [i \in Ids |-> IF \E k \in DOMAIN ids[r] : ids[r][k] = i
                   THEN batch[r][CHOOSE k \in DOMAIN ids[r] : ids[r][k] = i]
                   ELSE raw[i]]

(* CopyFrom commits every row of the batch in one statement. *)
Copy(r) ==
    /\ ipc[r] = "copy"
    /\ ~cancelled[r]
    /\ raw' = WithBatch(r)
    /\ ipc' = [ipc EXCEPT ![r] = "publish"]
    /\ UNCHANGED <<seq, session, inbox, faults, cancelled, heard, chan, batch, ids>>

(* Mutant of CopyFails: the batch is kept and inserted again under new ids. *)
CopyFailsRetries(r) ==
    /\ ipc[r] = "copy"
    /\ Fault("insert")
    /\ raw' \in {raw, WithBatch(r)}
    /\ ipc' = [ipc EXCEPT ![r] = "reserve"]
    /\ ids' = [ids EXCEPT ![r] = <<>>]
    /\ UNCHANGED <<seq, session, inbox, cancelled, heard, chan, batch>>

(* CopyFrom returns an error: a lost connection or a cancelled context. The *)
(* server may have committed the rows all the same.  No notification.       *)
CopyFails(r) ==
    /\ ipc[r] = "copy"
    /\ \/ cancelled[r] /\ UNCHANGED faults
       \/ Fault("insert")
    /\ raw' \in {raw, WithBatch(r)}
    /\ EndFlush(r, "select")
    /\ UNCHANGED <<seq, session, inbox, cancelled, heard, chan>>

Publish(r) ==
    /\ ipc[r] = "publish"
    /\ ~cancelled[r]
    /\ Notify
    /\ EndFlush(r, "select")
    /\ UNCHANGED <<raw, seq, session, faults, cancelled, heard, chan>>

(* pg_notify fails; the error is logged and the wake-up is gone. *)
PublishFails(r) ==
    /\ ipc[r] = "publish"
    /\ \/ cancelled[r] /\ UNCHANGED faults
       \/ Fault("publish")
    /\ EndFlush(r, "select")
    /\ UNCHANGED <<raw, seq, session, inbox, cancelled, heard, chan>>

-----------------------------------------------------------------------------
Cancel(r) ==
    /\ ipc[r] # "stopped"
    /\ ~cancelled[r]
    /\ Fault("term")
    /\ cancelled' = [cancelled EXCEPT ![r] = TRUE]
    /\ UNCHANGED <<raw, seq, session, inbox, ipc, heard, chan, batch, ids>>

(* The ctx.Done branch: flush runs on the context that was just cancelled,  *)
(* so its first statement fails and the batch is dropped; messages still in *)
(* the channel go with the process.                                         *)
Stop(r) ==
    /\ ipc[r] = "select"
    /\ cancelled[r]
    /\ EndFlush(r, "stopped")
    /\ chan' = [chan EXCEPT ![r] = <<>>]
    /\ UNCHANGED <<logVars, cancelled, heard>>

(* The process dies at any point of the loop. *)
Crash(r) ==
    /\ ipc[r] # "stopped"
    /\ Fault("crash")
    /\ EndFlush(r, "stopped")
    /\ chan' = [chan EXCEPT ![r] = <<>>]
    /\ UNCHANGED <<raw, seq, session, inbox, cancelled, heard>>

(* A new process subscribes afresh (clean session): what was published while *)
(* it was down, or heard by its predecessor, is not delivered again.         *)
Restart(r) ==
    /\ ipc[r] = "stopped"
    /\ ipc' = [ipc EXCEPT ![r] = "select"]
    /\ cancelled' = [cancelled EXCEPT ![r] = FALSE]
    /\ UNCHANGED <<logVars, heard, chan, batch, ids>>

IngestStep(r) ==
    \/ TakeMsg(r) \/ TimerFires(r)
    \/ NextVal(r) \/ ReserveFails(r)
    \/ Copy(r) \/ CopyFails(r)
    \/ Publish(r) \/ PublishFails(r)
    \/ Stop(r)

IngestNext ==
    \E r \in Replica :
        \/ \E m \in Msgs : Receive(r, m)
        \/ IngestStep(r)
        \/ Cancel(r) \/ Crash(r) \/ Restart(r)
=============================================================================

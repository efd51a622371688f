------------------------------- MODULE RawLog -------------------------------
(***************************************************************************)
(* The state that the ingest and project services share through Postgres:  *)
(* the append-only table ingest.raw_events, the sequence that numbers its  *)
(* rows, and the LISTEN session on which the projector hears that rows     *)
(* were added.                                                             *)
(***************************************************************************)
EXTENDS Integers, Sequences, FiniteSets

CONSTANTS
    MaxId,     \* bound: the largest id raw_events_id_seq hands out
    MaxMsg,    \* bound: MQTT messages published during a behaviour
    Faults,    \* the kinds of fault this instance may meet
    MaxFaults  \* bound: how many faults a behaviour contains

FaultKinds ==
    {"insert", "publish", "term", "crash",
     "load", "fetch", "process", "lostAck", "session", "projectorCrash", "reset"}

ASSUME RawLogAssumption ==
    /\ MaxId \in Nat \ {0}
    /\ MaxMsg \in Nat \ {0}
    /\ MaxFaults \in Nat
    /\ Faults \subseteq FaultKinds

Ids  == 1..MaxId
Msgs == 1..MaxMsg
NoMsg == 0

VARIABLES
    raw,      \* [Ids -> Msgs or NoMsg]: the committed rows of raw_events
    seq,      \* last value drawn from raw_events_id_seq
    session,  \* "up" while a LISTEN session is established, else "down"
    inbox,    \* notifications queued on that session (their payload is ignored)
    faults    \* faults so far

logVars == <<raw, seq, session, inbox, faults>>

RawLogTypeOK ==
    /\ raw \in [Ids -> Msgs \cup {NoMsg}]
    /\ seq \in 0..MaxId
    /\ session \in {"up", "down"}
    /\ inbox \in Nat
    /\ faults \in Nat

RawLogInit ==
    /\ raw = [i \in Ids |-> NoMsg]
    /\ seq = 0
    /\ session = "down"
    /\ inbox = 0
    /\ faults = 0

Committed == {i \in Ids : raw[i] # NoMsg}

(* One fault of kind k, within the instance's budget. *)
Fault(k) ==
    /\ k \in Faults
    /\ faults < MaxFaults
    /\ faults' = faults + 1

(* pg_notify reaches the sessions that are listening when it commits. *)
Notify == inbox' = IF session = "up" THEN inbox + 1 ELSE inbox
=============================================================================

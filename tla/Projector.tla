----------------------------- MODULE Projector ------------------------------
(***************************************************************************)
(* The project service as a consumer of raw_events: the durable cursor,    *)
(* its in-memory copy, the catch-up loop and the LISTEN session that wakes *)
(* it.  A batch is applied here in one step that commits the derived rows  *)
(* and the cursor together; module Pipeline opens that step up.            *)
(***************************************************************************)
EXTENDS RawLog

CONSTANT BatchSize  \* rows fetched at a time (500 in the code)

ASSUME ProjectorAssumption == BatchSize \in Nat \ {0}

VARIABLES
    dbCursor,  \* projector_state.last_event_id
    times,     \* how often row i has been projected since the last reset
    cursor,    \* Run's local cursor
    ppc,       \* "down", "dead", "fetch", "process" or "wait"
    got        \* ids of the batch being processed

projectorVars == <<dbCursor, times, cursor, ppc, got>>

ProjectorTypeOK ==
    /\ dbCursor \in 0..MaxId
    /\ times \in [Ids -> Nat]
    /\ cursor \in 0..MaxId
    /\ ppc \in {"down", "dead", "fetch", "process", "wait"}
    /\ got \subseteq Ids

ProjectorInit ==
    /\ dbCursor = 0
    /\ times = [i \in Ids |-> 0]
    /\ cursor = 0
    /\ ppc = "down"
    /\ got = {}

-----------------------------------------------------------------------------
(* Mutant of Start: the cursor is read as the next id to fetch. *)
StartPast ==
    /\ ppc = "down"
    /\ cursor' = IF dbCursor = MaxId THEN dbCursor ELSE dbCursor + 1
    /\ ppc' = "fetch"
    /\ UNCHANGED <<logVars, dbCursor, times, got>>

(* Mutant of Start: the committed cursor is not loaded. *)
StartAfresh ==
    /\ ppc = "down"
    /\ cursor' = 0
    /\ ppc' = "fetch"
    /\ UNCHANGED <<logVars, dbCursor, times, got>>

(* Run loads the committed cursor and catches up before it listens. *)
Start ==
    /\ ppc = "down"
    /\ cursor' = dbCursor
    /\ ppc' = "fetch"
    /\ UNCHANGED <<logVars, dbCursor, times, got>>

(* Loading the cursor fails: Run returns, the process stays up doing nothing. *)
StartFails ==
    /\ ppc = "down"
    /\ Fault("load")
    /\ ppc' = "dead"
    /\ UNCHANGED <<raw, seq, session, inbox, dbCursor, times, cursor, got>>

(* --reset truncates the derived tables and the cursor before Run starts. *)
Reset ==
    /\ ppc = "down"
    /\ Fault("reset")
    /\ dbCursor' = 0
    /\ times' = [i \in Ids |-> 0]
    /\ UNCHANGED <<raw, seq, session, inbox, cursor, ppc, got>>

-----------------------------------------------------------------------------
(* FetchRawEventsAfter: the rows above the cursor that a snapshot shows. *)
Unseen == {i \in Committed : i > cursor}

Limit == IF Cardinality(Unseen) < BatchSize THEN Cardinality(Unseen) ELSE BatchSize

(* The first `limit` of them in id order. *)
FirstRows(rows) ==
    /\ Cardinality(rows) = Limit
    /\ \A i \in rows, j \in Unseen \ rows : i < j

Fetch ==
    /\ ppc = "fetch"
    /\ \E rows \in SUBSET Unseen : FirstRows(rows) /\ got' = rows
    /\ ppc' = IF Unseen = {} THEN "wait" ELSE "process"
    /\ UNCHANGED <<logVars, dbCursor, times, cursor>>

(* MAX(id) or the fetch fails: catchUp gives up, its caller only logs it. *)
FetchFails ==
    /\ ppc = "fetch"
    /\ Fault("fetch")
    /\ ppc' = "wait"
    /\ UNCHANGED <<raw, seq, session, inbox, dbCursor, times, cursor, got>>

(* Mutant of Project: the cursor is not part of the transaction. *)
ProjectRowsOnly(highest) ==
    /\ \A i \in got : i <= highest
    /\ times' = [i \in Ids |-> IF i \in got THEN times[i] + 1 ELSE times[i]]
    /\ dbCursor' = dbCursor

(* Mutant of Project: the cursor is saved as the next id to fetch. *)
ProjectPast(highest) ==
    /\ \A i \in got : i <= highest
    /\ times' = [i \in Ids |-> IF i \in got THEN times[i] + 1 ELSE times[i]]
    /\ dbCursor' = highest + 1

(* The transaction: every derived row of the batch and the cursor. *)
Project(highest) ==
    /\ \A i \in got : i <= highest
    /\ times' = [i \in Ids |-> IF i \in got THEN times[i] + 1 ELSE times[i]]
    /\ dbCursor' = highest

(* Mutant of Process: a full batch ends the catch-up too. *)
ProcessOneBatch ==
    /\ ppc = "process"
    /\ \E highest \in got :
          /\ Project(highest)
          /\ cursor' = highest
    /\ ppc' = "wait"
    /\ got' = {}
    /\ UNCHANGED logVars

(* ProcessBatch returned nil; a short batch ends the catch-up. *)
Process ==
    /\ ppc = "process"
    /\ \E highest \in got :
          /\ Project(highest)
          /\ cursor' = highest
    /\ ppc' = IF Cardinality(got) < BatchSize THEN "wait" ELSE "fetch"
    /\ got' = {}
    /\ UNCHANGED logVars

(* ProcessBatch failed and rolled back; only the log notices. *)
ProcessFails ==
    /\ ppc = "process"
    /\ Fault("process")
    /\ ppc' = "wait"
    /\ got' = {}
    /\ UNCHANGED <<raw, seq, session, inbox, dbCursor, times, cursor>>

(* Mutant of ProcessUnacked: the cursor is saved before the rows. *)
ProcessCursorFirst ==
    /\ ppc = "process"
    /\ Fault("lostAck")
    /\ \E highest \in got : (\A i \in got : i <= highest) /\ dbCursor' = highest
    /\ ppc' = "wait"
    /\ got' = {}
    /\ UNCHANGED <<raw, seq, session, inbox, cursor, times>>

(* The commit went through but its acknowledgement was lost: ProcessBatch *)
(* returns an error and the local cursor stays where it was.              *)
ProcessUnacked ==
    /\ ppc = "process"
    /\ Fault("lostAck")
    /\ \E highest \in got : Project(highest)
    /\ ppc' = "wait"
    /\ got' = {}
    /\ UNCHANGED <<raw, seq, session, inbox, cursor>>

-----------------------------------------------------------------------------
(* listenOnce connects and issues LISTEN; nothing is read from the log here. *)
Connect ==
    /\ ppc = "wait"
    /\ session = "down"
    /\ session' = "up"
    /\ inbox' = 0
    /\ UNCHANGED <<raw, seq, faults, projectorVars>>

Notified ==
    /\ ppc = "wait"
    /\ session = "up"
    /\ inbox > 0
    /\ inbox' = inbox - 1
    /\ ppc' = "fetch"
    /\ UNCHANGED <<raw, seq, session, faults, dbCursor, times, cursor, got>>

(* The session breaks, also while a notification is being handled. *)
SessionLost ==
    /\ session = "up"
    /\ Fault("session")
    /\ session' = "down"
    /\ inbox' = 0
    /\ UNCHANGED <<raw, seq, projectorVars>>

ProjectorCrash ==
    /\ ppc # "down"
    /\ Fault("projectorCrash")
    /\ ppc' = "down"
    /\ got' = {}
    /\ cursor' = 0
    /\ session' = "down"
    /\ inbox' = 0
    /\ UNCHANGED <<raw, seq, dbCursor, times>>

ProjectorStep ==
    \/ Start \/ Fetch \/ Process \/ Connect \/ Notified

ProjectorNext ==
    \/ ProjectorStep
    \/ StartFails \/ Reset \/ FetchFails \/ ProcessFails \/ ProcessUnacked
    \/ SessionLost \/ ProjectorCrash
=============================================================================

------------------------------ MODULE Pipeline ------------------------------
(***************************************************************************)
(* The projector's batch loop opened up: fetch a batch behind the cursor,  *)
(* apply each event to every stage's memory, flush the stages one after    *)
(* the other inside a transaction, commit it with the cursor, then let     *)
(* every stage notify and evict.  Stage memory survives a failed batch and *)
(* not a crash; the tables do the opposite.                                *)
(*                                                                         *)
(* The log grows in id order (EventFlow says when that is so), hence its   *)
(* positions stand for the ids.  Waking up is left to EventFlow: here an   *)
(* idle projector may fetch whenever there is something to fetch.          *)
(***************************************************************************)
EXTENDS Observers, ObserverStatus, Nodes, PacketsUnique, RollupObserver, RollupNeighbor,
        PacketObservations, Anomalies

CONSTANTS
    EventSet,    \* the events that may be logged
    Stages,      \* the stages of this instance, in New's order
    BatchSize,   \* rows fetched at a time (500 in the code)
    MaxLog,      \* bound: length of the log
    Faults,      \* the kinds of fault this instance may meet
    MaxFaults    \* bound: how many faults a behaviour contains

(* The place of each stage in New's list. *)
StageOrder ==
    [observers |-> 1, observer_status |-> 2, nodes |-> 3, packets_unique |-> 4,
     rollup_observer |-> 5, rollup_neighbor |-> 7, packet_observations |-> 8,
     anomalies |-> 9]

ASSUME PipelineAssumption ==
    /\ BatchSize \in Nat \ {0}
    /\ MaxLog \in Nat
    /\ MaxFaults \in Nat
    /\ Stages \in Seq(DOMAIN StageOrder)
    /\ \A i, j \in DOMAIN Stages : i < j => StageOrder[Stages[i]] < StageOrder[Stages[j]]
    /\ "packet_observations" \in RowsOf(Stages)
    /\ "observer_status" \in RowsOf(Stages) => "observers" \in RowsOf(Stages)
    /\ "anomalies" \in RowsOf(Stages) =>
         {"rollup_observer", "rollup_neighbor"} \subseteq RowsOf(Stages)
    /\ Faults \subseteq {"fail", "lostAck", "crash", "reset"}

(* Events are received, and adverts made, after Go's zero time. *)
ASSUME EventsAssumption ==
    \A e \in EventSet :
        /\ e.kind \in {"packet", "status", "dropped"}
        /\ e.ts \in Nat \ {ZeroTime}
        /\ IsPacket(e) =>
             /\ e.advert = None \/ e.advert.at \in Nat \ {ZeroTime}
             /\ e.rssi = None \/ e.rssi \in Int

VARIABLES
    log,       \* raw_events as Decode sees them, in id order
    tables,    \* the committed derived tables, by stage
    dbCursor,  \* projector_state.last_event_id
    tx,        \* the tables as the open transaction sees them, empty if none
    mem,       \* each stage's memory
    cursor,    \* the loop's local cursor
    ppc,       \* "down", "idle", "apply", "flush" or "settle"
    upto,      \* highest id of the batch
    pos,       \* next event to apply
    turn,      \* next stage to flush
    hwm,       \* highest event time of the batch
    told,      \* packet rows announced on meshbug_packets since the last reset
    faults     \* faults so far

loopVars == <<cursor, ppc, upto, pos, turn, hwm>>
vars == <<log, tables, dbCursor, tx, mem, loopVars, told, faults>>

StageSet == RowsOf(Stages)

-----------------------------------------------------------------------------
(* The Stage interface, dispatched by name. *)

EmptyMemory(s) ==
    CASE s = "packet_observations" -> ObservationsEmpty
      [] s = "observer_status"     -> StatusEmpty
      [] s = "anomalies"           -> AnomaliesEmpty
      [] OTHER                     -> EmptyMap

EmptyTable(s) ==
    CASE s = "packet_observations" -> <<>>
      [] s = "anomalies"           -> {}
      [] OTHER                     -> EmptyMap

Apply(s, m, e) ==
    CASE s = "observers"           -> ObserversApply(m, e)
      [] s = "observer_status"     -> StatusApply(m, e)
      [] s = "nodes"               -> NodesApply(m, e)
      [] s = "packets_unique"      -> UniqueApply(m, e)
      [] s = "rollup_observer"     -> RollupApply(m, e)
      [] s = "rollup_neighbor"     -> NeighborApply(m, e)
      [] s = "packet_observations" -> ObservationsApply(m, e)
      [] s = "anomalies"           -> AnomaliesApply(m, e)

(* The keys whose rows Flush writes one statement at a time, marking each in *)
(* memory once it is written.                                                *)
Dirty(s, m) ==
    CASE s = "packets_unique"  -> UniqueDirty(m)
      [] s = "rollup_observer" -> RollupDirty(m)
      [] s = "rollup_neighbor" -> NeighborDirty(m)
      [] OTHER                 -> {}

(* No constraint of the database refuses what Flush would write. *)
Accepts(s, m) == s = "observer_status" => StatusAccepts(m, tx["observers"])

FlushMem(s, m, written) ==
    CASE s = "observers"       -> ObserversFlushMem(m)
      [] s = "observer_status" -> StatusFlushMem(m)
      [] s = "nodes"           -> NodesFlushMem(m)
      [] s = "packets_unique"  ->
            UniqueFlushMem(m, tx[s], tx["packet_observations"], written)
      [] s = "rollup_observer" ->
            RollupFlushMem(m, tx[s], tx["packet_observations"], written)
      [] s = "rollup_neighbor" -> NeighborFlushMem(m, tx[s], written)
      [] s = "packet_observations" -> ObservationsFlushMem(m)
      [] s = "anomalies"       ->
            AnomaliesFlushMem(m, tx[s], tx["rollup_observer"], tx["rollup_neighbor"])

(* What a Flush that fails may leave in its stage's memory: it broke off     *)
(* while rehydrating, or at one of its writes.                               *)
Interrupted(s, m) ==
    CASE s = "packets_unique"  ->
            UniqueInterrupted(m, tx[s], tx["packet_observations"])
      [] s = "rollup_observer" ->
            RollupInterrupted(m, tx[s], tx["packet_observations"])
      [] s = "rollup_neighbor" -> NeighborInterrupted(m, tx[s])
      [] s = "anomalies"       ->
            AnomaliesInterrupted(m, tx[s], tx["rollup_observer"], tx["rollup_neighbor"])
      [] OTHER                 -> {m}

LeftBehind(s, m) ==
    Interrupted(s, m)
      \cup {FlushMem(s, m, written) : written \in (SUBSET Dirty(s, m)) \ {Dirty(s, m)}}

FlushTable(s, m) ==
    CASE s = "observers"       -> ObserversFlushTable(m, tx[s])
      [] s = "observer_status" -> StatusFlushTable(m, tx[s])
      [] s = "nodes"           -> NodesFlushTable(m, tx[s])
      [] s = "packets_unique"  -> UniqueFlushTable(m, tx[s], tx["packet_observations"])
      [] s = "rollup_observer" -> RollupFlushTable(m, tx[s], tx["packet_observations"])
      [] s = "rollup_neighbor" -> NeighborFlushTable(m, tx[s])
      [] s = "packet_observations" -> ObservationsFlushTable(m, tx[s])
      [] s = "anomalies"       ->
            AnomaliesFlushTable(m, tx[s], tx["rollup_observer"], tx["rollup_neighbor"])

(* Only the anomalies stage changes its memory when it notifies; the others *)
(* leave that to Evict.                                                     *)
AfterNotify(s, m) == IF s = "anomalies" THEN AnomaliesNotify(m) ELSE m

Evict(s, m, time) ==
    CASE s = "observers"           -> ObserversEvict(m)
      [] s = "observer_status"     -> StatusEvict(m)
      [] s = "nodes"               -> NodesEvict(m)
      [] s = "packets_unique"      -> UniqueEvict(m, time)
      [] s = "rollup_observer"     -> RollupEvict(m, time)
      [] s = "rollup_neighbor"     -> NeighborEvict(m, time)
      [] s = "packet_observations" -> ObservationsEvict(m)
      [] s = "anomalies"           -> AnomaliesEvict(m)

-----------------------------------------------------------------------------
Init ==
    /\ log = <<>>
    /\ tables = [s \in StageSet |-> EmptyTable(s)]
    /\ dbCursor = 0
    /\ tx = EmptyMap
    /\ mem = [s \in StageSet |-> EmptyMemory(s)]
    /\ cursor = 0 /\ upto = 0 /\ pos = 0 /\ turn = 0
    /\ ppc = "down"
    /\ hwm = ZeroTime
    /\ told = 0
    /\ faults = 0

(* The locals of ProcessBatch, its transaction included, are gone. *)
EndBatch ==
    /\ tx' = EmptyMap
    /\ upto' = 0 /\ pos' = 0 /\ turn' = 0
    /\ hwm' = ZeroTime

Fault(k) ==
    /\ k \in Faults
    /\ faults < MaxFaults
    /\ faults' = faults + 1

(* Ingest commits a row. *)
LogGrows(e) ==
    /\ Len(log) < MaxLog
    /\ log' = Append(log, e)
    /\ UNCHANGED <<tables, dbCursor, tx, mem, loopVars, told, faults>>

(* Mutant of Start: the committed cursor is not loaded. *)
StartAfresh ==
    /\ ppc = "down"
    /\ ppc' = "idle"
    /\ cursor' = 0
    /\ UNCHANGED <<log, tables, dbCursor, tx, mem, upto, pos, turn, hwm, told, faults>>

(* Run starts from the committed cursor, every stage from empty memory. *)
Start ==
    /\ ppc = "down"
    /\ ppc' = "idle"
    /\ cursor' = dbCursor
    /\ UNCHANGED <<log, tables, dbCursor, tx, mem, upto, pos, turn, hwm, told, faults>>

(* project --reset: one transaction empties the tables and the cursor. *)
Reset ==
    /\ ppc = "down"
    /\ Fault("reset")
    /\ tables' = [s \in StageSet |-> EmptyTable(s)]
    /\ dbCursor' = 0
    /\ mem' = [s \in StageSet |-> EmptyMemory(s)]
    /\ told' = 0
    /\ UNCHANGED <<log, tx, loopVars>>

Fetch ==
    /\ ppc = "idle"
    /\ cursor < Len(log)
    /\ upto' = Earlier(cursor + BatchSize, Len(log))
    /\ pos' = cursor + 1
    /\ hwm' = ZeroTime
    /\ ppc' = "apply"
    /\ UNCHANGED <<log, tables, dbCursor, tx, mem, cursor, turn, told, faults>>

(* One turn of ProcessBatch's loop; a row that Decode dropped is not in it. *)
ApplyEvent ==
    /\ ppc = "apply"
    /\ pos <= upto
    /\ LET e == log[pos]
       IN  IF e.kind = "dropped" THEN UNCHANGED <<mem, hwm>>
           ELSE /\ mem' = [s \in StageSet |-> Apply(s, mem[s], e)]
                /\ hwm' = Later(hwm, e.ts)
    /\ pos' = pos + 1
    /\ UNCHANGED <<log, tables, dbCursor, tx, cursor, ppc, upto, turn, told, faults>>

Begin ==
    /\ ppc = "apply"
    /\ pos > upto
    /\ tx' = tables
    /\ turn' = 1
    /\ ppc' = "flush"
    /\ UNCHANGED <<log, tables, dbCursor, mem, cursor, upto, pos, hwm, told, faults>>

FlushStage ==
    /\ ppc = "flush"
    /\ turn <= Len(Stages)
    /\ Accepts(Stages[turn], mem[Stages[turn]])
    /\ LET s == Stages[turn]
       IN  /\ mem' = [mem EXCEPT ![s] = FlushMem(s, @, Dirty(s, @))]
           /\ tx' = [tx EXCEPT ![s] = FlushTable(s, mem[s])]
    /\ turn' = turn + 1
    /\ UNCHANGED <<log, tables, dbCursor, cursor, ppc, upto, pos, hwm, told, faults>>

-----------------------------------------------------------------------------
(* Begin, a flush, the cursor or the commit fails: the transaction is rolled *)
(* back and the loop gives up until it is woken again.  Memory stays as it   *)
(* is, with whatever the failing Flush had already done to its stage.        *)
Abandon ==
    /\ Fault("fail")
    /\ ppc' = "idle"
    /\ EndBatch
    /\ UNCHANGED <<log, tables, dbCursor, cursor, told>>

BeginFails ==
    /\ ppc = "apply"
    /\ pos > upto
    /\ Abandon
    /\ UNCHANGED mem

FlushFails ==
    /\ ppc = "flush"
    /\ turn <= Len(Stages)
    /\ Abandon
    /\ LET s == Stages[turn]
       IN  \E left \in LeftBehind(s, mem[s]) : mem' = [mem EXCEPT ![s] = left]

CommitFails ==
    /\ ppc = "flush"
    /\ turn > Len(Stages)
    /\ Abandon
    /\ UNCHANGED mem

(* The transaction takes effect: all stages' tables and the cursor at once. *)
CommitTables ==
    /\ ppc = "flush"
    /\ turn > Len(Stages)
    /\ tables' = tx
    /\ dbCursor' = upto
    /\ UNCHANGED <<log, mem, cursor, told>>

Commit ==
    /\ CommitTables
    /\ ppc' = "settle"
    /\ tx' = EmptyMap
    /\ UNCHANGED <<upto, pos, turn, hwm, faults>>

(* The commit is durable, but Commit returns an error: same path as a failure. *)
CommitUnacked ==
    /\ CommitTables
    /\ Fault("lostAck")
    /\ ppc' = "idle"
    /\ EndBatch

(* After the commit every stage notifies and, unless the batch held no event, *)
(* evicts; then the local cursor follows.                                     *)
Settle ==
    /\ ppc = "settle"
    /\ told' = told + ObservationsAnnounced(mem["packet_observations"])
    /\ mem' = [s \in StageSet |->
                 LET m == AfterNotify(s, mem[s])
                 IN  IF hwm = ZeroTime THEN m ELSE Evict(s, m, hwm)]
    /\ cursor' = upto
    /\ ppc' = "idle"
    /\ EndBatch
    /\ UNCHANGED <<log, tables, dbCursor, faults>>

Crash ==
    /\ ppc # "down"
    /\ Fault("crash")
    /\ ppc' = "down"
    /\ mem' = [s \in StageSet |-> EmptyMemory(s)]
    /\ cursor' = 0
    /\ EndBatch
    /\ UNCHANGED <<log, tables, dbCursor, told>>

ProcessBatch ==
    \/ ApplyEvent \/ Begin \/ FlushStage \/ Commit \/ Settle

Next ==
    \/ \E e \in EventSet : LogGrows(e)
    \/ Start \/ Reset \/ Fetch \/ ProcessBatch
    \/ BeginFails \/ FlushFails \/ CommitFails \/ CommitUnacked
    \/ Crash

Spec == Init /\ [][Next]_vars
=============================================================================

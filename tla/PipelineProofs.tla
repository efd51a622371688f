--------------------------- MODULE PipelineProofs ---------------------------
(***************************************************************************)
(* Theorems about the batch loop, for every set of events, list of stages, *)
(* batch size and number of faults.                                        *)
(***************************************************************************)
EXTENDS Projections, TLAPS

USE PipelineAssumption

(* The places the two cursors and the batch may be in.  The local cursor    *)
(* lags behind the durable one by no more than a batch, so that a batch     *)
(* fetched behind it always reaches the durable cursor again.               *)
Loop ==
    /\ log \in Seq(EventSet)
    /\ Len(log) <= MaxLog
    /\ dbCursor \in 0..Len(log)
    /\ cursor \in 0..dbCursor
    /\ ppc \in {"down", "idle", "apply", "flush", "settle"}
    /\ upto \in Nat
    /\ ppc = "down" => cursor = 0
    /\ ppc # "down" => dbCursor <= cursor + BatchSize
    /\ ppc \in {"apply", "flush"} =>
         dbCursor <= upto /\ upto <= cursor + BatchSize /\ upto <= Len(log)
    /\ ppc = "settle" => upto = dbCursor

LEMMA LoopInit == Init => Loop
  BY DEF Init, Loop

LEMMA LoopStep == Loop /\ [Next]_vars => Loop'
<1> SUFFICES ASSUME Loop, [Next]_vars PROVE Loop'
  OBVIOUS
<1> USE DEF Loop, loopVars
<1>1. CASE UNCHANGED vars
  BY <1>1 DEF vars
<1>2. ASSUME NEW e \in EventSet, LogGrows(e) PROVE Loop'
  <2>1. /\ log' \in Seq(EventSet) /\ Len(log') = Len(log) + 1 /\ Len(log') <= MaxLog
        /\ UNCHANGED <<dbCursor, loopVars>>
    BY <1>2 DEF LogGrows
  <2>2. QED
    BY <2>1
<1>3. CASE Start
  BY <1>3 DEF Start
<1>4. CASE Reset
  BY <1>4 DEF Reset, Fault
<1>5. CASE Fetch
  BY <1>5 DEF Fetch, Earlier
<1>6. CASE ApplyEvent
  BY <1>6 DEF ApplyEvent
<1>7. CASE Begin
  BY <1>7 DEF Begin
<1>8. CASE FlushStage
  BY <1>8 DEF FlushStage
<1>9. CASE Commit
  BY <1>9 DEF Commit, CommitTables
<1>10. CASE Settle
  BY <1>10 DEF Settle, EndBatch
<1>11. CASE BeginFails \/ FlushFails \/ CommitFails
  BY <1>11 DEF BeginFails, FlushFails, CommitFails, Abandon, EndBatch
<1>12. CASE CommitUnacked
  BY <1>12 DEF CommitUnacked, CommitTables, EndBatch
<1>13. CASE Crash
  BY <1>13 DEF Crash, EndBatch
<1>14. QED
  BY <1>1, <1>2, <1>3, <1>4, <1>5, <1>6, <1>7, <1>8, <1>9, <1>10, <1>11, <1>12, <1>13
     DEF Next, ProcessBatch

LEMMA LoopHolds == Spec => []Loop
  BY LoopInit, LoopStep, PTL DEF Spec

-----------------------------------------------------------------------------
(* The batch under way: which events were applied, whether one of them had a *)
(* time, and which stages have written to the transaction.                   *)
Flushed(s) == \E i \in DOMAIN Stages : i < turn /\ Stages[i] = s

Batch ==
    /\ DOMAIN mem = StageSet /\ DOMAIN tables = StageSet
    /\ hwm \in Nat
    /\ ppc = "apply" => pos \in Nat /\ cursor < pos /\ pos <= upto + 1
    /\ ppc \in {"flush", "settle"} => pos = upto + 1
    /\ ppc \in {"apply", "flush", "settle"} /\ hwm = ZeroTime =>
         \A i \in (cursor + 1)..(pos - 1) : log[i].kind = "dropped"
    /\ ppc = "flush" =>
         /\ turn \in Nat \ {0} /\ DOMAIN tx = StageSet
         /\ \A s \in StageSet : ~Flushed(s) => tx[s] = tables[s]
    /\ ppc = "down" => \A s \in StageSet : mem[s] = EmptyMemory(s)

LEMMA BatchInit == Init => Batch
  BY DEF Init, Batch, ZeroTime

(* The log is only ever added to. *)
LEMMA LogKept ==
  ASSUME Loop, [Next]_vars
  PROVE  \A i \in 1..Len(log) : i \in 1..Len(log') /\ log'[i] = log[i]
<1>1. ASSUME NEW e \in EventSet, LogGrows(e)
      PROVE  \A i \in 1..Len(log) : i \in 1..Len(log') /\ log'[i] = log[i]
  BY <1>1 DEF LogGrows, Loop
<1>2. CASE log' = log
  BY <1>2
<1>3. QED
  BY <1>1, <1>2 DEF Next, ProcessBatch, vars, Start, Reset, Fetch, ApplyEvent, Begin, FlushStage,
     Commit, CommitTables, CommitUnacked, Settle, BeginFails, FlushFails, CommitFails,
     Abandon, Crash

LEMMA StagesDiffer ==
  ASSUME NEW i \in DOMAIN Stages, NEW j \in DOMAIN Stages, Stages[i] = Stages[j]
  PROVE  i = j
<1>1. i \in Nat /\ j \in Nat
  OBVIOUS
<1>2. Stages[i] \in DOMAIN StageOrder /\ StageOrder[Stages[i]] \in Nat
  BY DEF StageOrder
<1>3. ~(i < j) /\ ~(j < i)
  BY <1>2
<1>4. QED
  BY <1>1, <1>3

(* Where FlushStage and FlushFails are in the list. *)
LEMMA TurnIsStage ==
  ASSUME Batch, ppc = "flush", turn <= Len(Stages)
  PROVE  /\ turn \in DOMAIN Stages /\ Stages[turn] \in StageSet
         /\ ~Flushed(Stages[turn])
<1>1. turn \in DOMAIN Stages
  BY DEF Batch
<1>2. Stages[turn] \in StageSet
  BY <1>1 DEF StageSet, RowsOf
<1>3. ASSUME NEW i \in DOMAIN Stages, i < turn, Stages[i] = Stages[turn] PROVE FALSE
  <2>1. i = turn
    BY <1>1, <1>3, StagesDiffer
  <2>2. QED
    BY <1>1, <1>3, <2>1
<1>4. QED
  BY <1>1, <1>2, <1>3 DEF Flushed

LEMMA AllFlushed ==
  ASSUME Batch, ppc = "flush", turn > Len(Stages), NEW s \in StageSet
  PROVE  Flushed(s)
<1>1. PICK i \in DOMAIN Stages : Stages[i] = s
  BY DEF StageSet, RowsOf
<1>2. i < turn
  BY <1>1 DEF Batch
<1>3. QED
  BY <1>1, <1>2 DEF Flushed

LEMMA FlushedGrows ==
  ASSUME Batch, ppc = "flush", turn <= Len(Stages), turn' = turn + 1, NEW s
  PROVE  Flushed(s)' <=> Flushed(s) \/ s = Stages[turn]
<1>1. turn \in DOMAIN Stages /\ turn \in Nat
  BY TurnIsStage DEF Batch
<1>2. \A i \in DOMAIN Stages : i < turn' <=> i < turn \/ i = turn
  BY <1>1
<1>3. QED
  BY <1>1, <1>2 DEF Flushed

LEMMA BatchStep == Loop /\ Batch /\ [Next]_vars => Batch'
<1> SUFFICES ASSUME Loop, Batch, [Next]_vars PROVE Batch'
  OBVIOUS
<1>1. /\ DOMAIN mem = StageSet /\ DOMAIN tables = StageSet /\ hwm \in Nat
      /\ cursor \in Nat /\ upto \in Nat /\ Len(log) \in Nat
  BY DEF Batch, Loop
<1>2. ASSUME UNCHANGED <<mem, tables, hwm>>, ppc' = "idle"  PROVE Batch'
  BY <1>1, <1>2 DEF Batch
<1>3. CASE UNCHANGED vars
  BY <1>3 DEF vars, loopVars, Batch, Flushed
<1>4. ASSUME NEW e \in EventSet, LogGrows(e) PROVE Batch'
  <2>1. UNCHANGED <<tables, tx, mem, cursor, ppc, upto, pos, turn, hwm>>
    BY <1>4 DEF LogGrows, loopVars
  <2>2. ASSUME ppc \in {"apply", "flush", "settle"}, hwm = ZeroTime,
               NEW i \in (cursor + 1)..(pos - 1)
        PROVE  log'[i] = log[i]
    <3>1. pos <= upto + 1 /\ upto <= Len(log) /\ pos \in Nat
      BY <1>1, <2>2 DEF Batch, Loop
    <3>2. i \in 1..Len(log)
      BY <1>1, <3>1
    <3>3. QED
      BY <3>2, LogKept
  <2>3. QED
    BY <2>1, <2>2 DEF Batch, Flushed
<1>5. CASE Start
  <2>1. UNCHANGED <<mem, tables, hwm>> /\ ppc' = "idle"
    BY <1>5 DEF Start
  <2>2. QED
    BY <1>2, <2>1
<1>6. CASE Reset
  <2>1. /\ ppc' = "down" /\ hwm' = hwm
        /\ tables' = [s \in StageSet |-> EmptyTable(s)]
        /\ mem' = [s \in StageSet |-> EmptyMemory(s)]
    BY <1>6 DEF Reset, loopVars
  <2>2. QED
    BY <1>1, <2>1 DEF Batch
<1>7. CASE Fetch
  <2>1. /\ cursor < Len(log) /\ upto' = Earlier(cursor + BatchSize, Len(log))
        /\ pos' = cursor + 1 /\ hwm' = ZeroTime /\ ppc' = "apply"
        /\ UNCHANGED <<mem, tables, cursor>>
    BY <1>7 DEF Fetch
  <2>2. cursor < upto' /\ upto' \in Nat
    BY <1>1, <2>1 DEF Earlier
  <2>3. QED
    BY <1>1, <2>1, <2>2 DEF Batch, ZeroTime
<1>8. CASE ApplyEvent
  <2>1. /\ ppc = "apply" /\ pos <= upto /\ pos' = pos + 1 /\ pos \in Nat /\ cursor < pos
        /\ UNCHANGED <<log, tables, cursor, ppc, upto>>
    BY <1>8 DEF ApplyEvent, Batch
  <2>2. CASE log[pos].kind = "dropped"
    <3>1. UNCHANGED <<mem, hwm>>
      BY <1>8, <2>2 DEF ApplyEvent
    <3>2. \A i \in (cursor + 1)..(pos' - 1) : i \in (cursor + 1)..(pos - 1) \/ i = pos
      BY <1>1, <2>1
    <3>3. QED
      BY <1>1, <2>1, <2>2, <3>1, <3>2 DEF Batch
  <2>3. CASE log[pos].kind # "dropped"
    <3>1. /\ mem' = [s \in StageSet |-> Apply(s, mem[s], log[pos])]
          /\ hwm' = Later(hwm, log[pos].ts)
      BY <1>8, <2>3 DEF ApplyEvent
    <3>2. log[pos] \in EventSet
      BY <2>1 DEF Loop
    <3>3. hwm' \in Nat /\ hwm' # ZeroTime
      BY <1>1, <3>1, <3>2, EventsAssumption DEF Later, ZeroTime
    <3>4. QED
      BY <1>1, <2>1, <3>1, <3>3 DEF Batch
  <2>4. QED
    BY <2>2, <2>3
<1>9. CASE Begin
  <2>1. /\ ppc = "apply" /\ pos > upto /\ tx' = tables /\ turn' = 1 /\ ppc' = "flush"
        /\ UNCHANGED <<log, tables, mem, cursor, upto, pos, hwm>>
    BY <1>9 DEF Begin
  <2>2. pos = upto + 1
    BY <1>1, <2>1 DEF Batch
  <2>3. QED
    BY <1>1, <2>1, <2>2 DEF Batch, Flushed
<1>10. CASE FlushStage
  <2>1. /\ ppc = "flush" /\ turn <= Len(Stages) /\ turn' = turn + 1 /\ turn \in Nat \ {0}
        /\ mem' = [mem EXCEPT ![Stages[turn]] = mem'[Stages[turn]]]
        /\ tx' = [tx EXCEPT ![Stages[turn]] = tx'[Stages[turn]]]
        /\ UNCHANGED <<log, tables, cursor, ppc, upto, pos, hwm>>
    BY <1>1, <1>10, TurnIsStage DEF FlushStage, Batch
  <2>2. DOMAIN mem' = StageSet /\ DOMAIN tx' = StageSet
    BY <1>1, <2>1 DEF Batch
  <2>3. ASSUME NEW s \in StageSet, ~Flushed(s)' PROVE tx'[s] = tables'[s]
    <3>1. ~Flushed(s) /\ s # Stages[turn]
      BY <2>1, <2>3, FlushedGrows
    <3>2. tx'[s] = tx[s]
      BY <2>1, <2>2, <3>1
    <3>3. QED
      BY <2>1, <3>1, <3>2 DEF Batch
  <2>4. QED
    BY <1>1, <2>1, <2>2, <2>3 DEF Batch
<1>11. CASE Commit \/ CommitUnacked
  <2>1. ppc = "flush" /\ turn > Len(Stages) /\ tables' = tx /\ UNCHANGED <<log, mem, cursor>>
    BY <1>11 DEF Commit, CommitUnacked, CommitTables
  <2>2. DOMAIN tables' = StageSet
    BY <2>1 DEF Batch
  <2>3. CASE Commit
    BY <1>1, <2>1, <2>2, <2>3 DEF Commit, Batch
  <2>4. CASE CommitUnacked
    BY <1>1, <2>1, <2>2, <2>4 DEF CommitUnacked, EndBatch, Batch, ZeroTime
  <2>5. QED
    BY <1>11, <2>3, <2>4
<1>12. CASE Settle
  <2>1. ppc' = "idle" /\ hwm' = ZeroTime /\ tables' = tables /\ DOMAIN mem' = StageSet
    BY <1>12 DEF Settle, EndBatch
  <2>2. QED
    BY <1>1, <2>1 DEF Batch, ZeroTime
<1>13. CASE BeginFails \/ FlushFails \/ CommitFails
  <2>1. ppc' = "idle" /\ hwm' = ZeroTime /\ tables' = tables
    BY <1>13 DEF BeginFails, FlushFails, CommitFails, Abandon, EndBatch
  <2>2. DOMAIN mem' = StageSet
    BY <1>1, <1>13 DEF BeginFails, FlushFails, CommitFails
  <2>3. QED
    BY <1>1, <2>1, <2>2 DEF Batch, ZeroTime
<1>14. CASE Crash
  <2>1. /\ ppc' = "down" /\ hwm' = ZeroTime /\ tables' = tables
        /\ mem' = [s \in StageSet |-> EmptyMemory(s)]
    BY <1>14 DEF Crash, EndBatch
  <2>2. QED
    BY <1>1, <2>1 DEF Batch, ZeroTime
<1>15. QED
  BY <1>3, <1>4, <1>5, <1>6, <1>7, <1>8, <1>9, <1>10, <1>11, <1>12, <1>13, <1>14
     DEF Next, ProcessBatch

-----------------------------------------------------------------------------
(* A stage has been given the events behind the local cursor up to the r-th  *)
(* position, by the batch under way or by an earlier attempt at it: r never  *)
(* is beyond what the next attempt will fetch again.                         *)
Reached(r) ==
    /\ r \in Nat /\ cursor <= r /\ r <= Len(log) /\ r <= cursor + BatchSize
    /\ ppc = "apply" => pos - 1 <= r /\ r <= upto
    /\ ppc \in {"flush", "settle"} => r = upto
    /\ ppc = "down" => r = 0

(* How far the present attempt is. *)
Pass(r) == IF ppc = "apply" THEN pos - 1 ELSE r

(* What a step may be to stage s. *)
Quiet(s, r) ==
    /\ mem'[s] = mem[s] /\ tables'[s] = tables[s]
    /\ UNCHANGED <<dbCursor, cursor>>
    /\ Reached(r)'
    /\ Pass(r)' = Pass(r) \/ (Pass(r) = r /\ Pass(r)' = cursor)
    /\ ppc' = "apply" => ppc = "apply" \/ Pass(r)' = cursor
    /\ ppc' = "flush" => ppc = "apply" \/ (ppc = "flush" /\ (Flushed(s)' <=> Flushed(s)))
    /\ ppc' = "flush" /\ Flushed(s)' =>
         ppc = "flush" /\ Flushed(s) /\ tx'[s] = tx[s] /\ upto' = upto
    /\ ppc' # "settle" \/ ppc = "settle"

Takes(s, r) ==
    /\ ppc = "apply" /\ ppc' = "apply"
    /\ cursor < pos /\ pos \in 1..Len(log) /\ pos <= r + 1 /\ pos' = pos + 1
    /\ \/ log[pos].kind = "dropped" /\ mem'[s] = mem[s]
       \/ log[pos].kind # "dropped" /\ mem'[s] = Apply(s, mem[s], log[pos])
    /\ UNCHANGED <<log, tables, dbCursor, cursor>>
    /\ \E q \in {Later(r, pos)} : Reached(q)'

InTurn(s) ==
    /\ ppc = "flush" /\ turn \in DOMAIN Stages /\ s = Stages[turn]
    /\ ~Flushed(s) /\ tx[s] = tables[s]

Writes(s, r) ==
    /\ InTurn(s) /\ ppc' = "flush" /\ Flushed(s)'
    /\ mem'[s] = FlushMem(s, mem[s], Dirty(s, mem[s]))
    /\ tx'[s] = FlushTable(s, mem[s])
    /\ UNCHANGED <<log, tables, dbCursor, cursor, upto>>
    /\ Reached(r)'

Breaks(s, r) ==
    /\ InTurn(s) /\ ppc' = "idle"
    /\ mem'[s] \in LeftBehind(s, mem[s])
    /\ UNCHANGED <<log, tables, dbCursor, cursor>>
    /\ Reached(r)'

Commits(s, r) ==
    /\ ppc = "flush" /\ Flushed(s) /\ ppc' \in {"idle", "settle"}
    /\ tables'[s] = tx[s] /\ dbCursor' = upto
    /\ mem'[s] = mem[s] /\ UNCHANGED <<log, cursor>>
    /\ Reached(r)'

Settles(s, r) ==
    /\ ppc = "settle" /\ ppc' = "idle" /\ upto = dbCursor /\ r = upto
    /\ mem'[s] = IF hwm = ZeroTime THEN AfterNotify(s, mem[s])
                 ELSE Evict(s, AfterNotify(s, mem[s]), hwm)
    /\ hwm = ZeroTime => \A i \in (cursor + 1)..r : log[i].kind = "dropped"
    /\ UNCHANGED <<log, tables, dbCursor>> /\ cursor' = r
    /\ Reached(r)'

Restarts(s) ==
    /\ mem'[s] = EmptyMemory(s) /\ ppc' \in {"down", "idle"} /\ log' = log
    /\ \/ tables'[s] = tables[s] /\ dbCursor' = dbCursor
       \/ tables'[s] = EmptyTable(s) /\ dbCursor' = 0
    /\ \E q \in {cursor'} : Reached(q)'

LEMMA StageSteps ==
  ASSUME Loop, Batch, [Next]_vars, NEW s \in StageSet, NEW r, Reached(r)
  PROVE  \/ Quiet(s, r) \/ Takes(s, r) \/ Writes(s, r) \/ Breaks(s, r)
         \/ Commits(s, r) \/ Settles(s, r) \/ Restarts(s)
<1>1. /\ DOMAIN mem = StageSet /\ DOMAIN tables = StageSet /\ hwm \in Nat
      /\ cursor \in Nat /\ upto \in Nat /\ dbCursor \in Nat /\ Len(log) \in Nat
      /\ r \in Nat /\ BatchSize \in Nat
  BY DEF Batch, Loop, Reached
<1>2. CASE UNCHANGED vars
  BY <1>2 DEF vars, loopVars, Quiet, Reached, Pass, Flushed
<1>3. ASSUME NEW e \in EventSet, LogGrows(e) PROVE Quiet(s, r)
  <2>1. /\ UNCHANGED <<tables, tx, dbCursor, mem, cursor, ppc, upto, pos, turn>>
        /\ Len(log) <= Len(log')
    BY <1>3 DEF LogGrows, loopVars, Loop
  <2>2. Len(log') \in Nat
    BY <1>3 DEF LogGrows, Loop
  <2>3. Reached(r)'
    BY <1>1, <2>1, <2>2 DEF Reached
  <2>4. QED
    BY <2>1, <2>3 DEF Quiet, Pass, Flushed
<1>4. CASE Start
  <2>1. /\ ppc = "down" /\ ppc' = "idle" /\ cursor' = dbCursor
        /\ UNCHANGED <<log, tables, dbCursor, mem>>
    BY <1>4 DEF Start
  <2>2. mem'[s] = EmptyMemory(s)
    BY <2>1 DEF Batch
  <2>3. ASSUME NEW q \in {cursor'} PROVE Reached(q)'
    BY <1>1, <2>1, <2>3 DEF Reached, Loop
  <2>4. QED
    BY <2>1, <2>2, <2>3 DEF Restarts
<1>5. CASE Reset
  <2>1. /\ ppc = "down" /\ ppc' = "down" /\ cursor' = cursor /\ dbCursor' = 0 /\ log' = log
        /\ tables'[s] = EmptyTable(s) /\ mem'[s] = EmptyMemory(s)
    BY <1>5 DEF Reset, loopVars
  <2>2. ASSUME NEW q \in {cursor'} PROVE Reached(q)'
    BY <1>1, <2>1, <2>2 DEF Reached, Loop
  <2>3. QED
    BY <2>1, <2>2 DEF Restarts
<1>6. CASE Fetch
  <2>1. /\ ppc = "idle" /\ ppc' = "apply" /\ pos' = cursor + 1
        /\ upto' = Earlier(cursor + BatchSize, Len(log)) /\ cursor < Len(log)
        /\ UNCHANGED <<log, tables, dbCursor, mem, cursor>>
    BY <1>6 DEF Fetch
  <2>2. Reached(r)'
    BY <1>1, <2>1 DEF Reached, Earlier
  <2>3. QED
    BY <1>1, <2>1, <2>2 DEF Quiet, Pass
<1>7. CASE ApplyEvent
  <2>1. /\ ppc = "apply" /\ pos <= upto /\ pos' = pos + 1 /\ pos \in Nat /\ cursor < pos
        /\ UNCHANGED <<log, tables, dbCursor, cursor, ppc, upto>>
        /\ upto <= Len(log) /\ upto <= cursor + BatchSize
    BY <1>7 DEF ApplyEvent, Batch, Loop
  <2>2. pos \in 1..Len(log) /\ pos <= r + 1
    BY <1>1, <2>1 DEF Reached
  <2>3. \/ log[pos].kind = "dropped" /\ mem'[s] = mem[s]
        \/ log[pos].kind # "dropped" /\ mem'[s] = Apply(s, mem[s], log[pos])
    BY <1>7 DEF ApplyEvent
  <2>4. ASSUME NEW q \in {Later(r, pos)} PROVE Reached(q)'
    BY <1>1, <2>1, <2>4 DEF Reached, Later
  <2>5. QED
    BY <2>1, <2>2, <2>3, <2>4 DEF Takes
<1>8. CASE Begin
  <2>1. /\ ppc = "apply" /\ pos > upto /\ turn' = 1 /\ ppc' = "flush"
        /\ UNCHANGED <<log, tables, dbCursor, mem, cursor, upto, pos>>
    BY <1>8 DEF Begin
  <2>2. pos = upto + 1 /\ r = upto
    BY <1>1, <2>1 DEF Batch, Reached
  <2>3. ~Flushed(s)'
    BY <2>1 DEF Flushed
  <2>4. Reached(r)'
    BY <1>1, <2>1, <2>2 DEF Reached
  <2>5. QED
    BY <1>1, <2>1, <2>2, <2>3, <2>4 DEF Quiet, Pass
<1>9. CASE FlushStage
  <2> DEFINE st == Stages[turn]
  <2>1. /\ ppc = "flush" /\ turn <= Len(Stages) /\ turn' = turn + 1
        /\ mem' = [mem EXCEPT ![st] = FlushMem(st, mem[st], Dirty(st, mem[st]))]
        /\ tx' = [tx EXCEPT ![st] = FlushTable(st, mem[st])]
        /\ UNCHANGED <<log, tables, dbCursor, cursor, ppc, upto>>
    BY <1>9 DEF FlushStage
  <2>2. turn \in DOMAIN Stages /\ ~Flushed(st) /\ DOMAIN tx = StageSet
    BY <2>1, TurnIsStage DEF Batch
  <2>3. Flushed(s)' <=> Flushed(s) \/ s = st
    BY <2>1, FlushedGrows
  <2>4. Reached(r)'
    BY <2>1 DEF Reached
  <2>5. CASE s = st
    <3>1. tx[s] = tables[s]
      BY <2>1, <2>2, <2>5 DEF Batch
    <3>2. InTurn(s)
      BY <2>1, <2>2, <2>5, <3>1 DEF InTurn
    <3>3. /\ mem'[s] = FlushMem(s, mem[s], Dirty(s, mem[s]))
          /\ tx'[s] = FlushTable(s, mem[s])
      BY <1>1, <2>1, <2>2, <2>5
    <3>4. QED
      BY <2>1, <2>3, <2>4, <2>5, <3>2, <3>3 DEF Writes
  <2>6. CASE s # st
    <3>1. mem'[s] = mem[s] /\ tx'[s] = tx[s]
      BY <1>1, <2>1, <2>2, <2>6
    <3>2. QED
      BY <2>1, <2>3, <2>4, <2>6, <3>1 DEF Quiet, Pass
  <2>7. QED
    BY <2>5, <2>6
<1>10. CASE Commit \/ CommitUnacked
  <2>1. /\ ppc = "flush" /\ turn > Len(Stages) /\ tables' = tx /\ dbCursor' = upto
        /\ UNCHANGED <<log, mem, cursor>> /\ ppc' \in {"idle", "settle"}
        /\ ppc' = "settle" => upto' = upto
    BY <1>10 DEF Commit, CommitUnacked, CommitTables
  <2>2. Flushed(s)
    BY <2>1, AllFlushed
  <2>3. Reached(r)'
    BY <2>1 DEF Reached
  <2>4. QED
    BY <2>1, <2>2, <2>3 DEF Commits
<1>11. CASE Settle
  <2>1. /\ ppc = "settle" /\ ppc' = "idle" /\ cursor' = upto
        /\ UNCHANGED <<log, tables, dbCursor>>
        /\ mem'[s] = IF hwm = ZeroTime THEN AfterNotify(s, mem[s])
                     ELSE Evict(s, AfterNotify(s, mem[s]), hwm)
    BY <1>11 DEF Settle
  <2>2. r = upto /\ upto = dbCursor /\ pos = upto + 1
    BY <2>1 DEF Reached, Loop, Batch
  <2>3. hwm = ZeroTime => \A i \in (cursor + 1)..r : log[i].kind = "dropped"
    BY <1>1, <2>1, <2>2 DEF Batch
  <2>4. Reached(r)'
    BY <1>1, <2>1, <2>2 DEF Reached
  <2>5. QED
    BY <2>1, <2>2, <2>3, <2>4 DEF Settles
<1>12. CASE BeginFails \/ CommitFails
  <2>1. /\ ppc' = "idle" /\ UNCHANGED <<log, tables, dbCursor, cursor, mem>>
        /\ ppc = "flush" \/ (ppc = "apply" /\ pos > upto)
    BY <1>12 DEF BeginFails, CommitFails, Abandon
  <2>2. Reached(r)'
    BY <2>1 DEF Reached
  <2>3. Pass(r) = r
    BY <1>1, <2>1 DEF Pass, Reached, Batch
  <2>4. QED
    BY <2>1, <2>2, <2>3 DEF Quiet, Pass
<1>13. CASE FlushFails
  <2> DEFINE st == Stages[turn]
  <2>1. PICK left \in LeftBehind(st, mem[st]) : mem' = [mem EXCEPT ![st] = left]
    BY <1>13 DEF FlushFails
  <2>2. /\ ppc = "flush" /\ turn <= Len(Stages) /\ ppc' = "idle"
        /\ UNCHANGED <<log, tables, dbCursor, cursor>>
    BY <1>13 DEF FlushFails, Abandon
  <2>3. turn \in DOMAIN Stages /\ ~Flushed(st)
    BY <2>2, TurnIsStage
  <2>4. Reached(r)'
    BY <2>2 DEF Reached
  <2>5. CASE s = st
    <3>1. InTurn(s)
      BY <2>2, <2>3, <2>5 DEF InTurn, Batch
    <3>2. mem'[s] \in LeftBehind(s, mem[s])
      BY <1>1, <2>1, <2>5
    <3>3. QED
      BY <2>2, <2>4, <3>1, <3>2 DEF Breaks
  <2>6. CASE s # st
    <3>1. mem'[s] = mem[s]
      BY <1>1, <2>1, <2>6
    <3>2. QED
      BY <2>2, <2>4, <3>1 DEF Quiet, Pass
  <2>7. QED
    BY <2>5, <2>6
<1>14. CASE Crash
  <2>1. /\ ppc' = "down" /\ cursor' = 0 /\ UNCHANGED <<log, tables, dbCursor>>
        /\ mem'[s] = EmptyMemory(s)
    BY <1>14 DEF Crash
  <2>2. ASSUME NEW q \in {cursor'} PROVE Reached(q)'
    BY <1>1, <2>1, <2>2 DEF Reached
  <2>3. QED
    BY <2>1, <2>2 DEF Restarts
<1>15. QED
  BY <1>2, <1>3, <1>4, <1>5, <1>6, <1>7, <1>8, <1>9, <1>10, <1>11, <1>12, <1>13, <1>14
     DEF Next, ProcessBatch

-----------------------------------------------------------------------------
LEMMA ConsumerInit == Init => Abstract!Init
  BY DEF Init, Abstract!Init, Projected

(* A committed batch consumes the rows behind the durable cursor. *)
LEMMA CommitConsumes ==
  ASSUME Loop, CommitTables
  PROVE  Abstract!Consume
<1>1. /\ log' = log /\ dbCursor' = upto
      /\ dbCursor \in Nat /\ upto \in Nat /\ Len(log) \in Nat
      /\ dbCursor <= upto /\ upto <= Len(log)
  BY DEF Loop, CommitTables
<1> DEFINE rows == (dbCursor + 1)..upto
<1>2. rows \in SUBSET ((1..Len(log)) \ Projected)
  BY <1>1 DEF Projected
<1>3. Projected' = Projected \cup rows
  BY <1>1 DEF Projected
<1>4. \A i \in Projected \cup rows, j \in (1..Len(log)) \ (Projected \cup rows) : i < j
  BY <1>1 DEF Projected
<1>5. QED
  BY <1>1, <1>2, <1>3, <1>4 DEF Abstract!Consume

(* The loop implements the abstract log consumer: the durable cursor takes  *)
(* the log from the front and leaves nothing out, through every fault; only *)
(* a reset goes back.                                                       *)
THEOREM ConsumesLogHolds == Spec => ConsumesLog
<1>1. ASSUME Loop, [Next]_vars
      PROVE  [Abstract!Next]_<<1..Len(log), Projected>>
  <2>1. CASE UNCHANGED <<log, dbCursor>>
    BY <2>1 DEF Projected
  <2>2. ASSUME NEW e \in EventSet, LogGrows(e) PROVE Abstract!AppendRows
    <3>1. /\ Len(log') = Len(log) + 1 /\ Len(log') <= MaxLog /\ Len(log) \in Nat
          /\ dbCursor' = dbCursor
      BY <1>1, <2>2 DEF LogGrows, Loop
    <3> DEFINE rows == {Len(log) + 1}
    <3>2. rows \in SUBSET ((1..MaxLog) \ (1..Len(log)))
      BY <3>1
    <3>3. 1..Len(log') = (1..Len(log)) \cup rows
      BY <3>1
    <3>4. \A old \in 1..Len(log), new \in rows : old < new
      BY <3>1
    <3>5. Projected' = Projected
      BY <3>1 DEF Projected
    <3>6. QED
      BY <3>2, <3>3, <3>4, <3>5 DEF Abstract!AppendRows
  <2>3. CASE CommitTables
    BY <1>1, <2>3, CommitConsumes DEF Abstract!Next
  <2>4. CASE Reset
    <3>1. Projected' = {} /\ log' = log
      BY <2>4 DEF Reset, Projected
    <3>2. QED
      BY <3>1 DEF Abstract!Next, Abstract!Rewind
  <2>5. CASE UNCHANGED vars
    BY <2>1, <2>5 DEF vars
  <2>6. CASE \/ Start \/ Fetch \/ ApplyEvent \/ Begin \/ FlushStage \/ Settle
             \/ BeginFails \/ FlushFails \/ CommitFails \/ Crash
    BY <2>1, <2>6 DEF Start, Fetch, ApplyEvent, Begin, FlushStage, Settle, BeginFails,
       FlushFails, CommitFails, Abandon, Crash
  <2>7. QED
    BY <1>1, <2>2, <2>3, <2>4, <2>5, <2>6
       DEF Next, ProcessBatch, Commit, CommitUnacked, Abstract!Next
<1>2. QED
  BY <1>1, ConsumerInit, LoopHolds, PTL DEF Spec, ConsumesLog, Abstract!Spec

-----------------------------------------------------------------------------
(* The buffer of the packet_observations stage, and whether the open        *)
(* transaction already holds its rows.                                      *)
Buffer == mem["packet_observations"]
Copied == \E i \in DOMAIN Stages : i < turn /\ Stages[i] = "packet_observations"

(* The count that Notify will send never exceeds what the transaction adds: *)
(* it is set by the same Flush that copies the buffer, and a count left by  *)
(* a failed batch is covered by the buffer that the batch left as well.     *)
Announced ==
    /\ DOMAIN mem = StageSet
    /\ Buffer \in [buf : Seq(EventSet), count : Nat]
    /\ Buffer.count <= Len(Buffer.buf)
    /\ DOMAIN tables = StageSet
    /\ Observations \in Seq(EventSet)
    /\ told \in Nat
    /\ told <= Len(Observations)
    /\ ppc = "apply" => pos \in Nat \ {0}
    /\ ppc = "flush" =>
         /\ turn \in Nat \ {0}
         /\ DOMAIN tx = StageSet
         /\ tx["packet_observations"] \in Seq(EventSet)
         /\ Len(Observations) <= Len(tx["packet_observations"])
         /\ Copied => Len(Observations) + Buffer.count <= Len(tx["packet_observations"])
    /\ ppc = "settle" => told + Buffer.count <= Len(Observations)

LEMMA Listed == "packet_observations" \in StageSet
  BY DEF StageSet

LEMMA AnnouncedInit == Init => Announced
<1> SUFFICES ASSUME Init PROVE Announced
  OBVIOUS
<1>1. Buffer = [buf |-> <<>>, count |-> 0] /\ Observations = <<>>
  BY Listed DEF Init, Buffer, Observations, EmptyMemory, EmptyTable, ObservationsEmpty
<1>2. QED
  BY <1>1 DEF Init, Announced

(* Apply keeps the count covered by the buffer. *)
LEMMA ApplyBuffers ==
  ASSUME NEW m \in [buf : Seq(EventSet), count : Nat], NEW e \in EventSet,
         m.count <= Len(m.buf)
  PROVE  /\ ObservationsApply(m, e) \in [buf : Seq(EventSet), count : Nat]
         /\ ObservationsApply(m, e).count <= Len(ObservationsApply(m, e).buf)
<1>1. CASE IsPacket(e)
  <2>1. /\ Append(m.buf, e) \in Seq(EventSet)
        /\ Len(Append(m.buf, e)) = Len(m.buf) + 1
    OBVIOUS
  <2>2. ObservationsApply(m, e) = [buf |-> Append(m.buf, e), count |-> m.count]
    BY <1>1 DEF ObservationsApply
  <2>3. QED
    BY <2>1, <2>2
<1>2. CASE ~IsPacket(e)
  BY <1>2 DEF ObservationsApply
<1>3. QED
  BY <1>1, <1>2

(* Flush sets the count to no more than the rows it copies. *)
LEMMA FlushCopies ==
  ASSUME NEW m \in [buf : Seq(EventSet), count : Nat], m.count <= Len(m.buf),
         NEW table \in Seq(EventSet)
  PROVE  /\ ObservationsFlushMem(m) \in [buf : Seq(EventSet), count : Nat]
         /\ ObservationsFlushMem(m).count <= Len(ObservationsFlushMem(m).buf)
         /\ ObservationsFlushMem(m).buf = m.buf
         /\ ObservationsFlushTable(m, table) \in Seq(EventSet)
         /\ Len(ObservationsFlushTable(m, table)) = Len(table) + Len(m.buf)
<1>1. CASE m.buf = <<>>
  BY <1>1 DEF ObservationsFlushMem, ObservationsFlushTable
<1>2. CASE m.buf # <<>>
  <2>1. ObservationsFlushMem(m) = [buf |-> m.buf, count |-> Len(m.buf)]
    BY <1>2 DEF ObservationsFlushMem
  <2>2. QED
    BY <2>1 DEF ObservationsFlushTable
<1>3. QED
  BY <1>1, <1>2

LEMMA AnnouncedStep == Loop /\ Announced /\ [Next]_vars => Announced'
<1> SUFFICES ASSUME Loop, Announced, [Next]_vars PROVE Announced'
  OBVIOUS
<1> DEFINE obs == "packet_observations"
<1>0. /\ obs \in StageSet /\ DOMAIN mem = StageSet /\ DOMAIN tables = StageSet
      /\ mem[obs] \in [buf : Seq(EventSet), count : Nat]
      /\ mem[obs].count <= Len(mem[obs].buf)
      /\ tables[obs] \in Seq(EventSet) /\ told \in Nat /\ told <= Len(tables[obs])
  BY Listed DEF Announced, Buffer, Observations
(* Steps that touch neither the stages' memory nor the tables. *)
<1>1. ASSUME UNCHANGED <<mem, tables, told>>, ppc' \in {"down", "idle"} PROVE Announced'
  BY <1>0, <1>1 DEF Announced, Buffer, Observations
<1>2. ASSUME UNCHANGED <<tables, mem, told, ppc, pos, turn, tx>> PROVE Announced'
  BY <1>2 DEF Announced, Buffer, Observations, Copied
<1>3. CASE UNCHANGED vars \/ \E e \in EventSet : LogGrows(e)
  BY <1>2, <1>3 DEF vars, LogGrows, loopVars
<1>4. CASE Start \/ BeginFails \/ CommitFails
  BY <1>1, <1>4 DEF Start, BeginFails, CommitFails, Abandon
<1>5. CASE Fetch
  <2>1. ppc' = "apply" /\ pos' \in Nat \ {0} /\ UNCHANGED <<mem, tables, told>>
    BY <1>5 DEF Fetch, Loop
  <2>2. QED
    BY <1>0, <2>1 DEF Announced, Buffer, Observations
<1>6. CASE Reset
  <2>1. /\ mem' = [s \in StageSet |-> EmptyMemory(s)] /\ told' = 0 /\ ppc' = "down"
        /\ tables' = [s \in StageSet |-> EmptyTable(s)]
    BY <1>6 DEF Reset, loopVars
  <2>2. mem'[obs] = [buf |-> <<>>, count |-> 0] /\ tables'[obs] = <<>>
    BY <1>0, <2>1 DEF EmptyMemory, EmptyTable, ObservationsEmpty
  <2>3. /\ mem'[obs] \in [buf : Seq(EventSet), count : Nat]
        /\ mem'[obs].count <= Len(mem'[obs].buf)
    BY <2>2
  <2>4. tables'[obs] \in Seq(EventSet) /\ told' <= Len(tables'[obs])
    <3>1. Len(tables'[obs]) = 0 /\ told' = 0 /\ tables'[obs] = <<>>
      BY <2>1, <2>2
    <3>2. QED
      BY <3>1
  <2>5. QED
    BY <2>1, <2>3, <2>4 DEF Announced, Buffer, Observations
<1>7. CASE ApplyEvent
  <2>1. /\ ppc = "apply" /\ pos \in 1..Len(log) /\ pos' = pos + 1
        /\ UNCHANGED <<tables, ppc, told>>
    BY <1>7 DEF ApplyEvent, Loop, Announced
  <2>2. CASE UNCHANGED mem
    BY <1>0, <2>1, <2>2 DEF Announced, Buffer, Observations
  <2>3. CASE mem' = [s \in StageSet |-> Apply(s, mem[s], log[pos])]
    <3>1. log[pos] \in EventSet
      BY <2>1 DEF Loop
    <3>2. mem'[obs] = ObservationsApply(mem[obs], log[pos])
      BY <1>0, <2>3 DEF Apply
    <3>3. /\ mem'[obs] \in [buf : Seq(EventSet), count : Nat]
          /\ mem'[obs].count <= Len(mem'[obs].buf)
      BY <1>0, <3>1, <3>2, ApplyBuffers
    <3>4. QED
      BY <1>0, <2>1, <2>3, <3>3 DEF Announced, Buffer, Observations
  <2>4. QED
    BY <1>7, <2>2, <2>3 DEF ApplyEvent
<1>8. CASE Begin
  <2>1. /\ ppc' = "flush" /\ tx' = tables /\ turn' = 1
        /\ UNCHANGED <<mem, tables, told>>
    BY <1>8 DEF Begin
  <2>2. ~Copied'
    BY <2>1, PipelineAssumption DEF Copied
  <2>3. QED
    BY <1>0, <2>1, <2>2 DEF Announced, Buffer, Observations
<1>9. CASE FlushStage
  <2> DEFINE st == Stages[turn]
  <2>1. /\ ppc = "flush" /\ turn <= Len(Stages)
        /\ mem' = [mem EXCEPT ![st] = FlushMem(st, mem[st], Dirty(st, mem[st]))]
        /\ tx' = [tx EXCEPT ![st] = FlushTable(st, mem[st])]
        /\ turn' = turn + 1 /\ ppc' = "flush" /\ UNCHANGED <<tables, told>>
    BY <1>9 DEF FlushStage
  <2>2. /\ turn \in Nat \ {0} /\ DOMAIN tx = StageSet
        /\ tx[obs] \in Seq(EventSet) /\ Len(tables[obs]) <= Len(tx[obs])
        /\ Copied => Len(tables[obs]) + mem[obs].count <= Len(tx[obs])
    BY <2>1 DEF Announced, Buffer, Observations
  <2>3. DOMAIN mem' = StageSet /\ DOMAIN tx' = StageSet /\ turn' \in Nat \ {0}
    BY <1>0, <2>1, <2>2
  <2>4. CASE st = obs
    <3>1. mem'[obs] = ObservationsFlushMem(mem[obs])
      BY <1>0, <2>1, <2>4 DEF FlushMem
    <3>2. tx'[obs] = ObservationsFlushTable(mem[obs], tx[obs])
      BY <1>0, <2>1, <2>2, <2>4 DEF FlushTable
    <3>3. /\ mem'[obs] \in [buf : Seq(EventSet), count : Nat]
          /\ mem'[obs].count <= Len(mem'[obs].buf)
          /\ mem'[obs].buf = mem[obs].buf
          /\ tx'[obs] \in Seq(EventSet)
          /\ Len(tx'[obs]) = Len(tx[obs]) + Len(mem[obs].buf)
      <4>1. /\ mem[obs] \in [buf : Seq(EventSet), count : Nat]
            /\ mem[obs].count <= Len(mem[obs].buf)
            /\ tx[obs] \in Seq(EventSet)
        BY <1>0, <2>2
      <4>2. /\ ObservationsFlushMem(mem[obs]) \in [buf : Seq(EventSet), count : Nat]
            /\ ObservationsFlushMem(mem[obs]).count
                 <= Len(ObservationsFlushMem(mem[obs]).buf)
            /\ ObservationsFlushMem(mem[obs]).buf = mem[obs].buf
            /\ ObservationsFlushTable(mem[obs], tx[obs]) \in Seq(EventSet)
            /\ Len(ObservationsFlushTable(mem[obs], tx[obs]))
                 = Len(tx[obs]) + Len(mem[obs].buf)
        BY <4>1, FlushCopies
      <4>3. QED
        BY <3>1, <3>2, <4>2
    <3>4. Len(tables[obs]) + mem'[obs].count <= Len(tx'[obs])
      BY <1>0, <2>2, <3>3
    <3>5. Len(tables[obs]) <= Len(tx'[obs])
      BY <1>0, <2>2, <3>3
    <3>6. QED
      BY <1>0, <2>1, <2>3, <3>3, <3>4, <3>5 DEF Announced, Buffer, Observations
  <2>5. CASE st # obs
    <3>1. mem'[obs] = mem[obs] /\ tx'[obs] = tx[obs]
      BY <1>0, <2>1, <2>2, <2>5
    <3>2. Copied' => Copied
      BY <2>1, <2>2, <2>5 DEF Copied
    <3>3. QED
      BY <1>0, <2>1, <2>2, <2>3, <3>1, <3>2 DEF Announced, Buffer, Observations
  <2>6. QED
    BY <2>4, <2>5
<1>10. CASE FlushFails
  <2> DEFINE st == Stages[turn]
  <2>1. PICK left \in LeftBehind(st, mem[st]) : mem' = [mem EXCEPT ![st] = left]
    BY <1>10 DEF FlushFails
  <2>2. ppc' = "idle" /\ UNCHANGED <<tables, told>>
    BY <1>10 DEF FlushFails, Abandon
  <2>3. mem'[obs] = mem[obs] /\ DOMAIN mem' = StageSet
    <3>1. CASE st = obs
      <4>1. Interrupted(obs, mem[obs]) = {mem[obs]} /\ Dirty(obs, mem[obs]) = {}
        BY DEF Interrupted, Dirty
      <4>2. (SUBSET {}) \ {{}} = {}
        OBVIOUS
      <4>3. left = mem[obs]
        BY <2>1, <3>1, <4>1, <4>2 DEF LeftBehind
      <4>4. QED
        BY <1>0, <2>1, <3>1, <4>3
    <3>2. CASE st # obs
      BY <1>0, <2>1, <3>2
    <3>3. QED
      BY <3>1, <3>2
  <2>4. QED
    BY <1>0, <2>2, <2>3 DEF Announced, Buffer, Observations
<1>11. CASE CommitTables /\ UNCHANGED mem /\ ppc' \in {"idle", "settle"}
  <2>1. /\ ppc = "flush" /\ turn > Len(Stages) /\ tables' = tx
        /\ UNCHANGED <<mem, told>>
    BY <1>11 DEF CommitTables
  <2>2. /\ turn \in Nat \ {0} /\ DOMAIN tx = StageSet
        /\ tx[obs] \in Seq(EventSet) /\ Len(tables[obs]) <= Len(tx[obs])
        /\ Copied => Len(tables[obs]) + mem[obs].count <= Len(tx[obs])
    BY <2>1 DEF Announced, Buffer, Observations
  <2>3. Copied
    <3>1. PICK i \in DOMAIN Stages : Stages[i] = obs
      BY Listed, PipelineAssumption DEF StageSet, RowsOf
    <3>2. i < turn
      BY <2>1, <2>2, <3>1, PipelineAssumption
    <3>3. QED
      BY <3>1, <3>2 DEF Copied
  <2>4. told + mem[obs].count <= Len(tx[obs]) /\ told <= Len(tx[obs])
    BY <1>0, <2>2, <2>3
  <2>5. QED
    BY <1>0, <1>11, <2>1, <2>2, <2>4 DEF Announced, Buffer, Observations
<1>12. CASE Commit \/ CommitUnacked
  BY <1>11, <1>12 DEF Commit, CommitUnacked, CommitTables
<1>13. CASE Settle
  <2>1. /\ ppc = "settle" /\ ppc' = "idle" /\ told' = told + mem[obs].count
        /\ UNCHANGED tables
    BY <1>13 DEF Settle, ObservationsAnnounced
  <2>2. /\ DOMAIN mem' = StageSet
        /\ mem'[obs] = IF hwm = ZeroTime THEN AfterNotify(obs, mem[obs])
                       ELSE Evict(obs, AfterNotify(obs, mem[obs]), hwm)
    BY <1>0, <1>13 DEF Settle
  <2>3. told' \in Nat /\ told' <= Len(tables'[obs])
    BY <1>0, <2>1 DEF Announced, Buffer, Observations
  <2>4. CASE hwm = ZeroTime
    <3>1. mem'[obs] = mem[obs]
      BY <2>2, <2>4 DEF AfterNotify
    <3>2. QED
      BY <1>0, <2>1, <2>2, <2>3, <3>1 DEF Announced, Buffer, Observations
  <2>5. CASE hwm # ZeroTime
    <3>1. mem'[obs] = [buf |-> <<>>, count |-> 0]
      BY <2>2, <2>5 DEF Evict, ObservationsEvict, ObservationsEmpty
    <3>2. /\ mem'[obs] \in [buf : Seq(EventSet), count : Nat]
          /\ mem'[obs].count <= Len(mem'[obs].buf)
      BY <3>1
    <3>3. QED
      BY <1>0, <2>1, <2>2, <2>3, <3>2 DEF Announced, Buffer, Observations
  <2>6. QED
    BY <2>4, <2>5
<1>14. CASE Crash
  <2>1. /\ ppc' = "down" /\ UNCHANGED <<tables, told>>
        /\ mem' = [s \in StageSet |-> EmptyMemory(s)]
    BY <1>14 DEF Crash
  <2>2. DOMAIN mem' = StageSet /\ mem'[obs] = [buf |-> <<>>, count |-> 0]
    BY <1>0, <2>1 DEF EmptyMemory, ObservationsEmpty
  <2>3. /\ mem'[obs] \in [buf : Seq(EventSet), count : Nat]
        /\ mem'[obs].count <= Len(mem'[obs].buf)
    BY <2>2
  <2>4. QED
    BY <1>0, <2>1, <2>3 DEF Announced, Buffer, Observations
<1>15. QED
  BY <1>3, <1>4, <1>5, <1>6, <1>7, <1>8, <1>9, <1>10, <1>12, <1>13, <1>14
     DEF Next, ProcessBatch

(* The browser is never told of more packet rows than the table has,        *)
(* whatever batches fail, lose their acknowledgement or are cut by a crash. *)
THEOREM AnnouncedHolds == Spec => []AnnouncedAreCommitted
<1>1. Announced => AnnouncedAreCommitted
  BY DEF Announced, AnnouncedAreCommitted
<1>2. QED
  BY <1>1, LoopInit, LoopStep, AnnouncedInit, AnnouncedStep, PTL DEF Spec
=============================================================================

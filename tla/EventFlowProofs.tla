--------------------------- MODULE EventFlowProofs --------------------------
(***************************************************************************)
(* Theorems about EventFlow, for every number of replicas, messages, ids   *)
(* and faults unless an assumption says otherwise; the second part is about *)
(* where a message is: what a single ingest replica stores and loses, for  *)
(* any sizes of batches and channels.                                      *)
(***************************************************************************)
EXTENDS EventFlow, FiniteSetTheorems, TLAPS

(* Ids are drawn for messages of the batch, never for more: this makes the  *)
(* types inductive, since a row's message is looked up by the id's position. *)
DrawnForBatch == \A r \in Replica : Len(ids[r]) <= Len(batch[r])

Typed == TypeOK /\ DrawnForBatch

USE RawLogAssumption, IngestAssumption, ProjectorAssumption

LEMMA TypedInit == Init => Typed
  BY DEF Init, RawLogInit, IngestInit, ProjectorInit, Typed, TypeOK,
         RawLogTypeOK, IngestTypeOK, ProjectorTypeOK, DrawnForBatch, Ids, Msgs, NoMsg

(* The rows a replica writes carry messages of its batch. *)
LEMMA WithBatchType ==
  ASSUME Typed, NEW r \in Replica
  PROVE  WithBatch(r) \in [Ids -> Msgs \cup {NoMsg}]
<1>1. SUFFICES ASSUME NEW i \in Ids, \E k \in DOMAIN ids[r] : ids[r][k] = i
               PROVE  batch[r][CHOOSE k \in DOMAIN ids[r] : ids[r][k] = i] \in Msgs
  BY DEF WithBatch, Typed, TypeOK, RawLogTypeOK
<1>2. PICK k \in DOMAIN ids[r] :
          k = CHOOSE n \in DOMAIN ids[r] : ids[r][n] = i
  BY <1>1
<1>3. /\ ids[r] \in Seq(Ids)
      /\ batch[r] \in Seq(Msgs)
      /\ Len(ids[r]) <= Len(batch[r])
  BY DEF Typed, TypeOK, IngestTypeOK, DrawnForBatch
<1>4. k \in 1..Len(batch[r])
  BY <1>2, <1>3
<1>5. QED
  BY <1>2, <1>3, <1>4

LEMMA TypedIngest == Typed /\ IngestNext /\ UNCHANGED projectorVars => Typed'
<1> SUFFICES ASSUME Typed, IngestNext, UNCHANGED projectorVars PROVE Typed'
  OBVIOUS
<1> USE DEF Typed, TypeOK, RawLogTypeOK, IngestTypeOK, ProjectorTypeOK, DrawnForBatch,
            logVars, projectorVars
<1>1. PICK r \in Replica :
         \/ \E m \in Msgs : Receive(r, m)
         \/ IngestStep(r)
         \/ Cancel(r) \/ Crash(r) \/ Restart(r)
  BY DEF IngestNext
<1>2. ASSUME NEW m \in Msgs, Receive(r, m) PROVE Typed'
  BY <1>2 DEF Receive
<1>3. CASE TakeMsg(r)
  <2>1. Head(chan[r]) \in Msgs /\ Tail(chan[r]) \in Seq(Msgs)
    BY <1>3 DEF TakeMsg
  <2>2. QED
    BY <1>3, <2>1 DEF TakeMsg
<1>4. CASE TimerFires(r)
  BY <1>4 DEF TimerFires
<1>5. CASE NextVal(r)
  <2>1. seq + 1 \in Ids
    BY <1>5 DEF NextVal, Ids
  <2>2. QED
    BY <1>5, <2>1 DEF NextVal
<1>6. CASE ReserveFails(r)
  BY <1>6 DEF ReserveFails, EndFlush, Fault
<1>7. CASE Copy(r)
  BY <1>7, WithBatchType DEF Copy
<1>8. CASE CopyFails(r)
  BY <1>8, WithBatchType DEF CopyFails, EndFlush, Fault
<1>9. CASE Publish(r)
  BY <1>9 DEF Publish, EndFlush, Notify
<1>10. CASE PublishFails(r)
  BY <1>10 DEF PublishFails, EndFlush, Fault
<1>11. CASE Stop(r)
  BY <1>11 DEF Stop, EndFlush
<1>12. CASE Cancel(r)
  BY <1>12 DEF Cancel, Fault
<1>13. CASE Crash(r)
  BY <1>13 DEF Crash, EndFlush, Fault
<1>14. CASE Restart(r)
  BY <1>14 DEF Restart
<1>15. QED
  BY <1>1, <1>2, <1>3, <1>4, <1>5, <1>6, <1>7, <1>8, <1>9, <1>10, <1>11, <1>12, <1>13, <1>14
     DEF IngestStep

LEMMA TypedProjector == Typed /\ ProjectorNext /\ UNCHANGED ingestVars => Typed'
<1> SUFFICES ASSUME Typed, ProjectorNext, UNCHANGED ingestVars PROVE Typed'
  OBVIOUS
<1> USE DEF Typed, TypeOK, RawLogTypeOK, IngestTypeOK, ProjectorTypeOK, DrawnForBatch,
            logVars, ingestVars, projectorVars, Ids
<1>1. CASE Start
  BY <1>1 DEF Start
<1>2. CASE StartFails
  BY <1>2 DEF StartFails, Fault
<1>3. CASE Reset
  BY <1>3 DEF Reset, Fault
<1>4. CASE Fetch
  BY <1>4 DEF Fetch, Unseen, Committed
<1>5. CASE FetchFails
  BY <1>5 DEF FetchFails, Fault
<1>6. CASE Process
  BY <1>6 DEF Process, Project
<1>7. CASE ProcessFails
  BY <1>7 DEF ProcessFails, Fault
<1>8. CASE ProcessUnacked
  BY <1>8 DEF ProcessUnacked, Project, Fault
<1>9. CASE Connect
  BY <1>9 DEF Connect
<1>10. CASE Notified
  BY <1>10 DEF Notified
<1>11. CASE SessionLost
  BY <1>11 DEF SessionLost, Fault
<1>12. CASE ProjectorCrash
  BY <1>12 DEF ProjectorCrash, Fault
<1>13. QED
  BY <1>1, <1>2, <1>3, <1>4, <1>5, <1>6, <1>7, <1>8, <1>9, <1>10, <1>11, <1>12
     DEF ProjectorNext, ProjectorStep

LEMMA TypedStep == Typed /\ [Next]_vars => Typed'
<1> SUFFICES ASSUME Typed, [Next]_vars PROVE Typed'
  OBVIOUS
<1>1. CASE UNCHANGED vars
  BY <1>1 DEF vars, logVars, ingestVars, projectorVars, Typed, TypeOK, RawLogTypeOK,
              IngestTypeOK, ProjectorTypeOK, DrawnForBatch
<1>2. QED
  BY <1>1, TypedIngest, TypedProjector DEF Next

LEMMA Typing == Spec => []Typed
  BY TypedInit, TypedStep, PTL DEF Spec

(* Every variable of the composed system keeps its type; in particular the  *)
(* cursors stay within the ids the sequence can hand out.                   *)
THEOREM TypeCorrect == Spec => []TypeOK
<1>1. Typed => TypeOK
  BY DEF Typed
<1>2. QED
  BY <1>1, Typing, PTL

-----------------------------------------------------------------------------
(* NoSkip is not inductive by itself.  What makes it hold is that rows      *)
(* appear in id order, and they do so when one replica alone writes.        *)
SingleReplica == \A r, s \in Replica : r = s

(* Ids reserved and not yet written are above every row, hence above the    *)
(* cursor; outside a flush there are none.                                  *)
ReservedAhead ==
    \A r \in Replica : ipc[r] # "publish" =>
        \A k \in DOMAIN ids[r] :
            /\ ids[r][k] <= seq
            /\ \A i \in Committed : i < ids[r][k]

(* Both cursors and the fetched batch name committed rows; a projector that *)
(* is down remembers neither.                                               *)
CursorsCommitted ==
    /\ \A i \in Committed : i <= seq
    /\ dbCursor \in Committed \cup {0}
    /\ cursor \in Committed \cup {0}
    /\ got \subseteq Committed
    /\ ppc # "process" => got = {}
    /\ ppc = "down" => cursor = 0

(* Rows up to either cursor are projected; a fetched batch has no gap. *)
NoGap ==
    /\ \A i \in Committed : (i <= dbCursor \/ i <= cursor) => times[i] > 0
    /\ \A i \in Committed : \/ i \in got
                           \/ i <= cursor
                           \/ \A g \in got : g < i

InOrder == ReservedAhead /\ CursorsCommitted /\ NoGap

LEMMA InOrderInit == Init => InOrder
  BY DEF Init, RawLogInit, IngestInit, ProjectorInit, InOrder, ReservedAhead,
         CursorsCommitted, NoGap, Committed, Ids

(* A committed batch adds exactly the ids reserved for it. *)
LEMMA CommittedAfterCopy ==
  ASSUME Typed, NEW r \in Replica, raw' \in {raw, WithBatch(r)}
  PROVE  /\ Committed \subseteq Committed'
         /\ \A i \in Committed' \ Committed : \E k \in DOMAIN ids[r] : ids[r][k] = i
<1>1. CASE raw' = raw
  BY <1>1 DEF Committed
<1>2. CASE raw' = WithBatch(r)
  <2>1. ASSUME NEW i \in Ids, \E k \in DOMAIN ids[r] : ids[r][k] = i
        PROVE  raw'[i] # NoMsg
    <3>1. PICK k \in DOMAIN ids[r] :
             k = CHOOSE n \in DOMAIN ids[r] : ids[r][n] = i
      BY <2>1
    <3>2. k \in 1..Len(batch[r]) /\ batch[r] \in Seq(Msgs)
      BY <3>1 DEF Typed, TypeOK, IngestTypeOK, DrawnForBatch
    <3>3. raw'[i] = batch[r][k]
      BY <1>2, <2>1, <3>1 DEF WithBatch
    <3>4. QED
      BY <3>2, <3>3 DEF Msgs, NoMsg
  <2>2. ASSUME NEW i \in Ids, ~ \E k \in DOMAIN ids[r] : ids[r][k] = i
        PROVE  raw'[i] = raw[i]
    BY <1>2, <2>2 DEF WithBatch
  <2>3. QED
    BY <2>1, <2>2 DEF Committed
<1>3. QED
  BY <1>1, <1>2

(* The rows that a single replica commits come after all others. *)
LEMMA InOrderAfterCopy ==
  ASSUME SingleReplica, Typed, InOrder, NEW r \in Replica,
         ipc[r] = "copy", raw' \in {raw, WithBatch(r)},
         ipc'[r] = "publish" \/ ids'[r] = <<>>, seq' = seq, UNCHANGED projectorVars
  PROVE  InOrder'
<1>1. /\ Committed \subseteq Committed'
      /\ \A i \in Committed' \ Committed : \E k \in DOMAIN ids[r] : ids[r][k] = i
  BY CommittedAfterCopy
<1>2. ASSUME NEW i \in Committed' \ Committed
      PROVE  i \in 1..seq /\ \A j \in Committed : j < i
  <2>1. PICK k \in DOMAIN ids[r] : ids[r][k] = i
    BY <1>1, <1>2
  <2>2. i \in Ids
    BY <1>2 DEF Committed
  <2>3. QED
    BY <2>1, <2>2 DEF InOrder, ReservedAhead, Ids, Typed, TypeOK, RawLogTypeOK
<1>3. ReservedAhead'
  BY DEF SingleReplica, ReservedAhead
<1>4. CursorsCommitted'
  BY <1>1, <1>2 DEF InOrder, CursorsCommitted, projectorVars
<1>5. NoGap'
  <2>1. ASSUME NEW i \in Committed' \ Committed
        PROVE  i > dbCursor /\ i > cursor /\ \A g \in got : g < i
    BY <1>2, <2>1 DEF InOrder, CursorsCommitted
  <2>2. QED
    BY <1>1, <2>1 DEF InOrder, NoGap, projectorVars, CursorsCommitted,
       Typed, TypeOK, ProjectorTypeOK, Committed, Ids
<1>6. QED
  BY <1>3, <1>4, <1>5 DEF InOrder

LEMMA InOrderIngest ==
  ASSUME SingleReplica, Typed, InOrder, IngestNext, UNCHANGED projectorVars
  PROVE  InOrder'
<1> USE DEF Typed, TypeOK, RawLogTypeOK, IngestTypeOK, ProjectorTypeOK
<1>1. PICK r \in Replica :
         \/ \E m \in Msgs : Receive(r, m)
         \/ IngestStep(r)
         \/ Cancel(r) \/ Crash(r) \/ Restart(r)
  BY DEF IngestNext
<1>2. CASE NextVal(r)
  <2>1. Committed' = Committed
    BY <1>2 DEF NextVal, Committed
  <2>2. ReservedAhead'
    <3>1. SUFFICES ASSUME ipc[r] = "reserve", NEW k \in DOMAIN ids'[r]
                   PROVE  /\ ids'[r][k] <= seq'
                          /\ \A i \in Committed : i < ids'[r][k]
      BY <1>2, <2>1 DEF ReservedAhead, SingleReplica, NextVal
    <3>2. CASE k = Len(ids[r]) + 1
      BY <1>2, <3>2 DEF NextVal, InOrder, CursorsCommitted, Committed, Ids
    <3>3. CASE k \in DOMAIN ids[r]
      <4>1. ids'[r][k] = ids[r][k] /\ ids[r][k] \in Ids
        BY <1>2, <3>3 DEF NextVal
      <4>2. ids[r][k] <= seq /\ \A i \in Committed : i < ids[r][k]
        BY <3>1, <3>3 DEF InOrder, ReservedAhead
      <4>3. seq' = seq + 1 /\ seq \in Nat /\ ids[r][k] \in Nat
        BY <1>2, <4>1 DEF NextVal, Ids
      <4>4. ids'[r][k] <= seq'
        BY <4>1, <4>2, <4>3
      <4>5. QED
        BY <4>1, <4>2, <4>4
    <3>4. QED
      BY <1>2, <3>1, <3>2, <3>3 DEF NextVal
  <2>3. CursorsCommitted'
    BY <1>2, <2>1 DEF NextVal, InOrder, CursorsCommitted, projectorVars, Committed, Ids
  <2>4. NoGap'
    BY <1>2, <2>1 DEF InOrder, NoGap, projectorVars
  <2>5. QED
    BY <2>2, <2>3, <2>4 DEF InOrder
<1>3. CASE Copy(r)
  BY <1>3, InOrderAfterCopy DEF Copy
<1>4. CASE CopyFails(r)
  BY <1>4, InOrderAfterCopy DEF CopyFails, EndFlush
<1>5. ASSUME \/ \E m \in Msgs : Receive(r, m)
             \/ TakeMsg(r) \/ TimerFires(r)
             \/ ReserveFails(r) \/ Publish(r) \/ PublishFails(r)
             \/ Stop(r) \/ Cancel(r) \/ Crash(r) \/ Restart(r)
      PROVE  InOrder'
  <2>1. Committed' = Committed /\ seq' = seq
    BY <1>5 DEF Receive, TakeMsg, TimerFires, ReserveFails, Publish, PublishFails, Stop, Cancel, Crash, Restart,
       logVars, Committed
  <2>2. ReservedAhead'
    BY <1>5, <2>1 DEF InOrder, ReservedAhead, SingleReplica, Receive, TakeMsg, TimerFires, ReserveFails, Publish,
       PublishFails, Stop, Cancel, Crash, Restart, EndFlush
  <2>3. QED
    BY <2>1, <2>2 DEF InOrder, CursorsCommitted, NoGap, projectorVars
<1>6. QED
  BY <1>1, <1>2, <1>3, <1>4, <1>5 DEF IngestStep

LEMMA InOrderProjector ==
  ASSUME Typed, InOrder, ProjectorNext, UNCHANGED ingestVars
  PROVE  InOrder'
<1> USE DEF InOrder, ReservedAhead, CursorsCommitted, NoGap, ingestVars, logVars
<1>1. raw' = raw /\ seq' = seq
  BY DEF ProjectorNext, ProjectorStep, Start, StartFails, Reset, Fetch, FetchFails, Process,
     ProcessFails, ProcessUnacked, Connect, Notified, SessionLost, ProjectorCrash
<1>2. Committed' = Committed /\ \A i \in Committed : i \in Nat \ {0}
  BY <1>1 DEF Committed, Ids
<1>3. ReservedAhead'
  BY <1>1, <1>2
<1>4. CASE Start
  BY <1>1, <1>2, <1>3, <1>4 DEF Start
<1>5. CASE Reset
  BY <1>1, <1>2, <1>3, <1>5 DEF Reset, Typed, TypeOK, ProjectorTypeOK, Committed
<1>6. CASE Fetch
  <2>1. got' \subseteq Unseen /\ \A i \in got', j \in Unseen \ got' : i < j
    BY <1>6 DEF Fetch, FirstRows
  <2>2. /\ UNCHANGED <<dbCursor, cursor, times>>
        /\ ppc' # "down" /\ (ppc' # "process" => got' = {})
    BY <1>6 DEF Fetch, FirstRows
  <2>3. got' \subseteq Committed
    BY <2>1 DEF Unseen
  <2>4. NoGap'
    <3>1. ASSUME NEW i \in Committed, i \notin got', ~(i <= cursor)
          PROVE  \A g \in got' : g < i
      <4>1. i \in Nat
        BY <1>2
      <4>2. cursor \in Nat
        BY DEF Typed, TypeOK, ProjectorTypeOK
      <4>3. i \in Unseen
        BY <3>1, <4>1, <4>2 DEF Unseen
      <4>4. QED
        BY <2>1, <3>1, <4>3
    <3>2. QED
      BY <1>2, <2>2, <3>1
  <2>5. QED
    BY <1>1, <1>2, <1>3, <2>2, <2>3, <2>4
<1>7. CASE Process \/ ProcessUnacked
  <2>1. PICK highest \in got :
           /\ Project(highest)
           /\ cursor' \in {cursor, highest}
    BY <1>7 DEF Process, ProcessUnacked
  <2>2. got' = {} /\ ppc' # "down"
    BY <1>7 DEF Process, ProcessUnacked
  <2>3. ASSUME NEW i \in Committed PROVE /\ times[i] \in Nat
                                         /\ times'[i] = IF i \in got THEN times[i] + 1 ELSE times[i]
    BY <2>1, <2>3 DEF Project, Committed, Typed, TypeOK, ProjectorTypeOK
  <2>4. ASSUME NEW i \in Committed, i <= highest \/ i <= cursor PROVE times'[i] > 0
    <3>1. i \in got \/ i <= cursor
      BY <1>2, <2>4, <2>1
    <3>2. QED
      BY <2>3, <3>1
  <2>5. dbCursor' = highest /\ highest \in Committed
    BY <2>1 DEF Project
  <2>6. QED
    BY <1>1, <1>2, <1>3, <2>1, <2>2, <2>4, <2>5
<1>8. CASE ProjectorCrash
  BY <1>1, <1>2, <1>3, <1>8 DEF ProjectorCrash, Typed, TypeOK, ProjectorTypeOK
<1>9. CASE StartFails \/ FetchFails \/ Connect \/ Notified \/ SessionLost
  BY <1>1, <1>2, <1>3, <1>9 DEF StartFails, FetchFails, Connect, Notified, SessionLost,
     projectorVars
<1>10. CASE ProcessFails
  BY <1>1, <1>2, <1>3, <1>10 DEF ProcessFails
<1>11. QED
  BY <1>4, <1>5, <1>6, <1>7, <1>8, <1>9, <1>10 DEF ProjectorNext, ProjectorStep

LEMMA InOrderStep == SingleReplica /\ Typed /\ InOrder /\ [Next]_vars => InOrder'
<1> SUFFICES ASSUME SingleReplica, Typed, InOrder, [Next]_vars PROVE InOrder'
  OBVIOUS
<1>1. CASE UNCHANGED vars
  BY <1>1 DEF vars, logVars, ingestVars, projectorVars, InOrder, ReservedAhead,
     CursorsCommitted, NoGap, Committed
<1>2. QED
  BY <1>1, InOrderIngest, InOrderProjector DEF Next

(* With one ingest replica the projector never steps over a row, whatever   *)
(* faults happen, lost acknowledgements included.  With two replicas it may *)
(* (run flow_skip).                                                         *)
THEOREM NoSkipHolds == ASSUME SingleReplica PROVE Spec => []NoSkip
<1>1. InOrder => NoSkip
  BY DEF InOrder, NoGap, NoSkip
<1>2. SingleReplica
  OBVIOUS
<1>3. Typed /\ InOrder /\ [Next]_vars => InOrder'
  BY <1>2, InOrderStep
<1>4. QED
  BY <1>1, <1>3, InOrderInit, Typing, PTL DEF Spec

-----------------------------------------------------------------------------
(* A running projector's local cursor is the committed one, and nothing     *)
(* above it has been projected: that is why a batch never repeats a row.    *)
Fresh ==
    /\ ppc \in {"fetch", "process", "wait"} => cursor = dbCursor
    /\ \A i \in got : ppc = "process" /\ i > cursor
    /\ \A i \in Ids : times[i] <= 1 /\ (i > dbCursor => times[i] = 0)

LEMMA FreshInit == Init => Fresh
  BY DEF Init, ProjectorInit, Fresh

LEMMA FreshStep ==
  ASSUME "lostAck" \notin Faults, Typed, Fresh, [Next]_vars
  PROVE  Fresh'
<1> USE DEF Fresh
<1>1. ~ ProcessUnacked
  BY DEF ProcessUnacked, Fault
<1>2. CASE UNCHANGED projectorVars
  BY <1>2 DEF projectorVars
<1>3. CASE Start
  BY <1>3 DEF Start
<1>4. CASE Reset
  BY <1>4 DEF Reset, Ids
<1>5. CASE Fetch
  BY <1>5 DEF Fetch, Unseen
<1>6. CASE Process
  <2>1. PICK highest \in got : Project(highest) /\ cursor' = highest
    BY <1>6 DEF Process
  <2>2. got' = {} /\ ppc = "process" /\ highest > dbCursor
    BY <1>6, <2>1 DEF Process
  <2>3. dbCursor' = highest /\ \A i \in got : i <= highest
    BY <2>1 DEF Project
  <2>4. ASSUME NEW i \in Ids
        PROVE  times'[i] <= 1 /\ (i > highest => times'[i] = 0)
    <3>1. times'[i] = IF i \in got THEN times[i] + 1 ELSE times[i]
      BY <2>1 DEF Project
    <3>2. times[i] \in Nat /\ highest \in Int /\ dbCursor \in Int
      BY <2>1 DEF Typed, TypeOK, ProjectorTypeOK, Ids
    <3>3. CASE i \in got
      BY <2>2, <2>3, <3>1, <3>2, <3>3 DEF Ids
    <3>4. CASE i \notin got
      BY <2>2, <3>1, <3>2, <3>4 DEF Ids
    <3>5. QED
      BY <3>3, <3>4
  <2>5. QED
    BY <2>1, <2>2, <2>3, <2>4
<1>7. CASE ProjectorCrash
  BY <1>7 DEF ProjectorCrash
<1>8. CASE StartFails \/ FetchFails \/ Connect \/ Notified \/ SessionLost \/ ProcessFails
  BY <1>8 DEF StartFails, FetchFails, Connect, Notified, SessionLost, ProcessFails, projectorVars
<1>9. QED
  BY <1>1, <1>2, <1>3, <1>4, <1>5, <1>6, <1>7, <1>8
     DEF Next, ProjectorNext, ProjectorStep, vars

(* As long as a commit is acknowledged, no row is projected twice between   *)
(* resets: the projection of a batch and the cursor commit together.  It    *)
(* holds for any number of ingest replicas.                                 *)
THEOREM ProjectedOnceHolds ==
  ASSUME "lostAck" \notin Faults PROVE Spec => []ProjectedOnce
<1>1. Fresh => ProjectedOnce
  BY DEF Fresh, ProjectedOnce
<1>2. Typed /\ Fresh /\ [Next]_vars => Fresh'
  BY FreshStep
<1>3. QED
  BY <1>1, <1>2, FreshInit, Typing, PTL DEF Spec

-----------------------------------------------------------------------------
(* The rows between the local cursor and the durable one: projected already, *)
(* but to be fetched again because an acknowledgement was lost.              *)
Stale == {i \in Committed : cursor < i /\ i <= dbCursor}

(* The local cursor lags by one batch at most, so the batch that is fetched *)
(* next covers the lag; only rows below the durable cursor are projected.   *)
Lag ==
    /\ cursor <= dbCursor
    /\ ppc \in {"fetch", "process", "wait"} => Cardinality(Stale) <= BatchSize
    /\ \A i \in got : i > cursor
    /\ ppc = "process" => Stale \subseteq got /\ Cardinality(got) <= BatchSize
    /\ \A i \in Ids : times[i] > 0 => i \in Committed /\ i <= dbCursor

LEMMA FiniteRows == ASSUME NEW S \in SUBSET Ids PROVE IsFiniteSet(S) /\ Cardinality(S) \in Nat
<1>1. IsFiniteSet(Ids)
  BY FS_Interval DEF Ids
<1>2. IsFiniteSet(S)
  BY <1>1, FS_Subset
<1>3. QED
  BY <1>2, FS_CardinalityType

LEMMA LagInit == Init => Lag
  BY DEF Init, ProjectorInit, Lag

(* A step of ingest may add rows, always above those that are there. *)
LEMMA RowsAppended ==
  ASSUME SingleReplica, Typed, InOrder, IngestNext
  PROVE  /\ Committed \subseteq Committed'
         /\ \A i \in Committed' \ Committed : \A j \in Committed : j < i
<1>1. PICK r \in Replica :
         \/ \E m \in Msgs : Receive(r, m)
         \/ IngestStep(r)
         \/ Cancel(r) \/ Crash(r) \/ Restart(r)
  BY DEF IngestNext
<1>2. CASE Copy(r) \/ CopyFails(r)
  <2>1. ipc[r] = "copy" /\ raw' \in {raw, WithBatch(r)}
    BY <1>2 DEF Copy, CopyFails
  <2>2. QED
    BY <2>1, CommittedAfterCopy DEF InOrder, ReservedAhead
<1>3. CASE ~(Copy(r) \/ CopyFails(r))
  <2>1. raw' = raw
    BY <1>1, <1>3 DEF IngestStep, Receive, TakeMsg, TimerFires, NextVal, ReserveFails,
       Publish, PublishFails, Stop, Cancel, Crash, Restart, logVars
  <2>2. QED
    BY <2>1 DEF Committed
<1>4. QED
  BY <1>2, <1>3

LEMMA LagIngest ==
  ASSUME SingleReplica, Typed, InOrder, Lag, IngestNext, UNCHANGED projectorVars
  PROVE  Lag'
<1>1. /\ Committed \subseteq Committed'
      /\ \A i \in Committed' \ Committed : \A j \in Committed : j < i
  BY RowsAppended
<1>2. ASSUME NEW i \in Committed' \ Committed PROVE ~(i <= dbCursor)
  BY <1>1, <1>2 DEF InOrder, CursorsCommitted, Committed, Ids
<1>3. Stale' = Stale
  BY <1>1, <1>2 DEF Stale, projectorVars
<1>4. QED
  BY <1>1, <1>3 DEF Lag, projectorVars

(* What a fetch returns contains the lag: it is ordered, and as large as a  *)
(* batch unless it is everything.                                           *)
LEMMA FetchCoversLag ==
  ASSUME Typed, NEW rows \in SUBSET Unseen, FirstRows(rows), Cardinality(Stale) <= BatchSize
  PROVE  Stale \subseteq rows /\ Cardinality(rows) <= BatchSize
<1>1. /\ IsFiniteSet(Unseen) /\ IsFiniteSet(Stale) /\ IsFiniteSet(rows)
      /\ Cardinality(Unseen) \in Nat /\ Cardinality(Stale) \in Nat
      /\ Cardinality(rows) \in Nat
  BY FiniteRows DEF Unseen, Stale, Committed
<1>2. Cardinality(rows) <= BatchSize
  BY <1>1 DEF FirstRows, Limit
<1>3. ASSUME NEW j \in Stale, j \notin rows PROVE FALSE
  <2>1. j \in Unseen \ rows
    BY <1>3 DEF Stale, Unseen, Committed, Ids, Typed, TypeOK, ProjectorTypeOK
  <2>2. \A i \in rows : i < j
    BY <2>1 DEF FirstRows
  <2>3. rows \subseteq Stale \ {j}
    BY <1>3, <2>2 DEF Stale, Unseen, Committed, Ids, Typed, TypeOK, ProjectorTypeOK
  <2>4. Cardinality(Stale \ {j}) = Cardinality(Stale) - 1 /\ IsFiniteSet(Stale \ {j})
    BY <1>1, <1>3, FS_RemoveElement
  <2>5. Cardinality(rows) < BatchSize
    BY <1>1, <2>3, <2>4, FS_Subset
  <2>6. Cardinality(rows) = Cardinality(Unseen)
    BY <1>1, <2>5 DEF FirstRows, Limit
  <2>7. rows = Unseen
    BY <1>1, <2>6, FS_Subset
  <2>8. QED
    BY <2>1, <2>7
<1>4. QED
  BY <1>2, <1>3

(* Whatever batch is committed, the durable cursor does not go back. *)
LEMMA ProjectAdvances ==
  ASSUME Typed, InOrder, Lag, ppc = "process", NEW highest \in got, Project(highest)
  PROVE  /\ dbCursor' = highest /\ highest \in Nat
         /\ dbCursor <= highest /\ cursor < highest
<1> USE DEF Typed, TypeOK, ProjectorTypeOK
<1>1. dbCursor' = highest /\ \A i \in got : i <= highest
  BY DEF Project
<1>2. highest \in Nat /\ cursor < highest
  BY DEF Lag, Ids
<1>3. CASE dbCursor <= cursor
  BY <1>1, <1>2, <1>3
<1>4. CASE cursor < dbCursor
  <2>1. dbCursor \in Stale
    BY <1>4 DEF InOrder, CursorsCommitted, Stale
  <2>2. QED
    BY <1>1, <1>2, <2>1 DEF Lag
<1>5. QED
  BY <1>1, <1>2, <1>3, <1>4

LEMMA LagProjector ==
  ASSUME Typed, InOrder, Lag, ProjectorNext, UNCHANGED ingestVars
  PROVE  Lag'
<1> USE DEF Lag, logVars, projectorVars
<1>1. raw' = raw
  BY DEF ProjectorNext, ProjectorStep, Start, StartFails, Reset, Fetch, FetchFails, Process,
     ProcessFails, ProcessUnacked, Connect, Notified, SessionLost, ProjectorCrash
<1>2. Committed' = Committed /\ Committed \subseteq Ids
  BY <1>1 DEF Committed
<1>3. CASE Start
  <2>1. /\ cursor' = dbCursor /\ UNCHANGED <<dbCursor, times>>
        /\ got' = {} /\ ppc' = "fetch"
    BY <1>3 DEF Start, InOrder, CursorsCommitted
  <2>2. Stale' = {}
    <3>1. SUFFICES ASSUME NEW i \in Stale' PROVE FALSE
      OBVIOUS
    <3>2. i \in Ids /\ cursor' < i /\ i <= dbCursor'
      BY <1>2 DEF Stale
    <3>3. QED
      BY <2>1, <3>2 DEF Ids, Typed, TypeOK, ProjectorTypeOK
  <2>3. Cardinality(Stale') <= BatchSize
    <3>1. Cardinality(Stale') = 0
      BY <2>2, FS_EmptySet, Zenon
    <3>2. QED
      BY <3>1
  <2>4. QED
    BY <1>2, <2>1, <2>3 DEF Typed, TypeOK, ProjectorTypeOK
<1>4. CASE Reset
  BY <1>2, <1>4 DEF Reset, InOrder, CursorsCommitted
<1>5. CASE Fetch
  <2>1. PICK rows \in SUBSET Unseen : FirstRows(rows) /\ got' = rows
    BY <1>5 DEF Fetch
  <2>2. Stale' = Stale /\ UNCHANGED <<dbCursor, times, cursor>> /\ ppc = "fetch"
    BY <1>2, <1>5 DEF Fetch, Stale
  <2>3. Stale \subseteq rows /\ Cardinality(rows) <= BatchSize
    BY <2>1, <2>2, FetchCoversLag
  <2>4. QED
    BY <1>2, <2>1, <2>2, <2>3 DEF Unseen
<1>6. CASE Process \/ ProcessUnacked
  <2>1. PICK highest \in got :
           /\ Project(highest)
           /\ cursor' \in {cursor, highest}
    BY <1>6 DEF Process, ProcessUnacked
  <2>2. got' = {} /\ ppc = "process" /\ ppc' # "process"
    BY <1>6 DEF Process, ProcessUnacked
  <2>3. /\ dbCursor' = highest /\ highest \in Nat
        /\ dbCursor <= highest /\ cursor < highest
    BY <2>1, <2>2, ProjectAdvances
  <2>4. Stale' \subseteq got
    <3>1. ASSUME NEW i \in Committed, cursor' < i, i <= highest PROVE i \in got
      BY <1>2, <2>1, <2>3, <3>1 DEF InOrder, NoGap, Ids, Typed, TypeOK, ProjectorTypeOK
    <3>2. QED
      BY <1>2, <2>3, <3>1 DEF Stale
  <2>5. Cardinality(Stale') <= BatchSize
    <3>1. IsFiniteSet(got) /\ Cardinality(got) \in Nat /\ Cardinality(Stale') \in Nat
      BY <2>4, FiniteRows DEF Typed, TypeOK, ProjectorTypeOK
    <3>2. Cardinality(Stale') <= Cardinality(got)
      BY <2>4, <3>1, FS_Subset
    <3>3. QED
      BY <2>2, <3>1, <3>2
  <2>6. ASSUME NEW i \in Ids, times'[i] > 0 PROVE i \in Committed' /\ i <= dbCursor'
    <3>1. i \in got \/ times[i] > 0
      BY <2>1, <2>6 DEF Project
    <3>2. \A j \in got : j \in Committed /\ j <= highest
      BY <2>1 DEF Project, InOrder, CursorsCommitted
    <3>3. QED
      BY <1>2, <2>3, <3>1, <3>2 DEF Ids, Typed, TypeOK, ProjectorTypeOK
  <2>7. cursor' <= dbCursor'
    BY <2>1, <2>3 DEF Typed, TypeOK, ProjectorTypeOK
  <2>8. \A i \in Ids : times'[i] > 0 => i \in Committed' /\ i <= dbCursor'
    BY <2>6
  <2>9. (\A i \in got' : i > cursor') /\ ppc' # "process"
    BY <2>2
  <2>10. QED
    BY <2>5, <2>7, <2>8, <2>9
<1>7. CASE ProjectorCrash
  BY <1>2, <1>7 DEF ProjectorCrash, Typed, TypeOK, ProjectorTypeOK
<1>8. CASE StartFails \/ FetchFails \/ Connect \/ Notified \/ SessionLost \/ ProcessFails
  <2>1. Stale' = Stale /\ UNCHANGED <<dbCursor, times, cursor>> /\ got' \in {got, {}}
    BY <1>2, <1>8 DEF StartFails, FetchFails, Connect, Notified, SessionLost, ProcessFails, Stale
  <2>2. ppc' # "process" \/ UNCHANGED <<ppc, got>>
    BY <1>8 DEF StartFails, FetchFails, Connect, Notified, SessionLost, ProcessFails
  <2>3. ppc' \in {"fetch", "process", "wait"} => ppc \in {"fetch", "process", "wait"}
    BY <1>8 DEF StartFails, FetchFails, Connect, Notified, SessionLost, ProcessFails
  <2>4. QED
    BY <1>2, <2>1, <2>2, <2>3
<1>9. QED
  BY <1>3, <1>4, <1>5, <1>6, <1>7, <1>8 DEF ProjectorNext, ProjectorStep

LEMMA LagStep == SingleReplica /\ Typed /\ InOrder /\ Lag /\ [Next]_vars => Lag'
<1> SUFFICES ASSUME SingleReplica, Typed, InOrder, Lag, [Next]_vars PROVE Lag'
  OBVIOUS
<1>1. CASE UNCHANGED vars
  BY <1>1 DEF vars, logVars, projectorVars, Lag, Stale, Committed
<1>2. QED
  BY <1>1, LagIngest, LagProjector DEF Next

(* The invariants under which a single replica's log is consumed in order. *)
LEMMA Ordered == ASSUME SingleReplica PROVE Spec => [](Typed /\ InOrder /\ Lag)
<1>1. SingleReplica
  OBVIOUS
<1>2. Typed /\ InOrder /\ [Next]_vars => InOrder'
  BY <1>1, InOrderStep
<1>3. Typed /\ InOrder /\ Lag /\ [Next]_vars => Lag'
  BY <1>1, LagStep
<1>4. QED
  BY <1>2, <1>3, InOrderInit, LagInit, Typing, PTL DEF Spec

(* With one replica the durable cursor never moves back but for a reset,    *)
(* even when a lost acknowledgement makes the loop project from a stale     *)
(* position: the next batch always reaches the durable cursor again.        *)
THEOREM CursorAdvancesHolds == ASSUME SingleReplica PROVE Spec => CursorAdvances
<1>1. ASSUME Typed, InOrder, Lag, [Next]_vars
      PROVE  dbCursor' >= dbCursor \/ ppc = "down" \/ UNCHANGED vars
  <2>1. dbCursor \in Nat
    BY <1>1 DEF Typed, TypeOK, ProjectorTypeOK
  <2>2. CASE Process \/ ProcessUnacked
    <3>1. PICK highest \in got : Project(highest) /\ ppc = "process"
      BY <2>2 DEF Process, ProcessUnacked
    <3>2. QED
      BY <1>1, <2>1, <3>1, ProjectAdvances
  <2>3. CASE IngestNext /\ UNCHANGED projectorVars
    BY <2>1, <2>3 DEF projectorVars
  <2>4. CASE ProjectorNext /\ ~(Process \/ ProcessUnacked)
    BY <2>1, <2>4 DEF ProjectorNext, ProjectorStep, Start, StartFails, Reset, Fetch, FetchFails,
       ProcessFails, Connect, Notified, SessionLost, ProjectorCrash, projectorVars
  <2>5. QED
    BY <1>1, <2>2, <2>3, <2>4 DEF Next
<1>2. QED
  BY <1>1, Ordered, PTL DEF Spec, CursorAdvances

-----------------------------------------------------------------------------
Consumed == {i \in Committed : times[i] > 0}

LEMMA ConsumerInit == Init => Abstract!Init
  BY DEF Init, RawLogInit, ProjectorInit, Abstract!Init, Committed

(* A commit of ingest extends the log, or nothing happens to it. *)
LEMMA ConsumerIngest ==
  ASSUME SingleReplica, Typed, InOrder, Lag, IngestNext, UNCHANGED projectorVars
  PROVE  Abstract!AppendRows
<1> DEFINE rows == Committed' \ Committed
<1>1. /\ Committed \subseteq Committed'
      /\ \A i \in rows : \A j \in Committed : j < i
  BY RowsAppended
<1>2. rows \in SUBSET (Ids \ Committed)
  BY DEF Committed
<1>3. Committed' = Committed \cup rows
  BY <1>1
<1>4. times' = times
  BY DEF projectorVars
<1>5. ASSUME NEW i \in rows PROVE ~(times[i] > 0)
  BY <1>2 DEF Lag
<1>6. Consumed' = Consumed
  BY <1>3, <1>4, <1>5 DEF Consumed
<1>7. QED
  BY <1>1, <1>2, <1>3, <1>6 DEF Abstract!AppendRows, Consumed

(* A committed batch consumes the rows that follow; a reset rewinds. *)
LEMMA ConsumerProjector ==
  ASSUME Typed, InOrder, Lag, ProjectorNext, UNCHANGED ingestVars
  PROVE  \/ Abstract!Consume
         \/ Abstract!Rewind
         \/ UNCHANGED <<Committed, Consumed>>
<1>1. raw' = raw
  BY DEF ProjectorNext, ProjectorStep, Start, StartFails, Reset, Fetch, FetchFails, Process,
     ProcessFails, ProcessUnacked, Connect, Notified, SessionLost, ProjectorCrash, logVars
<1>2. Committed' = Committed /\ Committed \subseteq Ids
  BY <1>1 DEF Committed
<1>3. CASE Process \/ ProcessUnacked
  <2>1. PICK highest \in got : Project(highest) /\ ppc = "process"
    BY <1>3 DEF Process, ProcessUnacked
  <2>2. got \subseteq Committed
    BY DEF InOrder, CursorsCommitted
  <2>3. ASSUME NEW i \in Committed
        PROVE  times'[i] > 0 <=> i \in got \/ times[i] > 0
    BY <1>2, <2>1, <2>3 DEF Project, Typed, TypeOK, ProjectorTypeOK
  <2>4. Consumed' = Consumed \cup got
    BY <1>2, <2>2, <2>3 DEF Consumed
  <2>5. /\ dbCursor' = highest /\ highest \in Nat
        /\ dbCursor <= highest /\ cursor < highest
    BY <2>1, ProjectAdvances
  <2>6. \A g \in got : g <= highest
    BY <2>1 DEF Project
  <2>7. ASSUME NEW i \in Consumed \cup got, NEW j \in Committed \ (Consumed \cup got)
        PROVE  i < j
    <3>1. ~(j <= cursor) /\ ~(j <= dbCursor) /\ \A g \in got : g < j
      BY <2>7 DEF InOrder, NoGap, Consumed
    <3>2. i \in got \/ i <= dbCursor
      BY <1>2, <2>7 DEF Lag, Consumed
    <3>3. QED
      BY <1>2, <2>2, <2>7, <3>1, <3>2 DEF Consumed, Ids, Typed, TypeOK, ProjectorTypeOK
  <2>8. Abstract!Consume
    <3>1. got \ Consumed \in SUBSET (Committed \ Consumed)
      BY <2>2
    <3>2. Consumed \cup (got \ Consumed) = Consumed \cup got
      OBVIOUS
    <3>3. QED
      BY <1>2, <2>4, <2>7, <3>1, <3>2 DEF Abstract!Consume, Consumed
  <2>9. QED
    BY <2>8
<1>4. CASE Reset
  <2>1. Consumed' = {}
    BY <1>2, <1>4 DEF Reset, Consumed
  <2>2. QED
    BY <1>2, <2>1 DEF Abstract!Rewind, Consumed
<1>5. CASE ~(Process \/ ProcessUnacked \/ Reset)
  <2>1. times' = times
    BY <1>5 DEF ProjectorNext, ProjectorStep, Start, StartFails, Fetch, FetchFails,
       ProcessFails, Connect, Notified, SessionLost, ProjectorCrash, projectorVars
  <2>2. QED
    BY <1>2, <2>1 DEF Consumed
<1>6. QED
  BY <1>3, <1>4, <1>5

(* Ingest with one replica and the projector implement the log consumer:    *)
(* rows appear in id order and are projected in that order, none left out,  *)
(* through every fault; only a reset goes back to the beginning.            *)
THEOREM ConsumesLogHolds == ASSUME SingleReplica PROVE Spec => ConsumesLog
<1>1. ASSUME Typed, InOrder, Lag, [Next]_vars
      PROVE  [Abstract!Next]_<<Committed, Consumed>>
  <2>1. CASE UNCHANGED vars
    BY <2>1 DEF vars, logVars, projectorVars, Committed, Consumed
  <2>2. CASE IngestNext /\ UNCHANGED projectorVars
    BY <1>1, <2>2, ConsumerIngest DEF Abstract!Next
  <2>3. CASE ProjectorNext /\ UNCHANGED ingestVars
    BY <1>1, <2>3, ConsumerProjector DEF Abstract!Next
  <2>4. QED
    BY <1>1, <2>1, <2>2, <2>3 DEF Next
<1>2. QED
  BY <1>1, ConsumerInit, Ordered, PTL DEF Spec, ConsumesLog, Abstract!Spec, Consumed
-----------------------------------------------------------------------------
(* What a single ingest replica stores and loses. *)

USE RawLogAssumption, IngestAssumption, ProjectorAssumption

Elems(s) == {s[k] : k \in DOMAIN s}

NoTwice(s) == \A k, l \in DOMAIN s : s[k] = s[l] => k = l

LEMMA ElemsOfEmpty == Elems(<<>>) = {} /\ NoTwice(<<>>)
  BY DEF Elems, NoTwice

LEMMA ElemsOfAppend ==
  ASSUME NEW S, NEW s \in Seq(S), NEW x \in S
  PROVE  /\ Elems(Append(s, x)) = Elems(s) \cup {x}
         /\ NoTwice(s) /\ x \notin Elems(s) => NoTwice(Append(s, x))
<1>1. /\ Append(s, x) \in Seq(S) /\ DOMAIN Append(s, x) = 1..(Len(s) + 1)
      /\ DOMAIN s = 1..Len(s) /\ Len(s) \in Nat
      /\ \A k \in 1..Len(s) : Append(s, x)[k] = s[k]
      /\ Append(s, x)[Len(s) + 1] = x
  OBVIOUS
<1>2. \A k \in DOMAIN Append(s, x) : k \in DOMAIN s \/ k = Len(s) + 1
  BY <1>1
<1>3. DOMAIN s \subseteq DOMAIN Append(s, x) /\ Len(s) + 1 \in DOMAIN Append(s, x)
  BY <1>1
<1>4. Elems(Append(s, x)) = Elems(s) \cup {x}
  BY <1>1, <1>2, <1>3 DEF Elems
<1>5. ASSUME NoTwice(s), x \notin Elems(s) PROVE NoTwice(Append(s, x))
  BY <1>1, <1>2, <1>5 DEF Elems, NoTwice
<1>6. QED
  BY <1>4, <1>5

LEMMA ElemsOfTail ==
  ASSUME NEW S, NEW s \in Seq(S), s # <<>>
  PROVE  /\ Elems(s) = Elems(Tail(s)) \cup {Head(s)}
         /\ NoTwice(s) => Head(s) \notin Elems(Tail(s)) /\ NoTwice(Tail(s))
<1>1. /\ Tail(s) \in Seq(S) /\ DOMAIN Tail(s) = 1..(Len(s) - 1)
      /\ DOMAIN s = 1..Len(s) /\ Len(s) \in Nat \ {0} /\ Head(s) = s[1]
      /\ \A k \in 1..(Len(s) - 1) : Tail(s)[k] = s[k + 1]
  OBVIOUS
<1>2. \A k \in DOMAIN Tail(s) : k + 1 \in DOMAIN s /\ k + 1 # 1
  BY <1>1
<1>3. \A k \in DOMAIN s : k = 1 \/ (k - 1 \in DOMAIN Tail(s) /\ Tail(s)[k - 1] = s[k])
  BY <1>1
<1>4. Elems(s) = Elems(Tail(s)) \cup {Head(s)}
  <2>1. ASSUME NEW k \in DOMAIN s PROVE s[k] \in Elems(Tail(s)) \cup {Head(s)}
    BY <1>1, <1>3 DEF Elems
  <2>2. ASSUME NEW k \in DOMAIN Tail(s) PROVE Tail(s)[k] \in Elems(s)
    BY <1>1, <1>2 DEF Elems
  <2>3. Head(s) \in Elems(s)
    BY <1>1 DEF Elems
  <2>4. QED
    BY <2>1, <2>2, <2>3 DEF Elems
<1>5. ASSUME NoTwice(s) PROVE Head(s) \notin Elems(Tail(s)) /\ NoTwice(Tail(s))
  <2>1. ASSUME NEW k \in DOMAIN Tail(s) PROVE Tail(s)[k] # Head(s)
    BY <1>1, <1>2, <1>5 DEF NoTwice
  <2>2. ASSUME NEW k \in DOMAIN Tail(s), NEW l \in DOMAIN Tail(s), Tail(s)[k] = Tail(s)[l]
        PROVE  k = l
    <3>1. k + 1 = l + 1
      BY <1>1, <1>2, <1>5, <2>2 DEF NoTwice
    <3>2. QED
      BY <1>1, <3>1
  <2>3. QED
    BY <2>1, <2>2 DEF Elems, NoTwice
<1>6. QED
  BY <1>4, <1>5

(* A sequence has no more elements than positions. *)
LEMMA ElemsCounted ==
  ASSUME NEW S, NEW s \in Seq(S)
  PROVE  IsFiniteSet(Elems(s)) /\ Cardinality(Elems(s)) \in Nat /\ Cardinality(Elems(s)) <= Len(s)
<1>1. s \in Surjection(1..Len(s), Elems(s))
  BY DEF Surjection, Elems
<1>2. IsFiniteSet(1..Len(s)) /\ Cardinality(1..Len(s)) = Len(s)
  <2>1. Len(s) \in Nat
    OBVIOUS
  <2>2. QED
    BY <2>1, FS_Interval
<1>3. QED
  BY <1>1, <1>2, FS_Surjection, FS_CardinalityType

-----------------------------------------------------------------------------
Stored == {raw[i] : i \in Committed}

(* Ids are drawn in ascending order, one for each message of the batch. *)
Drawn(r) ==
    /\ ipc[r] # "publish" => NoTwice(ids[r])
    /\ ipc[r] = "copy" => Len(ids[r]) = Len(batch[r])

(* A message that the replica heard is in one place at most: in the channel, *)
(* in the batch, or in a row, and only a batch that was just written is in   *)
(* the batch and in rows.                                                    *)
OnePlace(r) ==
    /\ Stored \cup Elems(chan[r]) \cup Elems(batch[r]) \subseteq heard[r]
    /\ NoTwice(chan[r]) /\ NoTwice(batch[r])
    /\ Elems(chan[r]) \cap Elems(batch[r]) = {}
    /\ Stored \cap Elems(chan[r]) = {}
    /\ ipc[r] # "publish" => Stored \cap Elems(batch[r]) = {}

Placed == AtMostOneRow /\ \A r \in Replica : Drawn(r) /\ OnePlace(r)

LEMMA PlacedInit == Init => Placed
  BY ElemsOfEmpty DEF Init, RawLogInit, IngestInit, Placed, AtMostOneRow, Drawn, OnePlace, Stored,
     Committed

(* What the copy of a whole batch stores: each of its messages, in a row of *)
(* its own that was not there.                                              *)
LEMMA RowsWritten ==
  ASSUME Typed, InOrder, NEW r \in Replica, Drawn(r), ipc[r] = "copy", raw' = WithBatch(r)
  PROVE  /\ Committed' = Committed \cup Elems(ids[r])
         /\ \A i \in Committed : raw'[i] = raw[i] /\ i \notin Elems(ids[r])
         /\ \A k \in DOMAIN ids[r] : raw'[ids[r][k]] = batch[r][k]
         /\ DOMAIN ids[r] = DOMAIN batch[r]
         /\ Stored' = Stored \cup Elems(batch[r])
<1>1. /\ ids[r] \in Seq(Ids) /\ batch[r] \in Seq(Msgs)
      /\ DOMAIN ids[r] = DOMAIN batch[r] /\ NoTwice(ids[r])
  BY DEF Drawn, Typed, TypeOK, IngestTypeOK
<1>2. ASSUME NEW k \in DOMAIN ids[r]
      PROVE  /\ raw'[ids[r][k]] = batch[r][k] /\ ids[r][k] \in Ids /\ batch[r][k] \in Msgs
             /\ ids[r][k] \notin Committed
  <2>1. ids[r][k] \in Ids /\ batch[r][k] \in Msgs
    BY <1>1
  <2>2. (CHOOSE n \in DOMAIN ids[r] : ids[r][n] = ids[r][k]) = k
    BY <1>1 DEF NoTwice
  <2>3. raw'[ids[r][k]] = batch[r][k]
    BY <2>1, <2>2 DEF WithBatch
  <2>4. \A i \in Committed : i < ids[r][k]
    BY DEF InOrder, ReservedAhead
  <2>5. QED
    BY <2>1, <2>3, <2>4 DEF Ids
<1>3. ASSUME NEW i \in Ids, i \notin Elems(ids[r]) PROVE raw'[i] = raw[i]
  BY <1>3 DEF WithBatch, Elems
<1>4. \A i \in Committed : raw'[i] = raw[i] /\ i \notin Elems(ids[r])
  BY <1>2, <1>3 DEF Elems, Committed
<1>5. \A m \in Msgs : m # NoMsg
  BY DEF Msgs, NoMsg
<1>6. Committed' = Committed \cup Elems(ids[r])
  <2>1. Elems(ids[r]) \subseteq Committed'
    BY <1>2, <1>5 DEF Elems, Committed
  <2>2. Committed \subseteq Committed'
    BY <1>4 DEF Committed
  <2>3. Committed' \subseteq Committed \cup Elems(ids[r])
    BY <1>3 DEF Committed
  <2>4. QED
    BY <2>1, <2>2, <2>3
<1>7. Stored' = Stored \cup Elems(batch[r])
  <2>1. ASSUME NEW i \in Committed' PROVE raw'[i] \in Stored \cup Elems(batch[r])
    BY <1>1, <1>2, <1>4, <1>6 DEF Stored, Elems
  <2>2. Stored \subseteq Stored'
    BY <1>4, <1>6 DEF Stored
  <2>3. Elems(batch[r]) \subseteq Stored'
    BY <1>1, <1>2, <1>6 DEF Stored, Elems
  <2>4. QED
    BY <2>1, <2>2, <2>3 DEF Stored
<1>8. QED
  BY <1>1, <1>2, <1>4, <1>6, <1>7

(* The steps of ingest but those that write rows leave the rows alone. *)
LEMMA RowsKept ==
  ASSUME NEW r \in Replica,
         \/ \E m \in Msgs : Receive(r, m)
         \/ TakeMsg(r) \/ TimerFires(r) \/ NextVal(r)
         \/ ReserveFails(r) \/ Publish(r) \/ PublishFails(r)
         \/ Stop(r) \/ Cancel(r) \/ Crash(r) \/ Restart(r)
  PROVE  raw' = raw /\ Committed' = Committed /\ Stored' = Stored
<1>1. raw' = raw
  BY DEF Receive, TakeMsg, TimerFires, NextVal, ReserveFails, Publish, PublishFails, Stop,
         Cancel, Crash, Restart, logVars
<1>2. QED
  BY <1>1 DEF Committed, Stored

LEMMA DrawnIngest ==
  ASSUME SingleReplica, Typed, InOrder, NEW r \in Replica, Drawn(r),
         \/ \E m \in Msgs : Receive(r, m)
         \/ IngestStep(r)
         \/ Cancel(r) \/ Crash(r) \/ Restart(r)
  PROVE  Drawn(r)'
<1> USE DEF Drawn, Typed, TypeOK, IngestTypeOK
<1>1. CASE NextVal(r)
  <2>1. /\ ids[r] \in Seq(Ids) /\ batch[r] \in Seq(Msgs) /\ seq + 1 \in Ids
        /\ ids'[r] = Append(ids[r], seq + 1) /\ batch' = batch
        /\ ipc[r] = "reserve" /\ ipc'[r] \in {"reserve", "copy"}
        /\ ipc'[r] = "copy" => Len(ids[r]) + 1 = Len(batch[r])
    <3>1. seq \in Nat /\ seq + 1 \in Ids
      BY <1>1 DEF NextVal, RawLogTypeOK, Ids
    <3>2. ids'[r] = Append(ids[r], seq + 1) /\ batch' = batch /\ ipc[r] = "reserve"
      BY <1>1 DEF NextVal
    <3>3. ipc'[r] = IF Len(ids[r]) + 1 = Len(batch[r]) THEN "copy" ELSE "reserve"
      BY <1>1 DEF NextVal
    <3>4. QED
      BY <3>1, <3>2, <3>3
  <2>2. seq + 1 \notin Elems(ids[r])
    <3>1. ASSUME NEW k \in DOMAIN ids[r] PROVE ids[r][k] <= seq /\ ids[r][k] \in Ids
      <4>1. ids[r][k] \in Ids
        BY <2>1
      <4>2. ids[r][k] <= seq
        BY <2>1, <3>1, Zenon DEF InOrder, ReservedAhead
      <4>3. QED
        BY <4>1, <4>2
    <3>2. seq \in Int
      BY DEF RawLogTypeOK
    <3>3. QED
      BY <3>1, <3>2 DEF Elems, Ids
  <2>3. NoTwice(ids'[r])
    BY <2>1, <2>2, ElemsOfAppend
  <2>4. Len(ids'[r]) = Len(ids[r]) + 1
    BY <2>1
  <2>5. QED
    BY <2>1, <2>3, <2>4
<1>2. CASE Copy(r)
  BY <1>2 DEF Copy
<1>3. CASE \E m \in Msgs : Receive(r, m)
  BY <1>3 DEF Receive
<1>4. CASE TakeMsg(r) \/ TimerFires(r)
  BY <1>4 DEF TakeMsg, TimerFires
<1>5. CASE ReserveFails(r) \/ CopyFails(r) \/ Publish(r) \/ PublishFails(r) \/ Stop(r) \/ Crash(r)
  <2>1. ids'[r] = <<>> /\ ipc'[r] # "copy"
    BY <1>5 DEF ReserveFails, CopyFails, Publish, PublishFails, Stop, Crash, EndFlush
  <2>2. QED
    BY <2>1, ElemsOfEmpty
<1>6. CASE Cancel(r) \/ Restart(r)
  BY <1>6 DEF Cancel, Restart
<1>7. QED
  BY <1>1, <1>2, <1>3, <1>4, <1>5, <1>6 DEF IngestStep

(* Rows of different messages stay so when a batch is written. *)
LEMMA WriteKeepsApart ==
  ASSUME Typed, InOrder, NEW r \in Replica, Drawn(r), OnePlace(r), AtMostOneRow,
         ipc[r] = "copy", raw' = WithBatch(r)
  PROVE  AtMostOneRow'
<1>1. /\ Committed' = Committed \cup Elems(ids[r])
      /\ \A i \in Committed : raw'[i] = raw[i] /\ i \notin Elems(ids[r])
      /\ \A k \in DOMAIN ids[r] : raw'[ids[r][k]] = batch[r][k]
      /\ DOMAIN ids[r] = DOMAIN batch[r]
  BY RowsWritten
<1>2. NoTwice(batch[r]) /\ Stored \cap Elems(batch[r]) = {}
  BY DEF OnePlace
<1>3. SUFFICES ASSUME NEW i \in Committed', NEW j \in Committed', raw'[i] = raw'[j]
               PROVE  i = j
  BY DEF AtMostOneRow
<1>4. ASSUME NEW a \in Committed, NEW b \in Elems(ids[r]) PROVE raw'[a] # raw'[b]
  <2>1. PICK k \in DOMAIN ids[r] : ids[r][k] = b
    BY <1>4 DEF Elems
  <2>2. raw'[b] \in Elems(batch[r])
    BY <1>1, <2>1 DEF Elems
  <2>3. raw'[a] \in Stored
    BY <1>1, <1>4 DEF Stored
  <2>4. QED
    BY <1>2, <2>2, <2>3
<1>5. CASE i \in Committed /\ j \in Committed
  BY <1>1, <1>3, <1>5 DEF AtMostOneRow
<1>6. CASE i \in Elems(ids[r]) /\ j \in Elems(ids[r])
  <2>1. PICK k \in DOMAIN ids[r], l \in DOMAIN ids[r] : ids[r][k] = i /\ ids[r][l] = j
    BY <1>6 DEF Elems
  <2>2. k = l
    BY <1>1, <1>2, <1>3, <2>1 DEF NoTwice
  <2>3. QED
    BY <2>1, <2>2
<1>7. QED
  BY <1>1, <1>3, <1>4, <1>5, <1>6

LEMMA PlacedIngest ==
  ASSUME SingleReplica, Typed, InOrder, Placed, IngestNext
  PROVE  Placed'
<1>1. PICK r \in Replica :
         \/ \E m \in Msgs : Receive(r, m)
         \/ IngestStep(r)
         \/ Cancel(r) \/ Crash(r) \/ Restart(r)
  BY DEF IngestNext
<1>2. Drawn(r)' /\ Drawn(r) /\ OnePlace(r) /\ AtMostOneRow
  BY <1>1, DrawnIngest DEF Placed
<1>3. SUFFICES AtMostOneRow' /\ OnePlace(r)'
  BY <1>2 DEF Placed, SingleReplica
<1>4. chan[r] \in Seq(Msgs) /\ batch[r] \in Seq(Msgs)
  BY DEF Typed, TypeOK, IngestTypeOK
<1>5. ASSUME Committed' = Committed, raw' = raw PROVE AtMostOneRow'
  BY <1>2, <1>5 DEF AtMostOneRow
<1>6. ASSUME NEW m \in Msgs, Receive(r, m) PROVE AtMostOneRow' /\ OnePlace(r)'
  <2>1. /\ heard'[r] = heard[r] \cup {m} /\ m \notin heard[r]
        /\ chan'[r] = Append(chan[r], m) /\ batch' = batch /\ ipc' = ipc
    BY <1>6 DEF Receive, Typed, TypeOK, IngestTypeOK
  <2>2. Elems(chan'[r]) = Elems(chan[r]) \cup {m} /\ NoTwice(chan'[r])
    BY <1>2, <1>4, <2>1, ElemsOfAppend DEF OnePlace
  <2>3. QED
    BY <1>2, <1>5, <1>6, <2>1, <2>2, RowsKept DEF OnePlace
<1>7. CASE TakeMsg(r)
  <2> DEFINE m == Head(chan[r])
  <2>1. /\ chan[r] # <<>> /\ chan'[r] = Tail(chan[r]) /\ batch'[r] = Append(batch[r], m)
        /\ heard' = heard /\ ipc[r] = "select" /\ m \in Msgs
    BY <1>4, <1>7 DEF TakeMsg, Typed, TypeOK, IngestTypeOK
  <2>2. /\ Elems(chan[r]) = Elems(chan'[r]) \cup {m}
        /\ m \notin Elems(chan'[r]) /\ NoTwice(chan'[r])
    BY <1>2, <1>4, <2>1, ElemsOfTail DEF OnePlace
  <2>3. m \notin Elems(batch[r])
    BY <1>2, <2>2 DEF OnePlace
  <2>4. Elems(batch'[r]) = Elems(batch[r]) \cup {m} /\ NoTwice(batch'[r])
    BY <1>2, <1>4, <2>1, <2>3, ElemsOfAppend DEF OnePlace
  <2>5. QED
    BY <1>2, <1>5, <1>7, <2>1, <2>2, <2>4, RowsKept DEF OnePlace
<1>8. CASE TimerFires(r) \/ NextVal(r) \/ Cancel(r) \/ Restart(r)
  <2>1. UNCHANGED <<heard, chan, batch>> /\ (ipc'[r] # "publish" => ipc[r] # "publish")
    BY <1>8 DEF TimerFires, NextVal, Cancel, Restart
  <2>2. QED
    BY <1>2, <1>5, <1>8, <2>1, RowsKept DEF OnePlace
<1>9. CASE ReserveFails(r) \/ Publish(r) \/ PublishFails(r) \/ Stop(r) \/ Crash(r)
  <2>1. heard' = heard /\ batch'[r] = <<>> /\ chan'[r] \in {chan[r], <<>>}
    BY <1>9 DEF ReserveFails, Publish, PublishFails, Stop, Crash, EndFlush,
                Typed, TypeOK, IngestTypeOK
  <2>2. QED
    BY <1>2, <1>5, <1>9, <2>1, RowsKept, ElemsOfEmpty DEF OnePlace
<1>10. CASE Copy(r)
  <2>1. /\ ipc[r] = "copy" /\ ipc'[r] = "publish" /\ raw' = WithBatch(r)
        /\ UNCHANGED <<heard, chan, batch>>
    BY <1>10 DEF Copy, Typed, TypeOK, IngestTypeOK
  <2>2. Stored' = Stored \cup Elems(batch[r])
    BY <1>2, <2>1, RowsWritten
  <2>3. AtMostOneRow'
    BY <1>2, <2>1, WriteKeepsApart
  <2>4. QED
    BY <1>2, <2>1, <2>2, <2>3 DEF OnePlace
<1>11. CASE CopyFails(r)
  <2>1. /\ ipc[r] = "copy" /\ raw' \in {raw, WithBatch(r)}
        /\ heard' = heard /\ chan' = chan /\ batch'[r] = <<>>
    BY <1>11 DEF CopyFails, EndFlush, Typed, TypeOK, IngestTypeOK
  <2>2. Stored' \subseteq Stored \cup Elems(batch[r])
    <3>1. CASE raw' = raw
      BY <3>1 DEF Stored, Committed
    <3>2. CASE raw' = WithBatch(r)
      BY <1>2, <2>1, <3>2, RowsWritten
    <3>3. QED
      BY <2>1, <3>1, <3>2
  <2>3. AtMostOneRow'
    BY <1>2, <1>5, <2>1, WriteKeepsApart DEF Committed
  <2>4. QED
    BY <1>2, <2>1, <2>2, <2>3, ElemsOfEmpty DEF OnePlace
<1>12. QED
  BY <1>1, <1>6, <1>7, <1>8, <1>9, <1>10, <1>11 DEF IngestStep

(* The projector touches neither the rows nor what ingest holds. *)
LEMMA RowsOnlyRead == ASSUME ProjectorNext PROVE raw' = raw
  BY DEF ProjectorNext, ProjectorStep, Start, StartFails, Reset, Fetch, FetchFails, Process,
     ProcessFails, ProcessUnacked, Connect, Notified, SessionLost, ProjectorCrash, logVars

LEMMA PlacedStep ==
  ASSUME SingleReplica, Typed, InOrder, Placed, [Next]_vars PROVE Placed'
<1>1. CASE IngestNext
  BY <1>1, PlacedIngest
<1>2. CASE raw' = raw /\ UNCHANGED ingestVars
  <2>1. /\ Committed' = Committed /\ Stored' = Stored
        /\ UNCHANGED <<raw, ipc, heard, chan, batch, ids>>
    BY <1>2 DEF Committed, Stored, ingestVars
  <2>2. AtMostOneRow'
    BY <2>1 DEF Placed, AtMostOneRow
  <2>3. ASSUME NEW r \in Replica PROVE Drawn(r)' /\ OnePlace(r)'
    BY <2>1 DEF Placed, Drawn, OnePlace
  <2>4. QED
    BY <2>2, <2>3 DEF Placed
<1>3. QED
  BY <1>1, <1>2, RowsOnlyRead DEF Next, vars, logVars

(* flush never stores a message of one replica twice: it gives a batch up    *)
(* whose insert failed, rows that were committed all the same included, and  *)
(* the next one holds other messages.                                        *)
THEOREM AtMostOneRowHolds == ASSUME SingleReplica PROVE Spec => []AtMostOneRow
<1>1. Placed => AtMostOneRow
  BY DEF Placed
<1>2. SingleReplica
  OBVIOUS
<1>3. Typed /\ InOrder /\ [Next]_vars => InOrder'
  BY <1>2, InOrderStep
<1>4. Typed /\ InOrder /\ Placed /\ [Next]_vars => Placed'
  BY <1>2, PlacedStep
<1>5. QED
  BY <1>1, <1>3, <1>4, InOrderInit, PlacedInit, Typing, PTL DEF Spec

-----------------------------------------------------------------------------
Quota == IngestBatch + ChanCap

(* Messages that the replica would lose if it stopped now. *)
Owing(r) == IF ipc[r] = "publish" THEN Len(chan[r]) ELSE Len(chan[r]) + Len(batch[r])

(* Channel and batch are bounded, what is to be published is stored, and a  *)
(* replica that stopped holds nothing.                                      *)
Bounded(r) ==
    /\ Len(chan[r]) <= ChanCap
    /\ Len(batch[r]) <= IngestBatch
    /\ ipc[r] = "select" => Len(batch[r]) < IngestBatch
    /\ ipc[r] = "publish" => Elems(batch[r]) \subseteq Stored
    /\ ipc[r] = "stopped" => chan[r] = <<>> /\ batch[r] = <<>>

(* Each fault pays for a full channel and a full batch; once the context is *)
(* cancelled, what is still held is paid for as well, since all of it goes.  *)
Paid(r) ==
    /\ Cardinality(Lost(r)) <= faults * Quota
    /\ cancelled[r] => Cardinality(Lost(r)) + Owing(r) <= faults * Quota

Accounted == \A r \in Replica : Bounded(r) /\ Paid(r)

LEMMA Payments ==
  ASSUME NEW f \in Nat
  PROVE  Quota \in Nat /\ f * Quota \in Nat /\ (f + 1) * Quota = f * Quota + Quota
  BY DEF Quota

LEMMA FiniteMsgs == ASSUME NEW S \in SUBSET Msgs PROVE IsFiniteSet(S) /\ Cardinality(S) \in Nat
<1>1. IsFiniteSet(Msgs)
  BY FS_Interval DEF Msgs
<1>2. IsFiniteSet(S)
  BY <1>1, FS_Subset
<1>3. QED
  BY <1>2, FS_CardinalityType

(* Dropping a sequence of messages loses no more than its length. *)
LEMMA LossCounted ==
  ASSUME NEW A \in SUBSET Msgs, NEW B \in SUBSET Msgs, NEW s \in Seq(Msgs),
         B \subseteq A \cup Elems(s)
  PROVE  Cardinality(B) <= Cardinality(A) + Len(s)
<1>1. /\ IsFiniteSet(A) /\ IsFiniteSet(Elems(s)) /\ IsFiniteSet(B)
      /\ Cardinality(A) \in Nat /\ Cardinality(B) \in Nat
      /\ Cardinality(Elems(s)) \in Nat /\ Cardinality(Elems(s)) <= Len(s)
  BY FiniteMsgs, ElemsCounted
<1>2. /\ IsFiniteSet(A \cup Elems(s))
      /\ Cardinality(A \cup Elems(s)) =
           Cardinality(A) + Cardinality(Elems(s)) - Cardinality(A \cap Elems(s))
  BY <1>1, FS_Union
<1>3. Cardinality(A \cap Elems(s)) \in Nat
  BY FiniteMsgs
<1>4. Cardinality(B) <= Cardinality(A \cup Elems(s))
  BY <1>2, FS_Subset
<1>5. Len(s) \in Nat
  OBVIOUS
<1>6. QED
  BY <1>1, <1>2, <1>3, <1>4, <1>5

LEMMA LostIs ==
  ASSUME NEW r \in Replica
  PROVE  /\ Lost(r) = heard[r] \ (Stored \cup Elems(chan[r]) \cup Elems(batch[r]))
         /\ Lost(r)' = heard'[r] \ (Stored' \cup Elems(chan'[r]) \cup Elems(batch'[r]))
  BY DEF Lost, Stored, Elems

LEMMA AccountedInit == Init => Accounted
<1> SUFFICES ASSUME Init, NEW r \in Replica PROVE Bounded(r) /\ Paid(r)
  BY DEF Accounted
<1>1. /\ chan[r] = <<>> /\ batch[r] = <<>> /\ heard[r] = {} /\ ipc[r] = "select"
      /\ cancelled[r] = FALSE /\ faults = 0
  BY DEF Init, RawLogInit, IngestInit
<1>2. Lost(r) = {}
  BY <1>1, LostIs
<1>3. Cardinality(Lost(r)) = 0
  BY <1>2, FS_EmptySet
<1>4. 0 * Quota = 0
  BY DEF Quota
<1>5. QED
  BY <1>1, <1>3, <1>4 DEF Bounded, Paid

LEMMA BoundedIngest ==
  ASSUME SingleReplica, Typed, InOrder, Placed, NEW r \in Replica, Bounded(r),
         \/ \E m \in Msgs : Receive(r, m)
         \/ IngestStep(r)
         \/ Cancel(r) \/ Crash(r) \/ Restart(r)
  PROVE  Bounded(r)'
<1> USE DEF Bounded
<1>1. /\ chan[r] \in Seq(Msgs) /\ batch[r] \in Seq(Msgs)
      /\ Len(chan[r]) \in Nat /\ Len(batch[r]) \in Nat
      /\ Len(<<>>) = 0
  BY DEF Typed, TypeOK, IngestTypeOK
<1>2. ASSUME NEW m \in Msgs, Receive(r, m) PROVE Bounded(r)'
  <2>1. /\ chan'[r] = Append(chan[r], m) /\ Len(chan[r]) < ChanCap
        /\ ipc[r] # "stopped" /\ UNCHANGED <<ipc, batch>>
    BY <1>2 DEF Receive, Typed, TypeOK, IngestTypeOK
  <2>2. Len(chan'[r]) = Len(chan[r]) + 1
    BY <1>1, <2>1
  <2>3. QED
    BY <1>1, <1>2, <2>1, <2>2, RowsKept
<1>3. CASE TakeMsg(r)
  <2>1. /\ chan[r] # <<>> /\ ipc[r] = "select"
        /\ chan'[r] = Tail(chan[r]) /\ batch'[r] = Append(batch[r], Head(chan[r]))
        /\ ipc'[r] = IF Len(batch[r]) + 1 >= IngestBatch THEN "reserve" ELSE "select"
    BY <1>3 DEF TakeMsg, Typed, TypeOK, IngestTypeOK
  <2>2. Len(chan'[r]) = Len(chan[r]) - 1 /\ Len(batch'[r]) = Len(batch[r]) + 1
    BY <1>1, <2>1
  <2>3. QED
    BY <1>1, <2>1, <2>2
<1>4. CASE TimerFires(r) \/ NextVal(r)
  <2>1. UNCHANGED <<chan, batch>> /\ ipc'[r] \in {"reserve", "copy"}
    BY <1>4 DEF TimerFires, NextVal, Typed, TypeOK, IngestTypeOK
  <2>2. QED
    BY <2>1
<1>5. CASE ReserveFails(r) \/ CopyFails(r) \/ Publish(r) \/ PublishFails(r)
  <2>1. chan' = chan /\ batch'[r] = <<>> /\ ipc'[r] = "select"
    BY <1>5 DEF ReserveFails, CopyFails, Publish, PublishFails, EndFlush,
                Typed, TypeOK, IngestTypeOK
  <2>2. QED
    BY <1>1, <2>1
<1>6. CASE Stop(r) \/ Crash(r)
  <2>1. chan'[r] = <<>> /\ batch'[r] = <<>> /\ ipc'[r] = "stopped"
    BY <1>6 DEF Stop, Crash, EndFlush, Typed, TypeOK, IngestTypeOK
  <2>2. QED
    BY <1>1, <2>1
<1>7. CASE Copy(r)
  <2>1. /\ ipc[r] = "copy" /\ ipc'[r] = "publish" /\ raw' = WithBatch(r)
        /\ UNCHANGED <<chan, batch>>
    BY <1>7 DEF Copy, Typed, TypeOK, IngestTypeOK
  <2>2. Stored' = Stored \cup Elems(batch[r])
    BY <2>1, RowsWritten DEF Placed
  <2>3. QED
    BY <2>1, <2>2
<1>8. CASE Cancel(r)
  BY <1>8, RowsKept DEF Cancel
<1>9. CASE Restart(r)
  <2>1. ipc[r] = "stopped" /\ ipc'[r] = "select" /\ UNCHANGED <<chan, batch>>
    BY <1>9 DEF Restart, Typed, TypeOK, IngestTypeOK
  <2>2. QED
    BY <1>1, <2>1
<1>10. QED
  BY <1>2, <1>3, <1>4, <1>5, <1>6, <1>7, <1>8, <1>9 DEF IngestStep

(* What is lost stays within the messages; a smaller loss costs no more. *)
LEMMA Losses ==
  ASSUME Typed, Typed', NEW r \in Replica
  PROVE  /\ Lost(r) \in SUBSET Msgs /\ Lost(r)' \in SUBSET Msgs
         /\ Cardinality(Lost(r)) \in Nat /\ Cardinality(Lost(r)') \in Nat
         /\ Lost(r)' \subseteq Lost(r) => Cardinality(Lost(r)') <= Cardinality(Lost(r))
<1>1. Lost(r) \in SUBSET Msgs /\ Lost(r)' \in SUBSET Msgs
  BY LostIs DEF Typed, TypeOK, IngestTypeOK
<1>2. IsFiniteSet(Lost(r)) /\ Cardinality(Lost(r)) \in Nat /\ Cardinality(Lost(r)') \in Nat
  BY <1>1, FiniteMsgs
<1>3. QED
  BY <1>1, <1>2, FS_Subset

(* Owing without its IF. *)
OwingIsHeld(r) ==
    /\ Owing(r) \in Nat
    /\ ipc[r] = "publish" => Owing(r) = Len(chan[r])
    /\ ipc[r] # "publish" => Owing(r) = Len(chan[r]) + Len(batch[r])

LEMMA Owed == Typed => \A r \in Replica : OwingIsHeld(r)
<1> SUFFICES ASSUME Typed, NEW r \in Replica PROVE OwingIsHeld(r)
  OBVIOUS
<1> DEFINE c == Len(chan[r])
           b == Len(batch[r])
<1>1. c \in Nat /\ b \in Nat
  BY DEF Typed, TypeOK, IngestTypeOK
<1>2. Owing(r) = IF ipc[r] = "publish" THEN c ELSE c + b
  BY DEF Owing
<1>3. /\ ipc[r] = "publish" => Owing(r) = c
      /\ ipc[r] # "publish" => Owing(r) = c + b
  BY <1>2
<1> HIDE DEF c, b
<1>4. Owing(r) \in Nat
  BY <1>1, <1>3
<1>5. QED
  BY <1>3, <1>4 DEF OwingIsHeld, c, b

LEMMA OwedAfter == Typed' => (\A r \in Replica : OwingIsHeld(r))'
  BY Owed, PTL

LEMMA PaidIngest ==
  ASSUME SingleReplica, Typed, Typed', InOrder, Placed, NEW r \in Replica, Bounded(r), Paid(r),
         \/ \E m \in Msgs : Receive(r, m)
         \/ IngestStep(r)
         \/ Cancel(r) \/ Crash(r) \/ Restart(r)
  PROVE  Paid(r)'
<1> DEFINE before == Cardinality(Lost(r))
           after == Cardinality(Lost(r)')
           budget == faults * Quota
           budgetAfter == faults' * Quota
           inChan == Len(chan[r])
           inBatch == Len(batch[r])
           owing == Owing(r)
           owingAfter == Owing(r)'
           covered == /\ after <= budgetAfter
                      /\ cancelled'[r] => after + owingAfter <= budgetAfter
<1>1. /\ chan[r] \in Seq(Msgs) /\ batch[r] \in Seq(Msgs)
      /\ Len(chan[r]) \in Nat /\ Len(batch[r]) \in Nat
      /\ faults \in Nat /\ cancelled[r] \in BOOLEAN
      /\ Len(<<>>) = 0
  BY DEF Typed, TypeOK, IngestTypeOK, RawLogTypeOK
<1>2. /\ Quota = IngestBatch + ChanCap /\ Quota \in Nat /\ budget \in Nat
      /\ faults' = faults => budgetAfter = budget
      /\ faults' = faults + 1 => budgetAfter = budget + Quota
  BY <1>1, Payments DEF Quota
<1>3. /\ Lost(r) \in SUBSET Msgs /\ Lost(r)' \in SUBSET Msgs
      /\ before \in Nat /\ after \in Nat
      /\ Lost(r)' \subseteq Lost(r) => after <= before
  BY Losses
<1>4. /\ Lost(r) = heard[r] \ (Stored \cup Elems(chan[r]) \cup Elems(batch[r]))
      /\ Lost(r)' = heard'[r] \ (Stored' \cup Elems(chan'[r]) \cup Elems(batch'[r]))
  BY LostIs
<1>5. before <= budget /\ (cancelled[r] => before + owing <= budget)
  BY DEF Paid
<1>6. SUFFICES covered
  BY DEF Paid, Quota
<1>7. /\ owing \in Nat /\ owingAfter \in Nat
      /\ inChan \in Nat /\ inBatch \in Nat
      /\ inChan <= ChanCap /\ inBatch <= IngestBatch
      /\ ipc[r] = "publish" => owing = inChan
      /\ ipc[r] # "publish" => owing = inChan + inBatch
  BY <1>1, Owed, OwedAfter DEF OwingIsHeld, Bounded
<1>8. /\ ipc'[r] = "publish" => owingAfter = Len(chan'[r])
      /\ ipc'[r] # "publish" => owingAfter = Len(chan'[r]) + Len(batch'[r])
  BY OwedAfter DEF OwingIsHeld
<1> HIDE DEF before, after, budget, budgetAfter, inChan, inBatch, owing, owingAfter
<1>9. ASSUME NEW m \in Msgs, Receive(r, m)
      PROVE  covered
  <2>1. /\ heard'[r] = heard[r] \cup {m} /\ chan'[r] = Append(chan[r], m) /\ batch' = batch
        /\ faults' = faults /\ ~cancelled[r] /\ cancelled' = cancelled
    BY <1>9 DEF Receive, Typed, TypeOK, IngestTypeOK, logVars
  <2>2. Lost(r)' \subseteq Lost(r)
    BY <1>1, <1>4, <1>9, <2>1, RowsKept, ElemsOfAppend
  <2>3. QED
    BY <1>2, <1>3, <1>5, <2>1, <2>2
<1>10. CASE TakeMsg(r)
  <2>1. /\ chan[r] # <<>> /\ chan'[r] = Tail(chan[r]) /\ Head(chan[r]) \in Msgs
        /\ batch'[r] = Append(batch[r], Head(chan[r])) /\ heard' = heard
        /\ faults' = faults /\ cancelled' = cancelled
        /\ ipc[r] = "select" /\ ipc'[r] # "publish"
    BY <1>1, <1>10 DEF TakeMsg, Typed, TypeOK, IngestTypeOK, logVars
  <2>2. Lost(r)' \subseteq Lost(r)
    BY <1>1, <1>4, <1>10, <2>1, RowsKept, ElemsOfAppend, ElemsOfTail
  <2>3. Len(chan'[r]) = inChan - 1 /\ Len(batch'[r]) = inBatch + 1
    BY <1>1, <2>1 DEF inChan, inBatch
  <2>4. owingAfter = owing
    <3>1. owingAfter = (inChan - 1) + (inBatch + 1)
      BY <1>8, <2>1, <2>3
    <3>2. QED
      BY <1>7, <2>1, <3>1
  <2>5. QED
    BY <1>2, <1>3, <1>5, <1>7, <2>1, <2>2, <2>4
<1>11. CASE TimerFires(r) \/ NextVal(r)
  <2>1. /\ UNCHANGED <<heard, chan, batch, faults, cancelled>>
        /\ ipc[r] # "publish" /\ ipc'[r] # "publish"
    BY <1>11 DEF TimerFires, NextVal, Typed, TypeOK, IngestTypeOK, logVars
  <2>2. Lost(r)' \subseteq Lost(r)
    BY <1>4, <1>11, <2>1, RowsKept
  <2>3. owingAfter = owing
    BY <1>7, <1>8, <2>1 DEF inChan, inBatch
  <2>4. QED
    BY <1>2, <1>3, <1>5, <1>7, <2>1, <2>2, <2>3
<1>12. CASE Copy(r)
  <2>1. /\ ipc[r] = "copy" /\ ipc'[r] = "publish" /\ raw' = WithBatch(r) /\ ~cancelled[r]
        /\ UNCHANGED <<heard, chan, batch, faults, cancelled>>
    BY <1>12 DEF Copy, Typed, TypeOK, IngestTypeOK
  <2>2. Stored' = Stored \cup Elems(batch[r])
    BY <2>1, RowsWritten DEF Placed
  <2>3. Lost(r)' \subseteq Lost(r)
    BY <1>4, <2>1, <2>2
  <2>4. QED
    BY <1>2, <1>3, <1>5, <2>1, <2>3
(* The batch is given up, paid for by this fault or by the cancellation. *)
<1>13. CASE ReserveFails(r) \/ CopyFails(r)
  <2>1. /\ heard' = heard /\ chan' = chan /\ batch'[r] = <<>> /\ cancelled' = cancelled
        /\ ipc[r] # "publish" /\ ipc'[r] = "select"
        /\ \/ cancelled[r] /\ faults' = faults
           \/ faults' = faults + 1
    BY <1>13 DEF ReserveFails, CopyFails, EndFlush, Fault, Typed, TypeOK, IngestTypeOK
  <2>2. Stored \subseteq Stored'
    <3>1. CASE raw' = raw
      BY <3>1 DEF Stored, Committed
    <3>2. CASE raw' = WithBatch(r) /\ ipc[r] = "copy"
      BY <3>2, RowsWritten DEF Placed
    <3>3. QED
      BY <1>13, <3>1, <3>2 DEF ReserveFails, CopyFails
  <2>3. Lost(r)' \subseteq Lost(r) \cup Elems(batch[r])
    BY <1>4, <2>1, <2>2
  <2>4. after <= before + inBatch
    BY <1>1, <1>3, <2>3, LossCounted DEF before, after, inBatch
  <2>5. owing = inChan + inBatch /\ owingAfter = inChan
    <3>1. owingAfter = inChan + 0
      BY <1>1, <1>8, <2>1 DEF inChan
    <3>2. QED
      BY <1>7, <2>1, <3>1
  <2>6. CASE cancelled[r] /\ faults' = faults
    BY <1>2, <1>3, <1>5, <1>7, <2>1, <2>4, <2>5, <2>6
  <2>7. CASE faults' = faults + 1
    BY <1>1, <1>2, <1>3, <1>5, <1>7, <2>1, <2>4, <2>5, <2>7
  <2>8. QED
    BY <2>1, <2>6, <2>7
<1>14. CASE Publish(r) \/ PublishFails(r)
  <2>1. /\ heard' = heard /\ chan' = chan /\ batch'[r] = <<>> /\ cancelled' = cancelled
        /\ ipc[r] = "publish" /\ ipc'[r] = "select" /\ faults' \in {faults, faults + 1}
    BY <1>14 DEF Publish, PublishFails, EndFlush, Fault, Typed, TypeOK, IngestTypeOK
  <2>2. Lost(r)' \subseteq Lost(r)
    BY <1>4, <1>14, <2>1, RowsKept DEF Bounded
  <2>3. owingAfter = owing /\ budget <= budgetAfter
    <3>1. owingAfter = inChan + 0
      BY <1>1, <1>8, <2>1 DEF inChan
    <3>2. QED
      BY <1>2, <1>7, <2>1, <3>1
  <2>4. QED
    BY <1>1, <1>2, <1>3, <1>5, <1>7, <2>1, <2>2, <2>3
(* All that is held is given up; in a flush whose rows are there, the batch *)
(* is not lost.                                                             *)
<1>15. CASE Stop(r) \/ Crash(r)
  <2> DEFINE halfway == Cardinality(Lost(r) \cup Elems(chan[r]))
  <2>1. /\ heard' = heard /\ chan'[r] = <<>> /\ batch'[r] = <<>> /\ cancelled' = cancelled
        /\ ipc'[r] = "stopped"
        /\ \/ cancelled[r] /\ faults' = faults
           \/ faults' = faults + 1
    BY <1>15 DEF Stop, Crash, EndFlush, Fault, Typed, TypeOK, IngestTypeOK, logVars
  <2>2. Lost(r)' \subseteq (Lost(r) \cup Elems(chan[r])) \cup Elems(batch[r])
    BY <1>4, <1>15, <2>1, RowsKept
  <2>3. ipc[r] = "publish" => Lost(r)' \subseteq Lost(r) \cup Elems(chan[r])
    BY <1>4, <1>15, <2>1, RowsKept DEF Bounded
  <2>4. /\ Lost(r) \cup Elems(chan[r]) \in SUBSET Msgs
        /\ halfway <= before + inChan
        /\ halfway \in Nat
    <3>1. Lost(r) \cup Elems(chan[r]) \in SUBSET Msgs
      BY <1>1, <1>3 DEF Elems
    <3>2. QED
      BY <1>1, <1>3, <3>1, LossCounted, FiniteMsgs DEF before, inChan
  <2> HIDE DEF halfway
  <2>5. owingAfter = 0
    <3>1. owingAfter = 0 + 0
      BY <1>1, <1>8, <2>1
    <3>2. QED
      BY <3>1
  <2>6. after <= before + owing
    <3>1. CASE ipc[r] = "publish"
      <4>1. after <= before + inChan
        BY <1>1, <1>3, <2>3, <3>1, LossCounted DEF before, after, inChan
      <4>2. QED
        BY <1>3, <1>7, <3>1, <4>1
    <3>2. CASE ipc[r] # "publish"
      <4>1. after <= halfway + inBatch
        BY <1>1, <1>3, <2>2, <2>4, LossCounted DEF after, inBatch, halfway
      <4>2. QED
        BY <1>3, <1>7, <2>4, <3>2, <4>1
    <3>3. QED
      BY <3>1, <3>2
  <2>7. QED
    BY <1>2, <1>3, <1>5, <1>7, <2>1, <2>5, <2>6
<1>16. CASE Cancel(r)
  <2>1. /\ UNCHANGED <<heard, chan, batch, ipc>> /\ faults' = faults + 1 /\ ~cancelled[r]
    BY <1>16 DEF Cancel, Fault
  <2>2. Lost(r)' \subseteq Lost(r)
    BY <1>4, <1>16, <2>1, RowsKept
  <2>3. owingAfter = owing
    BY <1>7, <1>8, <2>1 DEF inChan, inBatch
  <2>4. QED
    BY <1>2, <1>3, <1>5, <1>7, <2>1, <2>2, <2>3
<1>17. CASE Restart(r)
  <2>1. UNCHANGED <<heard, chan, batch, faults>> /\ cancelled'[r] = FALSE
    BY <1>17 DEF Restart, Typed, TypeOK, IngestTypeOK, logVars
  <2>2. Lost(r)' \subseteq Lost(r)
    BY <1>4, <1>17, <2>1, RowsKept
  <2>3. QED
    BY <1>1, <1>2, <1>3, <1>5, <1>7, <2>1, <2>2
<1>18. QED
  BY <1>9, <1>10, <1>11, <1>12, <1>13, <1>14, <1>15, <1>16, <1>17 DEF IngestStep

LEMMA AccountedStep ==
  ASSUME SingleReplica, Typed, Typed', InOrder, Placed, Accounted, [Next]_vars
  PROVE  Accounted'
<1>1. CASE IngestNext
  <2>1. PICK r \in Replica :
           \/ \E m \in Msgs : Receive(r, m)
           \/ IngestStep(r)
           \/ Cancel(r) \/ Crash(r) \/ Restart(r)
    BY <1>1 DEF IngestNext
  <2>2. Bounded(r)' /\ Paid(r)'
    BY <2>1, BoundedIngest, PaidIngest DEF Accounted
  <2>3. QED
    BY <2>2 DEF Accounted, SingleReplica
<1>2. CASE raw' = raw /\ UNCHANGED ingestVars /\ faults' \in {faults, faults + 1}
  <2>1. SUFFICES ASSUME NEW r \in Replica PROVE Bounded(r)' /\ Paid(r)'
    BY DEF Accounted
  <2>2. /\ Stored' = Stored /\ Bounded(r) /\ Paid(r)
        /\ UNCHANGED <<heard, chan, batch, ipc, cancelled>>
    BY <1>2 DEF Stored, Committed, ingestVars, Accounted
  <2>3. Bounded(r)'
    BY <2>2 DEF Bounded
  <2>4. Lost(r)' = Lost(r) /\ Owing(r)' = Owing(r)
    BY <2>2, LostIs DEF Owing
  <2> DEFINE loss == Cardinality(Lost(r))
             owing == Owing(r)
             budget == faults * Quota
             budgetAfter == faults' * Quota
  <2>5. loss \in Nat /\ owing \in Nat /\ budget \in Nat /\ budgetAfter \in Nat
    <3>1. loss \in Nat /\ owing \in Nat
      BY Losses, Owed DEF OwingIsHeld
    <3>2. faults \in Nat /\ faults' \in Nat
      BY DEF Typed, TypeOK, RawLogTypeOK
    <3>3. QED
      BY <3>1, <3>2, Payments
  <2>6. budget <= budgetAfter
    <3>1. faults \in Nat
      BY DEF Typed, TypeOK, RawLogTypeOK
    <3>2. Quota \in Nat /\ (faults' = faults + 1 => budgetAfter = budget + Quota)
      BY <3>1, Payments
    <3>3. faults' = faults => budgetAfter = budget
      OBVIOUS
    <3> HIDE DEF budget, budgetAfter
    <3>4. QED
      BY <1>2, <2>5, <3>2, <3>3
  <2>7. Paid(r)'
    <3>1. loss <= budget /\ (cancelled[r] => loss + owing <= budget)
      BY <2>2 DEF Paid
    <3>2. SUFFICES loss <= budgetAfter /\ (cancelled[r] => loss + owing <= budgetAfter)
      BY <2>2, <2>4 DEF Paid, Quota
    <3> HIDE DEF loss, owing, budget, budgetAfter
    <3>3. QED
      BY <2>5, <2>6, <3>1
  <2>8. QED
    BY <2>3, <2>7
<1>3. ASSUME ProjectorNext PROVE raw' = raw /\ faults' \in {faults, faults + 1}
  BY <1>3, RowsOnlyRead
     DEF ProjectorNext, ProjectorStep, Start, StartFails, Reset, Fetch, FetchFails, Process,
         ProcessFails, ProcessUnacked, Connect, Notified, SessionLost, ProjectorCrash, Fault,
         logVars
<1>4. QED
  BY <1>1, <1>2, <1>3 DEF Next, vars, logVars

(* A failed insert, a SIGTERM (after which the last flush cannot succeed) or *)
(* a crash costs one batch and what the channel holds, and no other message  *)
(* that a callback accepted is lost.                                         *)
THEOREM LossBoundedHolds == ASSUME SingleReplica PROVE Spec => []LossBounded
<1>1. Accounted => LossBounded
  <2> SUFFICES ASSUME Accounted, NEW r \in Replica
               PROVE  Cardinality(Lost(r)) <= faults * (IngestBatch + ChanCap)
    BY DEF LossBounded
  <2>1. Cardinality(Lost(r)) <= faults * Quota
    BY DEF Accounted, Paid
  <2>2. QED
    BY <2>1 DEF Quota
<1>2. SingleReplica
  OBVIOUS
<1>3. Typed /\ InOrder /\ [Next]_vars => InOrder'
  BY <1>2, InOrderStep
<1>4. Typed /\ InOrder /\ Placed /\ [Next]_vars => Placed'
  BY <1>2, PlacedStep
<1>5. Typed /\ Typed' /\ InOrder /\ Placed /\ Accounted /\ [Next]_vars => Accounted'
  BY <1>2, AccountedStep
<1>6. QED
  BY <1>1, <1>3, <1>4, <1>5, InOrderInit, PlacedInit, AccountedInit, Typing, PTL DEF Spec
=============================================================================

--------------------------- MODULE StartupProofs ----------------------------
(***************************************************************************)
(* Theorems about the processes' starts, for any number of processes and   *)
(* releases, any calendar and any number of faults.                        *)
(***************************************************************************)
EXTENDS Startup, TLAPS

USE MigrationsAssumption, PartitionsAssumption, StartupAssumption

-----------------------------------------------------------------------------
(* The migrations of a schema are applied from the first one on: all up to   *)
(* its version if it is not dirty, else all but perhaps the last.            *)
MigrationsTyped ==
    /\ version \in [Schema -> Nat]
    /\ dirty \in [Schema -> BOOLEAN]
    /\ applied \in [Schema -> SUBSET Nat]
    /\ \/ job = NoJob
       \/ job \in [release : Release, at : 1..2, step : {"open", "next", "run", "clean"}]

AppliedInOrder(s) ==
    /\ \A v \in Nat : 1 <= v /\ v < version[s] => v \in applied[s]
    /\ ~dirty[s] /\ version[s] >= 1 => version[s] \in applied[s]
    /\ Migrating(s) /\ job.step = "next" => ~dirty[s]
    /\ Migrating(s) /\ job.step = "clean" => version[s] \in applied[s]

MigrationsInv == MigrationsTyped /\ \A s \in Schema : AppliedInOrder(s)

JobMoves == JobStep \/ JobDies \/ \E r \in Release : StartJob(r)

LEMMA MigrationsStep ==
  ASSUME MigrationsInv, JobMoves \/ UNCHANGED migrationVars
  PROVE  MigrationsInv' /\ \A s \in Schema : applied[s] \subseteq applied'[s]
<1> USE DEF MigrationsInv, MigrationsTyped, AppliedInOrder, Schema, SchemaOrder,
            Migrating, NoJob
<1>1. CASE UNCHANGED migrationVars
  BY <1>1 DEF migrationVars
<1>2. CASE JobDies
  BY <1>2 DEF JobDies
<1>3. ASSUME NEW r \in Release, StartJob(r)
      PROVE  MigrationsInv' /\ \A s \in Schema : applied[s] \subseteq applied'[s]
  BY <1>3 DEF StartJob
<1>4. ASSUME NEW s \in Schema, Refuse(s)
      PROVE  MigrationsInv' /\ \A x \in Schema : applied[x] \subseteq applied'[x]
  <2>1. MigrationsTyped'
    BY <1>4 DEF Refuse
  <2>2. ASSUME NEW x \in Schema PROVE AppliedInOrder(x)' /\ applied[x] \subseteq applied'[x]
    BY <1>4, <2>1 DEF Refuse
  <2>3. QED
    BY <2>1, <2>2
<1>5. ASSUME NEW s \in Schema, Open(s)
      PROVE  MigrationsInv' /\ \A x \in Schema : applied[x] \subseteq applied'[x]
  <2>1. MigrationsTyped'
    BY <1>5 DEF Open
  <2>2. ASSUME NEW x \in Schema PROVE AppliedInOrder(x)' /\ applied[x] \subseteq applied'[x]
    BY <1>5, <2>1 DEF Open
  <2>3. QED
    BY <2>1, <2>2
<1>6. ASSUME NEW s \in Schema, SchemaDone(s)
      PROVE  MigrationsInv' /\ \A x \in Schema : applied[x] \subseteq applied'[x]
  <2>1. MigrationsTyped'
    <3>1. CASE job.at < 2
      <4>1. /\ job \in [release : Release, at : 1..2, step : {"open", "next", "run", "clean"}]
            /\ job' = [job EXCEPT !.at = @ + 1, !.step = "open"]
        BY <1>6, <3>1 DEF SchemaDone
      <4>2. job.at + 1 \in 1..2
        BY <3>1, <4>1
      <4>3. QED
        BY <1>6, <4>1, <4>2 DEF SchemaDone
    <3>2. CASE ~(job.at < 2)
      BY <1>6, <3>2 DEF SchemaDone
    <3>3. QED
      BY <3>1, <3>2
  <2>2. ASSUME NEW x \in Schema PROVE AppliedInOrder(x)' /\ applied[x] \subseteq applied'[x]
    BY <1>6, <2>1 DEF SchemaDone
  <2>3. QED
    BY <2>1, <2>2
<1>7. ASSUME NEW s \in Schema, Mark(s)
      PROVE  MigrationsInv' /\ \A x \in Schema : applied[x] \subseteq applied'[x]
  <2>1. MigrationsTyped'
    BY <1>7 DEF Mark
  <2>2. ASSUME NEW x \in Schema PROVE AppliedInOrder(x)' /\ applied[x] \subseteq applied'[x]
    BY <1>7, <2>1 DEF Mark
  <2>3. QED
    BY <2>1, <2>2
<1>8. ASSUME NEW s \in Schema, RunSQL(s)
      PROVE  MigrationsInv' /\ \A x \in Schema : applied[x] \subseteq applied'[x]
  <2>1. MigrationsTyped'
    <3>1. version[s] \in Nat /\ applied[s] \cup {version[s]} \in SUBSET Nat
      OBVIOUS
    <3>2. applied' \in [Schema -> SUBSET Nat]
      BY <1>8, <3>1 DEF RunSQL
    <3>3. job' \in [release : Release, at : 1..2, step : {"open", "next", "run", "clean"}]
      BY <1>8 DEF RunSQL
    <3>4. QED
      BY <1>8, <3>2, <3>3 DEF RunSQL
  <2>2. ASSUME NEW x \in Schema PROVE AppliedInOrder(x)' /\ applied[x] \subseteq applied'[x]
    BY <1>8, <2>1 DEF RunSQL
  <2>3. QED
    BY <2>1, <2>2
<1>9. ASSUME NEW s \in Schema, Clean(s)
      PROVE  MigrationsInv' /\ \A x \in Schema : applied[x] \subseteq applied'[x]
  <2>1. MigrationsTyped'
    BY <1>9 DEF Clean
  <2>2. ASSUME NEW x \in Schema PROVE AppliedInOrder(x)' /\ applied[x] \subseteq applied'[x]
    BY <1>9, <2>1 DEF Clean
  <2>3. QED
    BY <2>1, <2>2
<1>10. QED
  BY <1>1, <1>2, <1>3, <1>4, <1>5, <1>6, <1>7, <1>8, <1>9 DEF JobMoves, JobStep

-----------------------------------------------------------------------------
(* A call has ensured the months that it has taken off its list, and the     *)
(* month that it records was created: partitions never go.                   *)
PartitionsTyped ==
    /\ now \in Moments
    /\ parts \in [Table -> SUBSET Nat]
    /\ recorded \in [Table -> SUBSET Nat]
    /\ inDefault \in [Table -> SUBSET Nat]
    /\ completed \in [Table -> SUBSET Moments]
    /\ refused \in [Table -> SUBSET Nat]
    /\ call \in [Proc -> [on : Moments, todo : Seq(Nat),
                          step : {"none", "check", "create", "record"}]]

Covered(p) ==
    LET this == call[p].on.month
        next == MonthLater(call[p].on)
        have == parts[TableOf[p]]
    IN  \/ /\ call[p].todo = <<this, next>>
        \/ /\ call[p].todo = <<next>> /\ this \in have
        \/ /\ call[p].todo = <<>> /\ this \in have /\ next \in have

CallInv(p) ==
    /\ Calling(p) => Covered(p)
    /\ call[p].step \in {"create", "record"} => call[p].todo # <<>>
    /\ call[p].step = "record" => Head(call[p].todo) \in parts[TableOf[p]]

TableInv(t) ==
    /\ recorded[t] \subseteq parts[t]
    /\ \A d \in completed[t] : d.month \in parts[t] /\ MonthLater(d) \in parts[t]
    /\ \A m \in refused[t] : m \in inDefault[t] /\ m \notin parts[t]

PartitionsInv ==
    /\ PartitionsTyped
    /\ \A p \in Proc : CallInv(p)
    /\ \A t \in Table : TableInv(t)

CallMoves(p) ==
    BeginCall(p) \/ CallStep(p) \/ ReturnCall(p) \/ RefuseCall(p) \/ BreakCall(p)

PartitionMoves ==
    \/ Tomorrow
    \/ \E p \in Proc : CallMoves(p)
    \/ \E t \in Table, m \in Nat : Insert(t, m)

LEMMA MonthsAhead ==
  ASSUME NEW d \in Moments
  PROVE  /\ d.month \in Nat /\ MonthLater(d) \in Nat
         /\ MonthsOf(d) = <<d.month, MonthLater(d)>> /\ MonthsOf(d) \in Seq(Nat)
  BY DEF MonthLater, MonthsOf, LastMonth

(* What a call does to the list of its months. *)
LEMMA ListShrinks ==
  ASSUME PartitionsTyped, NEW p \in Proc, call[p].todo # <<>>
  PROVE  /\ Head(call[p].todo) \in Nat
         /\ NextMonth(p) \in [on : Moments, todo : Seq(Nat),
                              step : {"none", "check", "create", "record"}]
         /\ NextMonth(p).on = call[p].on
         /\ NextMonth(p).todo = Tail(call[p].todo)
         /\ NextMonth(p).step = "check"
<1>1. call[p] \in [on : Moments, todo : Seq(Nat), step : {"none", "check", "create", "record"}]
  BY DEF PartitionsTyped
<1>2. call[p].todo \in Seq(Nat)
  BY <1>1
<1>3. Head(call[p].todo) \in Nat /\ Tail(call[p].todo) \in Seq(Nat)
  BY <1>2
<1>4. QED
  BY <1>1, <1>3 DEF NextMonth

(* A call that takes a step or is replaced keeps its type. *)
LEMMA CallTyped ==
  ASSUME PartitionsTyped, NEW p \in Proc,
         \/ \E s \in {"none", "check", "create", "record"} :
              call' = [call EXCEPT ![p].step = s]
         \/ \E next \in [on : Moments, todo : Seq(Nat),
                         step : {"none", "check", "create", "record"}] :
              call' = [call EXCEPT ![p] = next]
  PROVE  call' \in [Proc -> [on : Moments, todo : Seq(Nat),
                             step : {"none", "check", "create", "record"}]]
<1> DEFINE Calls == [on : Moments, todo : Seq(Nat), step : {"none", "check", "create", "record"}]
<1>1. call \in [Proc -> Calls] /\ call[p] \in Calls
  BY DEF PartitionsTyped
<1>2. ASSUME NEW next \in Calls, call' = [call EXCEPT ![p] = next] PROVE call' \in [Proc -> Calls]
  <2> HIDE DEF Calls
  <2>1. QED
    BY <1>1, <1>2
<1>3. ASSUME NEW s \in {"none", "check", "create", "record"},
             call' = [call EXCEPT ![p].step = s]
      PROVE  call' \in [Proc -> Calls]
  <2>1. [call[p] EXCEPT !.step = s] \in Calls
    BY <1>1
  <2>2. call' = [call EXCEPT ![p] = [call[p] EXCEPT !.step = s]]
    BY <1>3
  <2>3. QED
    BY <1>2, <2>1, <2>2
<1>4. QED
  BY <1>2, <1>3

LEMMA CoveredShrinks ==
  ASSUME NEW p \in Proc, Covered(p), call[p].todo # <<>>,
         Head(call[p].todo) \in parts[TableOf[p]]
  PROVE  LET this == call[p].on.month
             next == MonthLater(call[p].on)
             have == parts[TableOf[p]]
         IN  \/ Tail(call[p].todo) = <<next>> /\ this \in have
             \/ Tail(call[p].todo) = <<>> /\ this \in have /\ next \in have
<1> DEFINE this == call[p].on.month
           next == MonthLater(call[p].on)
<1>1. CASE call[p].todo = <<this, next>>
  <2>1. Head(call[p].todo) = this /\ Tail(call[p].todo) = <<next>>
    BY <1>1
  <2>2. QED
    BY <2>1
<1>2. CASE call[p].todo = <<next>> /\ this \in parts[TableOf[p]]
  <2>1. Head(call[p].todo) = next /\ Tail(call[p].todo) = <<>>
    BY <1>2
  <2>2. QED
    BY <1>2, <2>1
<1>3. QED
  BY <1>1, <1>2 DEF Covered

LEMMA PartitionsStep ==
  ASSUME PartitionsInv, PartitionMoves \/ UNCHANGED partitionVars
  PROVE  PartitionsInv'
<1> USE DEF PartitionsInv
<1>1. CASE UNCHANGED partitionVars
  BY <1>1 DEF partitionVars, PartitionsTyped, CallInv, TableInv, Covered, Calling
<1>2. CASE Tomorrow
  <2>1. PartitionsTyped'
    BY <1>2 DEF Tomorrow, PartitionsTyped
  <2>2. QED
    BY <1>2, <2>1 DEF Tomorrow, CallInv, TableInv, Covered, Calling
<1>3. ASSUME NEW t \in Table, NEW m \in Nat, Insert(t, m) PROVE PartitionsInv'
  <2>1. PartitionsTyped'
    BY <1>3 DEF Insert, PartitionsTyped
  <2>2. ASSUME NEW x \in Table PROVE TableInv(x)'
    BY <1>3 DEF Insert, PartitionsTyped, TableInv
  <2>3. QED
    BY <1>3, <2>1, <2>2 DEF Insert, CallInv, Covered, Calling
<1>4. ASSUME NEW p \in Proc, BeginCall(p) PROVE PartitionsInv'
  <2>1. /\ now \in Moments /\ MonthsOf(now) \in Seq(Nat)
        /\ MonthsOf(now) = <<now.month, MonthLater(now)>>
    BY MonthsAhead DEF PartitionsTyped
  <2>2. PartitionsTyped'
    BY <1>4, <2>1 DEF BeginCall, PartitionsTyped
  <2>3. ASSUME NEW q \in Proc PROVE CallInv(q)'
    BY <1>4, <2>1 DEF BeginCall, PartitionsTyped, CallInv, Covered, Calling
  <2>4. QED
    BY <1>4, <2>2, <2>3 DEF BeginCall, TableInv
<1>5. ASSUME NEW p \in Proc, BreakCall(p) PROVE PartitionsInv'
  <2>1. PartitionsTyped'
    BY <1>5 DEF BreakCall, PartitionsTyped, NoCall
  <2>2. ASSUME NEW q \in Proc PROVE CallInv(q)'
    BY <1>5 DEF BreakCall, NoCall, PartitionsTyped, CallInv, Covered, Calling
  <2>3. QED
    BY <1>5, <2>1, <2>2 DEF BreakCall, TableInv
<1>6. ASSUME NEW p \in Proc, CheckState(p) PROVE PartitionsInv'
  <2> DEFINE m == Head(call[p].todo)
  <2>1. /\ call[p].step = "check" /\ call[p].todo # <<>> /\ Covered(p)
        /\ UNCHANGED <<now, parts, recorded, inDefault, completed, refused>>
        /\ call \in [Proc -> [on : Moments, todo : Seq(Nat),
                              step : {"none", "check", "create", "record"}]]
    BY <1>6 DEF CheckState, CallInv, Calling, PartitionsTyped
  <2>2. CASE m \in recorded[TableOf[p]]
    <3>1. m \in parts[TableOf[p]]
      BY <2>2 DEF TableInv
    <3>2. call' = [call EXCEPT ![p] = NextMonth(p)]
      BY <1>6, <2>2 DEF CheckState
    <3>3. PartitionsTyped'
      BY <2>1, <3>2, ListShrinks, CallTyped DEF PartitionsTyped
    <3>4. CallInv(p)'
      <4>1. call'[p] = NextMonth(p)
        BY <2>1, <3>2
      <4>2. Covered(p)'
        BY <2>1, <3>1, <4>1, ListShrinks, CoveredShrinks DEF Covered
      <4>3. QED
        BY <4>1, <4>2, ListShrinks, <2>1 DEF CallInv
    <3>5. QED
      BY <2>1, <3>2, <3>3, <3>4 DEF CallInv, TableInv, Covered, Calling
  <2>3. CASE m \notin recorded[TableOf[p]]
    <3>1. call' = [call EXCEPT ![p].step = "create"]
      BY <1>6, <2>3 DEF CheckState
    <3>2. PartitionsTyped'
      BY <2>1, <3>1, CallTyped DEF PartitionsTyped
    <3>3. CallInv(p)'
      BY <2>1, <3>1 DEF CallInv, Covered, Calling
    <3>4. QED
      BY <2>1, <3>1, <3>2, <3>3 DEF CallInv, TableInv, Covered, Calling
  <2>4. QED
    BY <2>2, <2>3
<1>7. ASSUME NEW p \in Proc, Create(p) PROVE PartitionsInv'
  <2> DEFINE t == TableOf[p]
             m == Head(call[p].todo)
  <2>1. /\ call[p].step = "create" /\ call[p].todo # <<>> /\ Covered(p)
        /\ m \in parts[t] \/ m \notin inDefault[t]
        /\ parts' = [parts EXCEPT ![t] = @ \cup {m}]
        /\ call' = [call EXCEPT ![p].step = "record"]
        /\ UNCHANGED <<now, recorded, inDefault, completed, refused>>
        /\ m \in Nat /\ t \in Table
    BY <1>7, ListShrinks DEF Create, CallInv, Calling
  <2>2. PartitionsTyped'
    <3>1. parts[t] \cup {m} \in SUBSET Nat
      BY <2>1 DEF PartitionsTyped
    <3>2. parts' \in [Table -> SUBSET Nat]
      BY <2>1, <3>1 DEF PartitionsTyped
    <3>3. call' \in [Proc -> [on : Moments, todo : Seq(Nat),
                             step : {"none", "check", "create", "record"}]]
      BY <2>1, CallTyped
    <3>4. QED
      BY <2>1, <3>2, <3>3 DEF PartitionsTyped
  <2>3. \A x \in Table : parts[x] \subseteq parts'[x]
    BY <2>1 DEF PartitionsTyped
  <2>4. m \in parts'[t]
    BY <2>1 DEF PartitionsTyped
  <2>5. ASSUME NEW q \in Proc \ {p} PROVE CallInv(q)'
    BY <2>1, <2>3 DEF PartitionsTyped, CallInv, Covered, Calling
  <2>6. CallInv(p)'
    BY <2>1, <2>3, <2>4 DEF PartitionsTyped, CallInv, Covered, Calling
  <2>7. ASSUME NEW x \in Table PROVE TableInv(x)'
    BY <2>1, <2>3 DEF PartitionsTyped, TableInv
  <2>8. QED
    BY <2>2, <2>5, <2>6, <2>7
<1>8. ASSUME NEW p \in Proc, Record(p) PROVE PartitionsInv'
  <2> DEFINE t == TableOf[p]
             m == Head(call[p].todo)
  <2>1. /\ call[p].step = "record" /\ call[p].todo # <<>> /\ Covered(p) /\ m \in parts[t]
        /\ recorded' = [recorded EXCEPT ![t] = @ \cup {m}]
        /\ call' = [call EXCEPT ![p] = NextMonth(p)]
        /\ UNCHANGED <<now, parts, inDefault, completed, refused>>
        /\ m \in Nat /\ t \in Table
    BY <1>8, ListShrinks DEF Record, CallInv, Calling
  <2>2. PartitionsTyped'
    <3>1. recorded[t] \cup {m} \in SUBSET Nat
      BY <2>1 DEF PartitionsTyped
    <3>2. recorded' \in [Table -> SUBSET Nat]
      BY <2>1, <3>1 DEF PartitionsTyped
    <3>3. call' \in [Proc -> [on : Moments, todo : Seq(Nat),
                             step : {"none", "check", "create", "record"}]]
      BY <2>1, ListShrinks, CallTyped
    <3>4. QED
      BY <2>1, <3>2, <3>3 DEF PartitionsTyped
  <2>3. CallInv(p)'
    <3>1. call'[p] = NextMonth(p) /\ parts' = parts
      BY <2>1 DEF PartitionsTyped
    <3>2. Covered(p)'
      <4>1. /\ call'[p].on = call[p].on
            /\ call'[p].todo = Tail(call[p].todo)
        BY <2>1, <3>1, ListShrinks
      <4>2. QED
        BY <2>1, <3>1, <4>1, CoveredShrinks DEF Covered
    <3>3. QED
      BY <2>1, <3>1, <3>2, ListShrinks DEF CallInv
  <2>4. ASSUME NEW q \in Proc \ {p} PROVE CallInv(q)'
    BY <2>1 DEF PartitionsTyped, CallInv, Covered, Calling
  <2>5. ASSUME NEW x \in Table PROVE TableInv(x)'
    BY <2>1 DEF PartitionsTyped, TableInv
  <2>6. QED
    BY <2>2, <2>3, <2>4, <2>5
<1>9. ASSUME NEW p \in Proc, ReturnCall(p) PROVE PartitionsInv'
  <2> DEFINE t == TableOf[p]
             d == call[p].on
  <2>1. /\ call[p].todo = <<>> /\ Covered(p)
        /\ completed' = [completed EXCEPT ![t] = @ \cup {d}]
        /\ call' = [call EXCEPT ![p] = NoCall]
        /\ UNCHANGED <<now, parts, recorded, inDefault, refused>>
        /\ d \in Moments /\ t \in Table
    BY <1>9 DEF ReturnCall, CallInv, Calling, PartitionsTyped
  <2>2. d.month \in parts[t] /\ MonthLater(d) \in parts[t]
    BY <2>1 DEF Covered
  <2>3. PartitionsTyped'
    BY <2>1 DEF PartitionsTyped, NoCall
  <2>4. ASSUME NEW q \in Proc PROVE CallInv(q)'
    BY <2>1 DEF NoCall, PartitionsTyped, CallInv, Covered, Calling
  <2>5. ASSUME NEW x \in Table PROVE TableInv(x)'
    BY <2>1, <2>2 DEF PartitionsTyped, TableInv
  <2>6. QED
    BY <2>3, <2>4, <2>5
<1>10. ASSUME NEW p \in Proc, RefuseCall(p) PROVE PartitionsInv'
  <2> DEFINE t == TableOf[p]
             m == Head(call[p].todo)
  <2>1. /\ m \notin parts[t] /\ m \in inDefault[t]
        /\ refused' = [refused EXCEPT ![t] = @ \cup {m}]
        /\ call' = [call EXCEPT ![p] = NoCall]
        /\ UNCHANGED <<now, parts, recorded, inDefault, completed>>
        /\ m \in Nat /\ t \in Table
    BY <1>10, ListShrinks DEF RefuseCall, CallInv
  <2>2. PartitionsTyped'
    <3>1. refused[t] \cup {m} \in SUBSET Nat
      BY <2>1 DEF PartitionsTyped
    <3>2. QED
      BY <2>1, <3>1 DEF PartitionsTyped, NoCall
  <2>3. ASSUME NEW q \in Proc PROVE CallInv(q)'
    BY <2>1 DEF NoCall, PartitionsTyped, CallInv, Covered, Calling
  <2>4. ASSUME NEW x \in Table PROVE TableInv(x)'
    BY <2>1 DEF PartitionsTyped, TableInv
  <2>5. QED
    BY <2>2, <2>3, <2>4
<1>11. QED
  BY <1>1, <1>2, <1>3, <1>4, <1>5, <1>6, <1>7, <1>8, <1>9, <1>10
     DEF PartitionMoves, CallMoves, CallStep

-----------------------------------------------------------------------------
(* What a process has found out about the schemas by the time it is in each  *)
(* place of its main function.                                               *)
Full(p, s) == \A v \in Nat : 1 <= v /\ v <= Latest[build[p]][s] => v \in applied[s]

Checked(p) ==
    /\ place[p] \in {"checkProject", "ensure", "up"} => Full(p, "ingest")
    /\ place[p] \in {"ensure", "up"} => Full(p, "project")
    /\ Calling(p) => place[p] \in {"ensure", "up"}

ProcessesTyped ==
    /\ place \in [Proc -> Places]
    /\ build \in [Proc -> Release]

ProcessesInv == ProcessesTyped /\ \A p \in Proc : Checked(p)

IInv == MigrationsInv /\ PartitionsInv /\ ProcessesInv

LEMMA NextJob == ASSUME [Next]_vars PROVE JobMoves \/ UNCHANGED migrationVars
  BY DEF Next, vars, Job, JobMoves, StartProcess, CheckIngest, CheckProject, Tick, Ensure,
         Ensured, EnsureRefused, EnsureBreaks, Die, Store, Stop

LEMMA NextCall ==
  ASSUME [Next]_vars, now \in Moments
  PROVE  PartitionMoves \/ UNCHANGED partitionVars
<1>1. ASSUME NEW p \in Proc, Store(p) PROVE \E t \in Table, m \in Nat : Insert(t, m)
  BY <1>1 DEF Store
<1>2. QED
  BY <1>1 DEF Next, vars, Job, PartitionMoves, CallMoves, StartProcess, CheckIngest, CheckProject,
         Tick, Ensure, Ensured, EnsureRefused, EnsureBreaks, Die, Stop

(* A check that passes has seen every migration of the build applied. *)
LEMMA CheckPasses ==
  ASSUME MigrationsInv, NEW p \in Proc, NEW s \in Schema, CheckOne(s, build[p])
  PROVE  Full(p, s)
<1>1. /\ version[s] = Latest[build[p]][s] /\ version[s] \in Nat /\ ~dirty[s]
      /\ AppliedInOrder(s)
  BY DEF CheckOne, MigrationsInv, MigrationsTyped
<1>2. QED
  BY <1>1 DEF Full, AppliedInOrder

(* What a process has found out is not undone, neither by the jobs nor by    *)
(* another process.                                                          *)
LEMMA StaysChecked ==
  ASSUME NEW p \in Proc, Checked(p), place'[p] = place[p], build'[p] = build[p],
         Calling(p)' => Calling(p) \/ place[p] \in {"ensure", "up"},
         \A s \in Schema : applied[s] \subseteq applied'[s]
  PROVE  Checked(p)'
  BY DEF Checked, Full, Schema

(* The steps of a process, as far as its place, its build and its call are   *)
(* concerned.                                                                *)
Alone(p) == \A q \in Proc \ {p} : /\ place'[q] = place[q] /\ build'[q] = build[q]
                                 /\ call'[q] = call[q]

LEMMA ProcessesStep ==
  ASSUME IInv, [Next]_vars
  PROVE  ProcessesInv'
<1> USE DEF IInv, ProcessesInv
<1>1. \A s \in Schema : applied[s] \subseteq applied'[s]
  BY NextJob, MigrationsStep
<1>2. call \in [Proc -> [on : Moments, todo : Seq(Nat),
                        step : {"none", "check", "create", "record"}]]
  BY DEF PartitionsInv, PartitionsTyped
<1>3. ASSUME NEW p \in Proc, Alone(p), ProcessesTyped', Checked(p)'
      PROVE  ProcessesInv'
  <2>1. ASSUME NEW q \in Proc \ {p} PROVE Checked(q)'
    BY <1>1, <1>3, <2>1, StaysChecked DEF Calling, Alone
  <2>2. QED
    BY <1>3, <2>1
<1>4. CASE UNCHANGED <<place, build, call>>
  <2>1. ProcessesTyped'
    BY <1>4 DEF ProcessesTyped
  <2>2. ASSUME NEW q \in Proc PROVE Checked(q)'
    BY <1>1, <1>4, StaysChecked DEF Calling
  <2>3. QED
    BY <2>1, <2>2
<1>5. ASSUME NEW p \in Proc, NEW r \in Release, StartProcess(p, r) PROVE ProcessesInv'
  <2>1. ProcessesTyped' /\ Alone(p)
    BY <1>5 DEF StartProcess, Move, ProcessesTyped, Places, partitionVars, Alone
  <2>2. Checked(p)'
    BY <1>5 DEF StartProcess, Move, ProcessesTyped, Checked, partitionVars, Calling
  <2>3. QED
    BY <1>3, <2>1, <2>2
<1>6. ASSUME NEW p \in Proc, CheckIngest(p) PROVE ProcessesInv'
  <2>1. ProcessesTyped' /\ Alone(p)
    BY <1>6 DEF CheckIngest, Move, ProcessesTyped, Places, partitionVars, Alone
  <2>2. CheckOne("ingest", build[p]) => Full(p, "ingest")'
    BY <1>6, CheckPasses DEF CheckIngest, Schema, Full, migrationVars
  <2>3. Checked(p)'
    BY <1>6, <2>2 DEF CheckIngest, Move, ProcessesTyped, Checked, partitionVars, Calling
  <2>4. QED
    BY <1>3, <2>1, <2>3
<1>7. ASSUME NEW p \in Proc, CheckProject(p) PROVE ProcessesInv'
  <2>1. ProcessesTyped' /\ Alone(p)
    BY <1>2, <1>7 DEF CheckProject, Move, ProcessesTyped, Places, partitionVars, BeginCall, Alone
  <2>2. /\ CheckOne("project", build[p]) => Full(p, "project")'
        /\ Full(p, "ingest")'
    BY <1>7, CheckPasses DEF CheckProject, Schema, Full, migrationVars, Checked
  <2>3. Checked(p)'
    <3>1. CASE CheckOne("project", build[p])
      BY <1>7, <2>2, <3>1 DEF CheckProject, Move, ProcessesTyped, Checked
    <3>2. CASE ~CheckOne("project", build[p])
      BY <1>7, <3>2 DEF CheckProject, Move, ProcessesTyped, Checked, partitionVars, Calling
    <3>3. QED
      BY <3>1, <3>2
  <2>4. QED
    BY <1>3, <2>1, <2>3
<1>8. ASSUME NEW p \in Proc, Tick(p) \/ Ensure(p) PROVE ProcessesInv'
  <2>1. ProcessesTyped' /\ Alone(p)
    BY <1>2, <1>8 DEF Tick, Ensure, BeginCall, CallStep, CheckState, Create, Record,
                     ProcessesTyped, Alone
  <2>2. place[p] \in {"ensure", "up"}
    BY <1>8 DEF Tick, Ensure, CallStep, CheckState, Create, Record, Checked, Calling
  <2>3. Checked(p)'
    BY <1>1, <1>8, <2>2, StaysChecked DEF Tick, Ensure
  <2>4. QED
    BY <1>3, <2>1, <2>3
<1>9. ASSUME NEW p \in Proc, Ensured(p) PROVE ProcessesInv'
  <2>1. ProcessesTyped' /\ Alone(p)
    BY <1>2, <1>9 DEF Ensured, ReturnCall, Move, ProcessesTyped, Places, Alone
  <2>2. Full(p, "ingest")' /\ Full(p, "project")'
    BY <1>9 DEF Ensured, ReturnCall, Checked, Calling, Full, migrationVars
  <2>3. Checked(p)'
    BY <1>9, <2>2 DEF Ensured, Move, ProcessesTyped, Checked
  <2>4. QED
    BY <1>3, <2>1, <2>3
<1>10. ASSUME NEW p \in Proc,
              /\ call' = [call EXCEPT ![p] = NoCall]
              /\ AfterError(p) \/ Move(p, "down")
              /\ UNCHANGED <<migrationVars, build>>
       PROVE  ProcessesInv'
  <2>1. ProcessesTyped' /\ Alone(p)
    BY <1>2, <1>10 DEF AfterError, Move, ProcessesTyped, Places, Alone
  <2>2. ~Calling(p)'
    BY <1>2, <1>10 DEF NoCall, Calling
  <2>3. place'[p] \in {"down", place[p]}
    BY <1>10 DEF AfterError, Move, ProcessesTyped
  <2>4. Checked(p)'
    BY <1>10, <2>2, <2>3 DEF Checked, Full, migrationVars
  <2>5. QED
    BY <1>3, <2>1, <2>4
<1>11. ASSUME NEW p \in Proc,
              EnsureRefused(p) \/ EnsureBreaks(p) \/ Die(p) \/ Stop(p)
       PROVE  ProcessesInv'
  BY <1>10, <1>11 DEF EnsureRefused, EnsureBreaks, Die, Stop, RefuseCall, BreakCall
<1>12. ASSUME NEW p \in Proc, Store(p) PROVE ProcessesInv'
  BY <1>4, <1>12 DEF Store, Insert
<1>13. QED
  BY <1>4, <1>5, <1>6, <1>7, <1>8, <1>9, <1>11, <1>12
     DEF Next, Job, vars, partitionVars, Tomorrow

-----------------------------------------------------------------------------
LEMMA IInvInit == Init => IInv
<1> SUFFICES ASSUME Init PROVE IInv
  OBVIOUS
<1>1. MigrationsInv
  BY DEF Init, MigrationsInit, MigrationsInv, MigrationsTyped, AppliedInOrder, Migrating, Schema
<1>2. PartitionsInv
  <2>1. PartitionsTyped
    BY DEF Init, PartitionsInit, PartitionsTyped, NoCall
  <2>2. QED
    BY <2>1 DEF Init, PartitionsInit, PartitionsInv, CallInv, TableInv, NoCall, Calling
<1>3. ProcessesInv
  BY DEF Init, PartitionsInit, ProcessesInv, ProcessesTyped, Places, Checked, NoCall, Calling
<1>4. QED
  BY <1>1, <1>2, <1>3 DEF IInv

LEMMA IInvStep == IInv /\ [Next]_vars => IInv'
<1>1. ASSUME IInv, [Next]_vars PROVE now \in Moments
  BY <1>1 DEF IInv, PartitionsInv, PartitionsTyped
<1>2. QED
  BY <1>1, NextJob, NextCall, MigrationsStep, PartitionsStep, ProcessesStep DEF IInv

LEMMA IInvHolds == Spec => []IInv
  BY IInvInit, IInvStep, PTL DEF Spec

(* A running service has its whole schema: whatever jobs of other releases  *)
(* do between its two checks and afterwards, and however often they die.    *)
THEOREM RunsOnFullSchemaHolds == Spec => []RunsOnFullSchema
<1>1. IInv => RunsOnFullSchema
  BY DEF IInv, ProcessesInv, MigrationsInv, MigrationsTyped, Checked, Full, RunsOnFullSchema, Schema
<1>2. QED
  BY <1>1, IInvHolds, PTL

(* A month that is recorded has its partition, with any number of calls     *)
(* overlapping and breaking off.                                            *)
THEOREM RecordedExistsHolds == Spec => []RecordedExists
<1>1. IInv => RecordedExists
  BY DEF IInv, PartitionsInv, TableInv, RecordedExists
<1>2. QED
  BY <1>1, IInvHolds, PTL

(* Postgres refuses a month's partition only if no call of the month before *)
(* succeeded on a day that both months have.                                *)
THEOREM RefusedOnlyAfterGapHolds == Spec => []RefusedOnlyAfterGap
<1>1. ASSUME IInv PROVE RefusedOnlyAfterGap
  <2>1. ASSUME NEW t \in Table, NEW m \in refused[t], NEW d \in completed[t],
               d.month = m - 1, EarlyCall(d)
        PROVE  FALSE
    <3>1. TableInv(t) /\ d \in Moments /\ m \in Nat
      BY <1>1 DEF IInv, PartitionsInv, PartitionsTyped
    <3>2. MonthLater(d) = m
      BY <2>1, <3>1, MonthsAhead DEF EarlyCall, MonthLater
    <3>3. QED
      BY <3>1, <3>2 DEF TableInv
  <2>2. QED
    BY <2>1 DEF RefusedOnlyAfterGap
<1>2. QED
  BY <1>1, IInvHolds, PTL
=============================================================================

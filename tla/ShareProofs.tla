---------------------------- MODULE ShareProofs -----------------------------
(***************************************************************************)
(* Theorems about the tables of the stages whose memory is no more than    *)
(* the batch's share of the rows, under every fault: what memory and a     *)
(* table say of a stretch of the log, and that applying, flushing and      *)
(* applying again keeps them saying it.                                    *)
(***************************************************************************)
EXTENDS PipelineProofs, FiniteSetTheorems

USE PipelineAssumption

LEMMA EventTimes ==
  ASSUME NEW l \in Seq(EventSet), NEW i \in 1..Len(l)
  PROVE  l[i] \in EventSet /\ l[i].ts \in Nat
  BY EventsAssumption

(* The earliest and the latest reception at some positions of a log. *)
Lowest(l, v, S) == (\E i \in S : v = l[i].ts) /\ \A i \in S : v <= l[i].ts
Highest(l, v, S) == (\E i \in S : v = l[i].ts) /\ \A i \in S : l[i].ts <= v

LEMMA BoundsOfOne ==
  ASSUME NEW l \in Seq(EventSet), NEW i \in 1..Len(l)
  PROVE  Lowest(l, l[i].ts, {i}) /\ Highest(l, l[i].ts, {i})
  BY EventTimes DEF Lowest, Highest

LEMMA LowestJoins ==
  ASSUME NEW l \in Seq(EventSet), NEW S \in SUBSET (1..Len(l)), NEW T \in SUBSET (1..Len(l)),
         NEW v, NEW w, Lowest(l, v, S), Lowest(l, w, T)
  PROVE  Lowest(l, Earlier(v, w), S \cup T)
<1>1. \A i \in S \cup T : l[i].ts \in Nat
  BY EventTimes
<1>2. v \in Nat /\ w \in Nat
  BY <1>1 DEF Lowest
<1>3. QED
  BY <1>1, <1>2 DEF Lowest, Earlier

LEMMA HighestJoins ==
  ASSUME NEW l \in Seq(EventSet), NEW S \in SUBSET (1..Len(l)), NEW T \in SUBSET (1..Len(l)),
         NEW v, NEW w, Highest(l, v, S), Highest(l, w, T)
  PROVE  Highest(l, Later(v, w), S \cup T)
<1>1. \A i \in S \cup T : l[i].ts \in Nat
  BY EventTimes
<1>2. v \in Nat /\ w \in Nat
  BY <1>1 DEF Highest
<1>3. /\ Later(v, w) \in Nat /\ v <= Later(v, w) /\ w <= Later(v, w)
      /\ Later(v, w) = v \/ Later(v, w) = w
  BY <1>2 DEF Later
<1>4. ASSUME NEW i \in S \cup T PROVE l[i].ts <= Later(v, w)
  <2>1. l[i].ts \in Nat /\ (l[i].ts <= v \/ l[i].ts <= w)
    BY <1>1 DEF Highest
  <2>2. QED
    BY <1>2, <1>3, <2>1
<1>5. \E i \in S \cup T : Later(v, w) = l[i].ts
  BY <1>3 DEF Highest
<1>6. QED
  BY <1>4, <1>5 DEF Highest

LEMMA LowestIsMin ==
  ASSUME NEW l \in Seq(EventSet), NEW S \in SUBSET (1..Len(l)), NEW v, Lowest(l, v, S)
  PROVE  v = Min({l[i].ts : i \in S})
<1> DEFINE times == {l[i].ts : i \in S}
<1>1. times \subseteq Nat
  BY EventTimes
<1>2. v \in times /\ \A t \in times : v <= t
  BY DEF Lowest
<1> HIDE DEF times
<1>3. ASSUME NEW x \in times, \A y \in times : x =< y PROVE x = v
  <2>1. x \in Nat /\ v \in Nat /\ x =< v /\ v <= x
    BY <1>1, <1>2, <1>3
  <2>2. QED
    BY <2>1
<1>4. Min(times) = v
  BY <1>2, <1>3 DEF Min
<1>5. QED
  BY <1>4 DEF times

LEMMA HighestIsMax ==
  ASSUME NEW l \in Seq(EventSet), NEW S \in SUBSET (1..Len(l)), NEW v, Highest(l, v, S)
  PROVE  v = Max({l[i].ts : i \in S})
<1> DEFINE times == {l[i].ts : i \in S}
<1>1. times \subseteq Nat
  BY EventTimes
<1>2. v \in times /\ \A t \in times : v >= t
  BY <1>1 DEF Highest
<1> HIDE DEF times
<1>3. ASSUME NEW x \in times, \A y \in times : x >= y PROVE x = v
  <2>1. x \in Nat /\ v \in Nat /\ x >= v /\ v >= x
    BY <1>1, <1>2, <1>3
  <2>2. QED
    BY <2>1
<1>4. Max(times) = v
  BY <1>2, <1>3 DEF Max
<1>5. QED
  BY <1>4 DEF times

(* Of a set of positions, the first and the last. *)
LEMMA FirstIsMin ==
  ASSUME NEW S \in SUBSET Nat, NEW i \in S, \A j \in S : i <= j
  PROVE  Min(S) = i
<1>1. ASSUME NEW x \in S, \A y \in S : x =< y PROVE x = i
  <2>1. x \in Nat /\ i \in Nat /\ x <= i /\ i <= x
    BY <1>1
  <2>2. QED
    BY <2>1
<1>2. QED
  BY <1>1 DEF Min

LEMMA LastIsMax ==
  ASSUME NEW S \in SUBSET Nat, NEW i \in S, \A j \in S : j <= i
  PROVE  Max(S) = i
<1>1. ASSUME NEW x \in S, \A y \in S : x >= y PROVE x = i
  <2>1. x \in Nat /\ i \in Nat /\ x <= i /\ i <= x
    BY <1>1
  <2>2. QED
    BY <2>1
<1>2. QED
  BY <1>1 DEF Max

-----------------------------------------------------------------------------
(* The statuses of observer o from position a to b of a log, and those that *)
(* name an origin.                                                          *)
StatusesOf(l, o, a, b) == {i \in a..b : l[i].kind = "status" /\ l[i].obs = o}
NamedBy(l, o, a, b) == {i \in StatusesOf(l, o, a, b) : l[i].origin # None}

(* The origin named last, as memory has it when the positions from a to b   *)
(* were applied and those up to `at` have been applied once more.           *)
LastNamed(l, v, o, a, at, b) ==
    \/ NamedBy(l, o, a, b) = {} /\ v = None
    \/ \E i \in NamedBy(l, o, a, b) :
          /\ v = l[i].origin
          /\ \/ i <= at /\ \A j \in NamedBy(l, o, a, at) : j <= i
             \/ NamedBy(l, o, a, at) = {} /\ \A j \in NamedBy(l, o, a, b) : j <= i

ObserverRow(l, row, o, a, at, b) ==
    /\ Lowest(l, row.first, StatusesOf(l, o, a, b))
    /\ Highest(l, row.last, StatusesOf(l, o, a, b))
    /\ LastNamed(l, row.origin, o, a, at, b)

(* Rows that describe the observers of that stretch of the log. *)
ObserverRows(l, rows, a, at, b) ==
    /\ \A o : o \in DOMAIN rows <=> StatusesOf(l, o, a, b) # {}
    /\ \A o \in DOMAIN rows : ObserverRow(l, rows[o], o, a, at, b)

LEMMA ObserversApplied ==
  ASSUME NEW l \in Seq(EventSet), NEW m, NEW a \in Nat \ {0}, NEW p \in 1..Len(l), NEW b \in Nat,
         NEW q, a <= p, p <= b + 1, b <= Len(l), q = Later(b, p),
         ObserverRows(l, m, a, p - 1, b)
  PROVE  ObserverRows(l, ObserversApply(m, l[p]), a, p, q)
<1> DEFINE e == l[p]
<1>1. /\ \A i : i \in a..q <=> i \in a..b \/ i = p
      /\ \A i : i \in a..p <=> i \in a..(p - 1) \/ i = p
      /\ Len(l) \in Nat /\ a..b \subseteq 1..Len(l) /\ q \in Nat
  BY DEF Later
(* An observer that the event is not a status of. *)
<1>2. ASSUME NEW o, e.kind # "status" \/ e.obs # o
      PROVE  /\ StatusesOf(l, o, a, q) = StatusesOf(l, o, a, b)
             /\ NamedBy(l, o, a, q) = NamedBy(l, o, a, b)
             /\ NamedBy(l, o, a, p) = NamedBy(l, o, a, p - 1)
  BY <1>1, <1>2 DEF StatusesOf, NamedBy
<1>3. ASSUME NEW o, e.kind # "status" \/ e.obs # o, NEW row,
             ObserverRow(l, row, o, a, p - 1, b)
      PROVE  ObserverRow(l, row, o, a, p, q)
  <2>1. LastNamed(l, row.origin, o, a, p, q)
    <3>1. ASSUME NEW i \in NamedBy(l, o, a, b), i <= p - 1 PROVE i <= p
      BY <1>1, <3>1 DEF NamedBy, StatusesOf
    <3>2. QED
      BY <1>2, <1>3, <3>1 DEF ObserverRow, LastNamed
  <2>2. QED
    BY <1>2, <1>3, <2>1 DEF ObserverRow
<1>4. CASE e.kind # "status"
  BY <1>2, <1>3, <1>4 DEF ObserversApply, ObserverRows
<1>5. CASE e.kind = "status"
  <2> DEFINE old == IF e.obs \in DOMAIN m THEN m[e.obs]
                    ELSE [first |-> e.ts, last |-> e.ts, origin |-> None]
             new == [first |-> Earlier(old.first, e.ts), last |-> Later(old.last, e.ts),
                     origin |-> Coalesce(e.origin, old.origin)]
             S == StatusesOf(l, e.obs, a, b)
             N == NamedBy(l, e.obs, a, b)
  <2>1. ObserversApply(m, e) = Put(m, e.obs, new)
    BY <1>5 DEF ObserversApply
  <2>2. StatusesOf(l, e.obs, a, q) = S \cup {p}
    BY <1>1, <1>5 DEF StatusesOf
  <2>3. S \in SUBSET (1..Len(l)) /\ {p} \in SUBSET (1..Len(l)) /\ N \in SUBSET S
    BY <1>1 DEF StatusesOf, NamedBy
  <2>4. /\ new.first = Earlier(old.first, e.ts) /\ new.last = Later(old.last, e.ts)
        /\ new.origin = Coalesce(e.origin, old.origin)
    OBVIOUS
  <2> HIDE DEF old, new
  <2>5. Lowest(l, new.first, S \cup {p}) /\ Highest(l, new.last, S \cup {p})
    <3>1. CASE e.obs \in DOMAIN m
      <4>1. Lowest(l, old.first, S) /\ Highest(l, old.last, S)
        BY <3>1 DEF old, ObserverRows, ObserverRow
      <4>2. Lowest(l, e.ts, {p}) /\ Highest(l, e.ts, {p})
        BY BoundsOfOne
      <4>3. /\ Lowest(l, Earlier(old.first, e.ts), S \cup {p})
            /\ Highest(l, Later(old.last, e.ts), S \cup {p})
        BY <2>3, <4>1, <4>2, LowestJoins, HighestJoins
      <4>4. QED
        BY <2>4, <4>3
    <3>2. CASE e.obs \notin DOMAIN m
      <4>1. S = {} /\ old.first = e.ts /\ old.last = e.ts
        BY <3>2 DEF old, ObserverRows
      <4>2. e.ts \in Nat
        BY EventTimes
      <4>3. new.first = e.ts /\ new.last = e.ts /\ S \cup {p} = {p}
        BY <2>4, <4>1, <4>2 DEF Earlier, Later
      <4>4. QED
        BY <4>3, BoundsOfOne
    <3>3. QED
      BY <3>1, <3>2
  <2>6. LastNamed(l, new.origin, e.obs, a, p, q)
    <3>1. CASE e.origin # None
      <4>1. new.origin = l[p].origin
        BY <2>4, <3>1 DEF Coalesce
      <4>2. p \in NamedBy(l, e.obs, a, q)
        BY <1>5, <2>2, <3>1 DEF NamedBy
      <4>3. \A j \in NamedBy(l, e.obs, a, p) : j <= p
        BY DEF NamedBy, StatusesOf
      <4>4. QED
        BY <4>1, <4>2, <4>3 DEF LastNamed
    <3>2. CASE e.origin = None
      <4>1. /\ NamedBy(l, e.obs, a, q) = N
            /\ NamedBy(l, e.obs, a, p) = NamedBy(l, e.obs, a, p - 1)
        BY <1>1, <3>2 DEF NamedBy, StatusesOf
      <4>2. new.origin = old.origin
        BY <2>4, <3>2 DEF Coalesce
      <4>3. \A i \in N : i <= p - 1 => i <= p
        BY <1>1 DEF NamedBy, StatusesOf
      <4>4. CASE e.obs \in DOMAIN m
        <5>1. LastNamed(l, old.origin, e.obs, a, p - 1, b)
          BY <4>4 DEF old, ObserverRows, ObserverRow
        <5>2. QED
          BY <4>1, <4>2, <4>3, <5>1 DEF LastNamed
      <4>5. CASE e.obs \notin DOMAIN m
        <5>1. N = {} /\ old.origin = None
          BY <2>3, <4>5 DEF old, ObserverRows
        <5>2. QED
          BY <4>1, <4>2, <5>1 DEF LastNamed
      <4>6. QED
        BY <4>4, <4>5
    <3>3. QED
      BY <3>1, <3>2
  <2>7. ObserverRow(l, new, e.obs, a, p, q)
    BY <2>2, <2>4, <2>5, <2>6 DEF ObserverRow
  <2>8. /\ DOMAIN Put(m, e.obs, new) = DOMAIN m \cup {e.obs}
        /\ Put(m, e.obs, new)[e.obs] = new
        /\ \A o \in DOMAIN m \ {e.obs} : Put(m, e.obs, new)[o] = m[o]
    BY DEF Put
  <2>9. ASSUME NEW o
         PROVE  o \in DOMAIN Put(m, e.obs, new) <=> StatusesOf(l, o, a, q) # {}
    BY <1>2, <2>2, <2>8 DEF ObserverRows
  <2>10. ASSUME NEW o \in DOMAIN Put(m, e.obs, new)
         PROVE  ObserverRow(l, Put(m, e.obs, new)[o], o, a, p, q)
    BY <1>3, <2>7, <2>8 DEF ObserverRows
  <2>11. QED
    BY <2>1, <2>9, <2>10 DEF ObserverRows
<1>6. QED
  BY <1>4, <1>5

(* What an upsert makes of the rows of the log up to d and the memory from  *)
(* a to u.                                                                  *)
LEMMA ObserversFlushed ==
  ASSUME NEW l \in Seq(EventSet), NEW t, NEW m, NEW a \in Nat \ {0}, NEW d \in Nat, NEW u \in Nat,
         a <= d + 1, d <= u, u <= Len(l),
         ObserverRows(l, t, 1, d, d), ObserverRows(l, m, a, u, u)
  PROVE  ObserverRows(l, ObserversFlushTable(m, t), 1, u, u)
<1> DEFINE rows == ObserversFlushTable(m, t)
<1>1. \A i : i \in 1..u <=> i \in 1..d \/ i \in a..u
  OBVIOUS
<1>2. ASSUME NEW o
      PROVE  /\ StatusesOf(l, o, 1, u) = StatusesOf(l, o, 1, d) \cup StatusesOf(l, o, a, u)
             /\ NamedBy(l, o, 1, u) = NamedBy(l, o, 1, d) \cup NamedBy(l, o, a, u)
  <2>1. StatusesOf(l, o, 1, u) = StatusesOf(l, o, 1, d) \cup StatusesOf(l, o, a, u)
    BY <1>1 DEF StatusesOf
  <2>2. QED
    BY <2>1 DEF NamedBy
<1>3. DOMAIN rows = DOMAIN t \cup DOMAIN m
  BY DEF ObserversFlushTable
<1>4. ASSUME NEW o PROVE o \in DOMAIN rows <=> StatusesOf(l, o, 1, u) # {}
  BY <1>2, <1>3 DEF ObserverRows
<1>5. ASSUME NEW o \in DOMAIN t, o \notin DOMAIN m PROVE ObserverRow(l, rows[o], o, 1, u, u)
  <2>1. rows[o] = t[o]
    BY <1>5 DEF ObserversFlushTable
  <2>2. /\ StatusesOf(l, o, 1, u) = StatusesOf(l, o, 1, d)
        /\ NamedBy(l, o, 1, u) = NamedBy(l, o, 1, d)
    BY <1>2, <1>5 DEF ObserverRows, NamedBy
  <2>3. \A i \in NamedBy(l, o, 1, d) : i <= u
    BY DEF NamedBy, StatusesOf
  <2>4. ObserverRow(l, t[o], o, 1, d, d)
    BY DEF ObserverRows
  <2>5. QED
    BY <2>1, <2>2, <2>3, <2>4 DEF ObserverRow, LastNamed
<1>6. ASSUME NEW o \in DOMAIN m, o \notin DOMAIN t PROVE ObserverRow(l, rows[o], o, 1, u, u)
  <2>1. rows[o] = m[o]
    BY <1>6 DEF ObserversFlushTable
  <2>2. /\ StatusesOf(l, o, 1, u) = StatusesOf(l, o, a, u)
        /\ NamedBy(l, o, 1, u) = NamedBy(l, o, a, u)
    BY <1>2, <1>6 DEF ObserverRows, NamedBy
  <2>3. ObserverRow(l, m[o], o, a, u, u)
    BY DEF ObserverRows
  <2>4. QED
    BY <2>1, <2>2, <2>3 DEF ObserverRow, LastNamed
<1>7. ASSUME NEW o \in DOMAIN t \cap DOMAIN m PROVE ObserverRow(l, rows[o], o, 1, u, u)
  <2> DEFINE S == StatusesOf(l, o, 1, d)
             T == StatusesOf(l, o, a, u)
  <2>1. /\ rows[o].first = Earlier(t[o].first, m[o].first)
        /\ rows[o].last = Later(t[o].last, m[o].last)
        /\ rows[o].origin = Coalesce(m[o].origin, t[o].origin)
    BY DEF ObserversFlushTable, ObserversUpsert
  <2>2. S \in SUBSET (1..Len(l)) /\ T \in SUBSET (1..Len(l))
    BY DEF StatusesOf
  <2>3. ObserverRow(l, t[o], o, 1, d, d) /\ ObserverRow(l, m[o], o, a, u, u)
    BY DEF ObserverRows
  <2>4. /\ Lowest(l, t[o].first, S) /\ Lowest(l, m[o].first, T)
        /\ Highest(l, t[o].last, S) /\ Highest(l, m[o].last, T)
    BY <2>3 DEF ObserverRow
  <2>5. /\ Lowest(l, rows[o].first, StatusesOf(l, o, 1, u))
        /\ Highest(l, rows[o].last, StatusesOf(l, o, 1, u))
    <3>1. Lowest(l, Earlier(t[o].first, m[o].first), S \cup T)
      BY <2>2, <2>4, LowestJoins
    <3>2. Highest(l, Later(t[o].last, m[o].last), S \cup T)
      BY <2>2, <2>4, HighestJoins
    <3>3. QED
      BY <1>2, <2>1, <3>1, <3>2
  <2>6. LastNamed(l, rows[o].origin, o, 1, u, u)
    <3>1. CASE NamedBy(l, o, a, u) = {}
      <4>1. m[o].origin = None /\ NamedBy(l, o, 1, u) = NamedBy(l, o, 1, d)
        BY <1>2, <2>3, <3>1 DEF ObserverRow, LastNamed
      <4>2. rows[o].origin = t[o].origin
        BY <2>1, <4>1 DEF Coalesce
      <4>3. \A i \in NamedBy(l, o, 1, d) : i <= u
        BY DEF NamedBy, StatusesOf
      <4>4. LastNamed(l, t[o].origin, o, 1, d, d)
        BY <2>3 DEF ObserverRow
      <4>5. QED
        BY <4>1, <4>2, <4>3, <4>4 DEF LastNamed
    <3>2. CASE NamedBy(l, o, a, u) # {}
      <4>1. LastNamed(l, m[o].origin, o, a, u, u)
        BY <2>3 DEF ObserverRow
      <4>2. PICK i \in NamedBy(l, o, a, u) : /\ m[o].origin = l[i].origin
                                             /\ \A j \in NamedBy(l, o, a, u) : j <= i
        BY <3>2, <4>1 DEF LastNamed
      <4>3. i \in a..u /\ l[i].origin # None /\ i \in NamedBy(l, o, 1, u)
        BY <1>2 DEF NamedBy, StatusesOf
      <4>4. rows[o].origin = l[i].origin
        BY <2>1, <4>2, <4>3 DEF Coalesce
      <4>5. ASSUME NEW j \in NamedBy(l, o, 1, u) PROVE j <= i
        <5>1. j \in 1..u /\ (j \in a..u => j \in NamedBy(l, o, a, u))
          BY DEF NamedBy, StatusesOf
        <5>2. QED
          BY <4>2, <4>3, <5>1
      <4>6. QED
        BY <4>3, <4>4, <4>5 DEF LastNamed
    <3>3. QED
      BY <3>1, <3>2
  <2>7. QED
    BY <2>5, <2>6 DEF ObserverRow
<1>8. QED
  BY <1>3, <1>4, <1>5, <1>6, <1>7 DEF ObserverRows

LEMMA ObserversKept ==
  ASSUME NEW l, NEW l2, NEW m, NEW a \in Nat \ {0}, NEW at \in Nat, NEW b \in Nat, at <= b,
         \A i \in 1..b : l2[i] = l[i],
         ObserverRows(l, m, a, at, b)
  PROVE  ObserverRows(l2, m, a, at, b)
<1>1. ASSUME NEW o
      PROVE  /\ StatusesOf(l2, o, a, b) = StatusesOf(l, o, a, b)
             /\ NamedBy(l2, o, a, b) = NamedBy(l, o, a, b)
             /\ NamedBy(l2, o, a, at) = NamedBy(l, o, a, at)
  BY DEF StatusesOf, NamedBy
<1>2. ASSUME NEW o, NEW i \in StatusesOf(l, o, a, b) PROVE l2[i] = l[i]
  BY DEF StatusesOf
<1>3. ASSUME NEW o, NEW i \in NamedBy(l, o, a, b) PROVE l2[i] = l[i]
  BY <1>2 DEF NamedBy
<1>4. ASSUME NEW o \in DOMAIN m PROVE ObserverRow(l2, m[o], o, a, at, b)
  <2>1. ObserverRow(l, m[o], o, a, at, b)
    BY DEF ObserverRows
  <2>2. Lowest(l2, m[o].first, StatusesOf(l2, o, a, b))
    BY <1>1, <1>2, <2>1 DEF ObserverRow, Lowest
  <2>3. Highest(l2, m[o].last, StatusesOf(l2, o, a, b))
    BY <1>1, <1>2, <2>1 DEF ObserverRow, Highest
  <2>4. LastNamed(l2, m[o].origin, o, a, at, b)
    BY <1>1, <1>3, <2>1 DEF ObserverRow, LastNamed
  <2>5. QED
    BY <2>2, <2>3, <2>4 DEF ObserverRow
<1>5. QED
  BY <1>1, <1>4 DEF ObserverRows

(* The next attempt starts over with what the last one left. *)
LEMMA ObserversAgain ==
  ASSUME NEW l, NEW m, NEW a \in Nat \ {0}, NEW b \in Nat,
         ObserverRows(l, m, a, b, b)
  PROVE  ObserverRows(l, m, a, a - 1, b)
<1>1. ASSUME NEW o PROVE NamedBy(l, o, a, a - 1) = {}
  BY DEF NamedBy, StatusesOf
<1>2. ASSUME NEW o \in DOMAIN m PROVE LastNamed(l, m[o].origin, o, a, a - 1, b)
  BY <1>1 DEF ObserverRows, ObserverRow, LastNamed
<1>3. QED
  BY <1>2 DEF ObserverRows, ObserverRow

(* No event was applied: memory is empty. *)
LEMMA ObserversNone ==
  ASSUME NEW l, NEW a \in Nat, NEW b \in Nat,
         \A i \in a..b : l[i].kind = "dropped"
  PROVE  /\ ObserverRows(l, EmptyMap, a, b, b)
         /\ \A m : ObserverRows(l, m, a, b, b) =>
               \A c \in Nat : ObserverRows(l, m, c + 1, c, c)
<1>1. ASSUME NEW o PROVE StatusesOf(l, o, a, b) = {}
  BY DEF StatusesOf
<1>2. ASSUME NEW c \in Nat, NEW o PROVE StatusesOf(l, o, c + 1, c) = {}
  BY DEF StatusesOf
<1>3. QED
  BY <1>1, <1>2 DEF ObserverRows, EmptyMap

-----------------------------------------------------------------------------
(* The statuses with key k from position a to b of a log, and an event that *)
(* is the first of them.                                                    *)
WithKey(l, k, a, b) == {i \in a..b : l[i].kind = "status" /\ StatusKey(l[i]) = k}
FirstWithKey(l, e, k, a, b) ==
    \E i \in WithKey(l, k, a, b) : e = l[i] /\ \A j \in WithKey(l, k, a, b) : i <= j

(* Memory holds the statuses of that stretch in some number of copies, and  *)
(* of those with one key the first one logged comes first.                  *)
StatusRows(l, m, a, b) ==
    /\ m.buf \in Seq(EventSet)
    /\ \A j \in DOMAIN m.buf : WithKey(l, StatusKey(m.buf[j]), a, b) # {}
    /\ \A k : WithKey(l, k, a, b) # {} =>
         \E j \in StatusAt(m, k) :
            FirstWithKey(l, m.buf[j], k, a, b) /\ \A h \in StatusAt(m, k) : j <= h

(* The table has the reading of the first of them. *)
StatusTable(l, t, b) ==
    /\ \A k : k \in DOMAIN t <=> WithKey(l, k, 1, b) # {}
    /\ \A k \in DOMAIN t :
          \E e : FirstWithKey(l, e, k, 1, b) /\ t[k] = e.floor

LEMMA StatusApplied ==
  ASSUME NEW l \in Seq(EventSet), NEW m, NEW a \in Nat \ {0}, NEW p \in 1..Len(l), NEW b \in Nat,
         NEW q, a <= p, p <= b + 1, b <= Len(l), q = Later(b, p),
         StatusRows(l, m, a, b)
  PROVE  StatusRows(l, StatusApply(m, l[p]), a, q)
<1> DEFINE e == l[p]
           new == StatusApply(m, e)
<1>1. /\ \A i : i \in a..q <=> i \in a..b \/ i = p
      /\ e \in EventSet /\ q \in Nat
  BY DEF Later
<1>2. CASE e.kind # "status"
  <2>1. ASSUME NEW k PROVE WithKey(l, k, a, q) = WithKey(l, k, a, b)
    BY <1>1, <1>2 DEF WithKey
  <2>2. new = m
    BY <1>2 DEF StatusApply
  <2>3. QED
    BY <2>1, <2>2 DEF StatusRows, FirstWithKey
<1>3. CASE e.kind = "status"
  <2> DEFINE n == Len(m.buf) + 1
  <2>1. new.buf = Append(m.buf, e) /\ m.buf \in Seq(EventSet)
    BY <1>3 DEF StatusApply, StatusRows
  <2> HIDE DEF new
  <2>2. /\ new.buf \in Seq(EventSet) /\ DOMAIN new.buf = DOMAIN m.buf \cup {n}
        /\ new.buf[n] = e /\ \A j \in DOMAIN m.buf : new.buf[j] = m.buf[j] /\ j < n
        /\ DOMAIN m.buf \subseteq Nat /\ n \in Nat
    <3> DEFINE buf == m.buf
    <3>1. /\ buf \in Seq(EventSet) /\ Len(buf) \in Nat /\ DOMAIN buf = 1..Len(buf)
          /\ n = Len(buf) + 1
      BY <2>1
    <3> HIDE DEF buf, n, e
    <3>2. /\ Append(buf, e) \in Seq(EventSet) /\ Len(Append(buf, e)) = n
          /\ Append(buf, e)[n] = e /\ \A j \in 1..Len(buf) : Append(buf, e)[j] = buf[j]
      BY <1>1, <3>1
    <3>3. DOMAIN Append(buf, e) = 1..n /\ 1..n = 1..Len(buf) \cup {n}
      BY <3>1, <3>2
    <3>4. \A j \in 1..Len(buf) : j < n
      BY <3>1
    <3>5. QED
      BY <2>1, <3>1, <3>2, <3>3, <3>4 DEF buf
  <2> HIDE DEF n
  <2>3. ASSUME NEW k
        PROVE  /\ k = StatusKey(e) => /\ WithKey(l, k, a, q) = WithKey(l, k, a, b) \cup {p}
                                      /\ StatusAt(new, k) = StatusAt(m, k) \cup {n}
               /\ k # StatusKey(e) => /\ WithKey(l, k, a, q) = WithKey(l, k, a, b)
                                      /\ StatusAt(new, k) = StatusAt(m, k)
    <3>1. /\ k = StatusKey(e) => WithKey(l, k, a, q) = WithKey(l, k, a, b) \cup {p}
          /\ k # StatusKey(e) => WithKey(l, k, a, q) = WithKey(l, k, a, b)
      BY <1>1, <1>3 DEF WithKey
    <3>2. /\ k = StatusKey(e) => StatusAt(new, k) = StatusAt(m, k) \cup {n}
          /\ k # StatusKey(e) => StatusAt(new, k) = StatusAt(m, k)
      BY <2>2 DEF StatusAt
    <3>3. QED
      BY <3>1, <3>2
  <2>4. ASSUME NEW j \in DOMAIN new.buf PROVE WithKey(l, StatusKey(new.buf[j]), a, q) # {}
    BY <2>2, <2>3 DEF StatusRows
  <2>5. ASSUME NEW k, WithKey(l, k, a, b) # {}
        PROVE  \E j \in StatusAt(new, k) :
                  FirstWithKey(l, new.buf[j], k, a, q) /\ \A h \in StatusAt(new, k) : j <= h
    <3>1. PICK j \in StatusAt(m, k) :
             FirstWithKey(l, m.buf[j], k, a, b) /\ \A h \in StatusAt(m, k) : j <= h
      BY <2>5 DEF StatusRows
    <3>2. j \in DOMAIN m.buf /\ j \in Nat /\ new.buf[j] = m.buf[j] /\ j <= n
      BY <2>2 DEF StatusAt
    <3>3. j \in StatusAt(new, k) /\ \A h \in StatusAt(new, k) : j <= h
      BY <2>3, <3>1, <3>2
    <3>4. PICK i \in WithKey(l, k, a, b) : m.buf[j] = l[i] /\ \A h \in WithKey(l, k, a, b) : i <= h
      BY <3>1 DEF FirstWithKey
    <3>5. FirstWithKey(l, m.buf[j], k, a, q)
      <4>1. CASE k # StatusKey(e)
        BY <2>3, <3>1, <4>1 DEF FirstWithKey
      <4>2. CASE k = StatusKey(e)
        <5>1. i \in a..b
          BY DEF WithKey
        <5>2. p \in a..b => i <= p
          BY <1>3, <3>4, <4>2 DEF WithKey
        <5>3. i <= p
          BY <5>1, <5>2
        <5>4. QED
          BY <2>3, <3>4, <4>2, <5>3 DEF FirstWithKey
      <4>3. QED
        BY <4>1, <4>2
    <3>6. QED
      BY <3>2, <3>3, <3>5
  <2>6. ASSUME NEW k, WithKey(l, k, a, b) = {}, WithKey(l, k, a, q) # {}
        PROVE  \E j \in StatusAt(new, k) :
                  FirstWithKey(l, new.buf[j], k, a, q) /\ \A h \in StatusAt(new, k) : j <= h
    <3>1. k = StatusKey(e) /\ WithKey(l, k, a, q) = {p}
      BY <2>3, <2>6
    <3>2. StatusAt(m, k) = {}
      BY <2>6 DEF StatusAt, StatusRows
    <3>3. StatusAt(new, k) = {n}
      BY <2>3, <3>1, <3>2
    <3>4. FirstWithKey(l, new.buf[n], k, a, q)
      BY <2>2, <3>1 DEF FirstWithKey
    <3>5. QED
      BY <2>2, <3>3, <3>4
  <2>7. ASSUME NEW k, WithKey(l, k, a, q) # {}
        PROVE  \E j \in StatusAt(new, k) :
                  FirstWithKey(l, new.buf[j], k, a, q) /\ \A h \in StatusAt(new, k) : j <= h
    BY <2>5, <2>6, <2>7
  <2>8. StatusRows(l, new, a, q)
    BY <2>2, <2>4, <2>7 DEF StatusRows
  <2>9. QED
    BY <2>8 DEF new
<1>4. QED
  BY <1>2, <1>3

LEMMA StatusFlushed ==
  ASSUME NEW l, NEW t, NEW m, NEW a \in Nat \ {0}, NEW d \in Nat, NEW u \in Nat,
         a <= d + 1, d <= u,
         StatusTable(l, t, d), StatusRows(l, m, a, u)
  PROVE  StatusTable(l, StatusFlushTable(m, t), u)
<1> DEFINE rows == StatusFlushTable(m, t)
<1>1. \A i : i \in 1..u <=> i \in 1..d \/ i \in a..u
  OBVIOUS
<1>2. ASSUME NEW k
      PROVE  WithKey(l, k, 1, u) = WithKey(l, k, 1, d) \cup WithKey(l, k, a, u)
  BY <1>1 DEF WithKey
<1>3. DOMAIN rows = DOMAIN t \cup {StatusKey(e) : e \in RowsOf(m.buf)}
  BY DEF StatusFlushTable
<1>4. ASSUME NEW k
      PROVE  k \in {StatusKey(e) : e \in RowsOf(m.buf)} <=> WithKey(l, k, a, u) # {}
  BY DEF RowsOf, StatusRows, StatusAt
<1>5. /\ \A k \in DOMAIN t : rows[k] = t[k]
      /\ \A k \in DOMAIN rows \ DOMAIN t : rows[k] = m.buf[Min(StatusAt(m, k))].floor
  <2> DEFINE keys == {StatusKey(e) : e \in RowsOf(m.buf)}
             first(k) == m.buf[Min(StatusAt(m, k))].floor
  <2>1. rows = [k \in DOMAIN t \cup keys |-> IF k \in DOMAIN t THEN t[k] ELSE first(k)]
    BY DEF StatusFlushTable
  <2> HIDE DEF rows, keys, first
  <2>2. \A k \in DOMAIN rows \ DOMAIN t : rows[k] = first(k)
    BY <2>1
  <2>3. \A k \in DOMAIN t : rows[k] = t[k]
    BY <2>1
  <2>4. QED
    BY <2>2, <2>3 DEF first
<1> HIDE DEF rows
<1>6. ASSUME NEW k PROVE k \in DOMAIN rows <=> WithKey(l, k, 1, u) # {}
  BY <1>2, <1>3, <1>4 DEF StatusTable
<1>7. ASSUME NEW k \in DOMAIN rows
      PROVE  \E e : FirstWithKey(l, e, k, 1, u) /\ rows[k] = e.floor
  <2>1. CASE k \in DOMAIN t
    <3>1. PICK e : FirstWithKey(l, e, k, 1, d) /\ t[k] = e.floor
      BY <2>1 DEF StatusTable
    <3>2. PICK i \in WithKey(l, k, 1, d) : e = l[i] /\ \A j \in WithKey(l, k, 1, d) : i <= j
      BY <3>1 DEF FirstWithKey
    <3>3. i \in WithKey(l, k, 1, u)
      BY <1>2
    <3>4. ASSUME NEW j \in WithKey(l, k, 1, u) PROVE i <= j
      <4>1. i \in 1..d /\ j \in 1..u /\ (j \in 1..d => i <= j)
        BY <3>2 DEF WithKey
      <4>2. QED
        BY <4>1
    <3>5. rows[k] = e.floor
      BY <1>5, <2>1, <3>1
    <3>6. QED
      BY <3>2, <3>3, <3>4, <3>5 DEF FirstWithKey
  <2>2. CASE k \notin DOMAIN t
    <3>1. WithKey(l, k, 1, u) = WithKey(l, k, a, u) /\ WithKey(l, k, a, u) # {}
      BY <1>2, <1>6, <2>2 DEF StatusTable
    <3>2. PICK j \in StatusAt(m, k) :
             FirstWithKey(l, m.buf[j], k, a, u) /\ \A h \in StatusAt(m, k) : j <= h
      BY <3>1 DEF StatusRows
    <3>3. StatusAt(m, k) \in SUBSET Nat
      <4>1. m.buf \in Seq(EventSet)
        BY DEF StatusRows
      <4>2. DOMAIN m.buf \subseteq Nat
        BY <4>1
      <4>3. QED
        BY <4>2 DEF StatusAt
    <3>4. Min(StatusAt(m, k)) = j
      BY <3>2, <3>3, FirstIsMin
    <3>5. rows[k] = m.buf[j].floor
      BY <1>5, <2>2, <3>4
    <3>6. FirstWithKey(l, m.buf[j], k, 1, u)
      BY <3>1, <3>2 DEF FirstWithKey
    <3>7. QED
      BY <3>5, <3>6
  <2>3. QED
    BY <2>1, <2>2
<1>8. StatusTable(l, rows, u)
  BY <1>6, <1>7 DEF StatusTable
<1>9. QED
  BY <1>8 DEF rows

LEMMA StatusKept ==
  ASSUME NEW l, NEW l2, NEW a \in Nat \ {0}, NEW b \in Nat,
         \A i \in 1..b : l2[i] = l[i]
  PROVE  /\ \A m : StatusRows(l, m, a, b) => StatusRows(l2, m, a, b)
         /\ \A t : StatusTable(l, t, b) => StatusTable(l2, t, b)
<1>1. ASSUME NEW k, NEW c \in Nat \ {0}
      PROVE  /\ WithKey(l2, k, c, b) = WithKey(l, k, c, b)
             /\ \A i \in WithKey(l, k, c, b) : l2[i] = l[i]
  BY DEF WithKey
<1>2. ASSUME NEW k, NEW e, NEW c \in Nat \ {0}
      PROVE  FirstWithKey(l, e, k, c, b) => FirstWithKey(l2, e, k, c, b)
  BY <1>1 DEF FirstWithKey
<1>3. QED
  BY <1>1, <1>2 DEF StatusRows, StatusTable

LEMMA StatusNone ==
  ASSUME NEW l, NEW a \in Nat, NEW b \in Nat,
         \A i \in a..b : l[i].kind = "dropped"
  PROVE  /\ StatusRows(l, StatusEmpty, a, b)
         /\ \A m : StatusRows(l, m, a, b) => \A c \in Nat : StatusRows(l, m, c + 1, c)
<1>1. ASSUME NEW k PROVE WithKey(l, k, a, b) = {}
  BY DEF WithKey
<1>2. ASSUME NEW c \in Nat, NEW k PROVE WithKey(l, k, c + 1, c) = {}
  BY DEF WithKey
<1>3. StatusEmpty.buf = <<>> /\ <<>> \in Seq(EventSet) /\ DOMAIN <<>> = {}
  BY DEF StatusEmpty
<1>4. StatusRows(l, StatusEmpty, a, b)
  BY <1>1, <1>3 DEF StatusRows
<1>5. ASSUME NEW m, StatusRows(l, m, a, b), NEW c \in Nat PROVE StatusRows(l, m, c + 1, c)
  BY <1>1, <1>2, <1>5 DEF StatusRows
<1>6. QED
  BY <1>4, <1>5

-----------------------------------------------------------------------------
(* The adverts of a node from position a to b of a log. *)
HeardOf(l, key, a, b) ==
    {i \in a..b : IsPacket(l[i]) /\ l[i].advert # None /\ l[i].advert.key = key}

(* Those adverts at some positions that carry time v. *)
Carrying(l, S, v) == {i \in S : l[i].advert.at = v}

(* A row that describes the node as the adverts at the positions S have it: *)
(* by the latest of them, as it was logged and received first.              *)
NodeRow(l, row, S) ==
    /\ Carrying(l, S, row.at) # {}
    /\ \A i \in S : l[i].advert.at <= row.at
    /\ \E i \in Carrying(l, S, row.at) :
          row.name = l[i].advert.name /\ \A j \in Carrying(l, S, row.at) : i <= j
    /\ Lowest(l, row.received, Carrying(l, S, row.at))

NodeRowsOf(l, rows, a, b) ==
    /\ \A key : key \in DOMAIN rows <=> HeardOf(l, key, a, b) # {}
    /\ \A key \in DOMAIN rows : NodeRow(l, rows[key], HeardOf(l, key, a, b))

LEMMA AdvertTimes ==
  ASSUME NEW l \in Seq(EventSet), NEW key, NEW a \in Nat \ {0}, NEW b \in Nat, b <= Len(l),
         NEW i \in HeardOf(l, key, a, b)
  PROVE  i \in 1..Len(l) /\ l[i].advert.at \in Nat \ {ZeroTime} /\ l[i].ts \in Nat
<1>1. i \in 1..Len(l) /\ IsPacket(l[i]) /\ l[i].advert # None
  BY DEF HeardOf
<1>2. QED
  BY <1>1, EventsAssumption

(* Two descriptions, joined the way Apply and the upsert do, describe the   *)
(* node by the adverts of both.                                             *)
LEMMA RowsJoin ==
  ASSUME NEW l \in Seq(EventSet), NEW S \in SUBSET (1..Len(l)), NEW T \in SUBSET (1..Len(l)),
         \A i \in S \cup T : l[i].advert.at \in Nat,
         \A i \in S, j \in T : j \in S \/ i < j,
         NEW old, NEW row, NodeRow(l, old, S), NodeRow(l, row, T),
         NEW new,
         new.at = Later(old.at, row.at),
         new.received = CASE row.at > old.at -> row.received
                          [] row.at = old.at -> Earlier(old.received, row.received)
                          [] OTHER -> old.received,
         new.name = IF row.at > old.at THEN row.name ELSE old.name
  PROVE  NodeRow(l, new, S \cup T)
<1> DEFINE A == Carrying(l, S, old.at)
           B == Carrying(l, T, row.at)
           C == Carrying(l, S \cup T, new.at)
<1>1. old.at \in Nat /\ row.at \in Nat
  BY DEF NodeRow, Carrying
<1>2. new.at \in Nat /\ old.at <= new.at /\ row.at <= new.at
  BY <1>1 DEF Later
<1>3. /\ row.at > old.at => new.at = row.at /\ C = B
      /\ row.at < old.at => new.at = old.at /\ C = A
      /\ row.at = old.at => new.at = old.at /\ C = A \cup B
  <2>1. /\ row.at > old.at => new.at = row.at
        /\ row.at < old.at => new.at = old.at
        /\ row.at = old.at => new.at = old.at
    BY <1>1 DEF Later
  <2>2. \A i \in S : l[i].advert.at <= old.at
    BY DEF NodeRow
  <2>3. \A i \in T : l[i].advert.at <= row.at
    BY DEF NodeRow
  <2>4. ASSUME row.at > old.at PROVE C = B
    BY <1>1, <2>1, <2>2, <2>4 DEF Carrying
  <2>5. ASSUME row.at < old.at PROVE C = A
    BY <1>1, <2>1, <2>3, <2>5 DEF Carrying
  <2>6. ASSUME row.at = old.at PROVE C = A \cup B
    BY <2>1, <2>6 DEF Carrying
  <2>7. QED
    BY <2>1, <2>4, <2>5, <2>6
<1>4. A \in SUBSET (1..Len(l)) /\ B \in SUBSET (1..Len(l)) /\ A # {} /\ B # {}
  BY DEF NodeRow, Carrying
<1>5. ASSUME NEW i \in S \cup T PROVE l[i].advert.at <= new.at
  <2>1. l[i].advert.at \in Nat /\ (l[i].advert.at <= old.at \/ l[i].advert.at <= row.at)
    BY DEF NodeRow
  <2>2. QED
    BY <1>1, <1>2, <2>1
<1>6. C # {}
  <2>1. row.at > old.at \/ row.at < old.at \/ row.at = old.at
    BY <1>1
  <2>2. C = A \/ C = B \/ C = A \cup B
    BY <1>3, <2>1
  <2>3. QED
    BY <1>4, <2>2
<1>7. /\ \E i \in A : old.name = l[i].advert.name /\ \A j \in A : i <= j
      /\ \E i \in B : row.name = l[i].advert.name /\ \A j \in B : i <= j
      /\ Lowest(l, old.received, A) /\ Lowest(l, row.received, B)
  BY DEF NodeRow
<1> HIDE DEF A, B, C
<1>8. ASSUME \E i \in C : new.name = l[i].advert.name /\ \A j \in C : i <= j,
             Lowest(l, new.received, C)
      PROVE  NodeRow(l, new, S \cup T)
  BY <1>5, <1>6, <1>8 DEF C, NodeRow
<1>9. CASE row.at > old.at
  <2>1. row.at # old.at
    BY <1>1, <1>9
  <2>2. new.name = row.name /\ new.received = row.received
    BY <1>9, <2>1
  <2>3. C = B
    BY <1>3, <1>9
  <2>4. QED
    BY <1>7, <1>8, <2>2, <2>3
<1>10. CASE row.at < old.at
  <2>1. ~(row.at > old.at) /\ row.at # old.at
    BY <1>1, <1>10
  <2>2. new.name = old.name /\ new.received = old.received
    BY <2>1
  <2>3. C = A
    BY <1>3, <1>10
  <2>4. QED
    BY <1>7, <1>8, <2>2, <2>3
<1>11. CASE row.at = old.at
  <2>1. /\ new.name = old.name /\ C = A \cup B
        /\ new.received = Earlier(old.received, row.received)
    BY <1>1, <1>3, <1>11
  <2>2. Lowest(l, new.received, C)
    BY <1>4, <1>7, <2>1, LowestJoins
  <2>3. PICK i \in A : old.name = l[i].advert.name /\ \A j \in A : i <= j
    BY <1>7
  <2>4. ASSUME NEW j \in B PROVE i <= j
    <3>1. j \in T /\ l[j].advert.at = old.at /\ i \in S /\ i \in Nat /\ j \in Nat
      BY <1>4, <1>11 DEF A, B, Carrying
    <3>2. CASE j \in S
      BY <2>3, <3>1, <3>2 DEF A, Carrying
    <3>3. CASE i < j
      BY <3>1, <3>3
    <3>4. QED
      BY <3>1, <3>2, <3>3
  <2>5. QED
    <3>1. \A j \in C : i <= j
      BY <2>1, <2>3, <2>4
    <3>2. QED
      BY <1>8, <2>1, <2>2, <2>3, <3>1
<1>12. QED
  BY <1>1, <1>9, <1>10, <1>11

LEMMA NodesApplied ==
  ASSUME NEW l \in Seq(EventSet), NEW m, NEW a \in Nat \ {0}, NEW p \in 1..Len(l), NEW b \in Nat,
         NEW q, a <= p, p <= b + 1, b <= Len(l), q = Later(b, p),
         NodeRowsOf(l, m, a, b)
  PROVE  NodeRowsOf(l, NodesApply(m, l[p]), a, q)
<1> DEFINE e == l[p]
           key == e.advert.key
           S == HeardOf(l, key, a, b)
<1>1. /\ \A i : i \in a..q <=> i \in a..b \/ i = p
      /\ q \in Nat /\ q <= Len(l) /\ Len(l) \in Nat
  BY DEF Later
<1>2. CASE ~IsPacket(e) \/ e.advert = None
  <2>1. ASSUME NEW k PROVE HeardOf(l, k, a, q) = HeardOf(l, k, a, b)
    BY <1>1, <1>2 DEF HeardOf
  <2>2. NodesApply(m, e) = m
    BY <1>2 DEF NodesApply
  <2>3. QED
    BY <2>1, <2>2 DEF NodeRowsOf
<1>3. CASE IsPacket(e) /\ e.advert # None
  <2> DEFINE old == IF key \in DOMAIN m THEN m[key] ELSE FreshNode(e)
             new == Heard(old, e)
  <2>1. NodesApply(m, e) = Put(m, key, new)
    BY <1>3 DEF NodesApply
  <2>2. HeardOf(l, key, a, q) = S \cup {p}
    BY <1>1, <1>3 DEF HeardOf
  <2>3. ASSUME NEW k, k # key PROVE HeardOf(l, k, a, q) = HeardOf(l, k, a, b)
    BY <1>1, <2>3 DEF HeardOf
  <2>4. \A i \in S \cup {p} :
           i \in 1..Len(l) /\ l[i].advert.at \in Nat \ {ZeroTime} /\ l[i].ts \in Nat
    BY <1>1, <2>2, AdvertTimes
  <2>5. /\ new.at = Later(old.at, e.advert.at)
        /\ new.received = CASE e.advert.at > old.at -> e.ts
                            [] e.advert.at = old.at -> Earlier(old.received, e.ts)
                            [] OTHER -> old.received
        /\ new.name = IF e.advert.at > old.at THEN e.advert.name ELSE old.name
    <3> HIDE DEF old
    <3>1. QED
      BY DEF Heard
  <2> HIDE DEF new
  <2>6. NodeRow(l, new, S \cup {p})
    <3> DEFINE one == [at |-> e.advert.at, received |-> e.ts, name |-> e.advert.name]
    <3>1. one.at = e.advert.at /\ one.received = e.ts /\ one.name = e.advert.name
      OBVIOUS
    <3> HIDE DEF one
    <3>2. NodeRow(l, one, {p})
      <4>1. Carrying(l, {p}, one.at) = {p}
        BY <3>1 DEF Carrying
      <4>2. Lowest(l, one.received, {p})
        BY <3>1, BoundsOfOne
      <4>3. one.at \in Nat /\ p \in Nat
        BY <2>4, <3>1
      <4>4. /\ Carrying(l, {p}, one.at) # {}
            /\ Lowest(l, one.received, Carrying(l, {p}, one.at))
        BY <4>1, <4>2
      <4>5. \A i \in {p} : l[i].advert.at <= one.at
        BY <3>1, <4>3
      <4>6. \E i \in Carrying(l, {p}, one.at) :
              one.name = l[i].advert.name /\ \A j \in Carrying(l, {p}, one.at) : i <= j
        <5>1. one.name = l[p].advert.name
          BY <3>1
        <5>2. \A j \in {p} : p <= j
          BY <4>3
        <5>3. \E i \in {p} : one.name = l[i].advert.name /\ \A j \in {p} : i <= j
          BY <5>1, <5>2
        <5>4. QED
          BY <4>1, <5>3
      <4>7. QED
        BY <4>4, <4>5, <4>6 DEF NodeRow
    <3>3. CASE key \in DOMAIN m
      <4>1. NodeRow(l, old, S)
        BY <3>3 DEF NodeRowsOf
      <4> HIDE DEF old
      <4>2. \A i \in S, j \in {p} : j \in S \/ i < j
        <5>1. \A i \in S : i \in a..b
          BY DEF HeardOf
        <5>2. CASE p \in a..b
          BY <1>3, <5>2 DEF HeardOf
        <5>3. CASE p \notin a..b
          BY <5>1, <5>3
        <5>4. QED
          BY <5>2, <5>3
      <4>3. S \in SUBSET (1..Len(l)) /\ {p} \in SUBSET (1..Len(l))
        BY <2>4
      <4>4. \A i \in S \cup {p} : l[i].advert.at \in Nat
        BY <2>4
      <4>5. /\ new.at = Later(old.at, one.at)
            /\ new.received = CASE one.at > old.at -> one.received
                                [] one.at = old.at -> Earlier(old.received, one.received)
                                [] OTHER -> old.received
            /\ new.name = IF one.at > old.at THEN one.name ELSE old.name
        BY <2>5, <3>1
      <4> HIDE DEF S
      <4>6. QED
        BY <3>2, <4>1, <4>2, <4>3, <4>4, <4>5, RowsJoin
    <3>4. CASE key \notin DOMAIN m
      <4>1. S = {} /\ old.at = 0
        BY <3>4 DEF NodeRowsOf, FreshNode, ZeroTime
      <4>2. e.advert.at \in Nat /\ e.advert.at > 0
        BY <2>4 DEF ZeroTime
      <4>3. new.at = one.at /\ new.received = one.received /\ new.name = one.name
        <5> HIDE DEF old
        <5>1. QED
          BY <2>5, <3>1, <4>1, <4>2 DEF Later
      <4>4. S \cup {p} = {p}
        BY <4>1
      <4>5. NodeRow(l, new, {p})
        BY <3>2, <4>3 DEF NodeRow
      <4>6. QED
        BY <4>4, <4>5
    <3>5. QED
      BY <3>3, <3>4
  <2>7. /\ DOMAIN Put(m, key, new) = DOMAIN m \cup {key}
        /\ Put(m, key, new)[key] = new
        /\ \A k \in DOMAIN m \ {key} : Put(m, key, new)[k] = m[k]
    BY DEF Put
  <2>8. ASSUME NEW k PROVE k \in DOMAIN Put(m, key, new) <=> HeardOf(l, k, a, q) # {}
    BY <2>2, <2>3, <2>7 DEF NodeRowsOf
  <2>9. ASSUME NEW k \in DOMAIN Put(m, key, new)
        PROVE  NodeRow(l, Put(m, key, new)[k], HeardOf(l, k, a, q))
    BY <2>2, <2>3, <2>6, <2>7 DEF NodeRowsOf
  <2>10. QED
    BY <2>1, <2>8, <2>9 DEF NodeRowsOf
<1>4. QED
  BY <1>2, <1>3

LEMMA NodesFlushed ==
  ASSUME NEW l \in Seq(EventSet), NEW t, NEW m, NEW a \in Nat \ {0}, NEW d \in Nat, NEW u \in Nat,
         a <= d + 1, d <= u, u <= Len(l),
         NodeRowsOf(l, t, 1, d), NodeRowsOf(l, m, a, u)
  PROVE  NodeRowsOf(l, NodesFlushTable(m, t), 1, u)
<1> DEFINE rows == NodesFlushTable(m, t)
<1>1. \A i : i \in 1..u <=> i \in 1..d \/ i \in a..u
  OBVIOUS
<1>2. ASSUME NEW key
      PROVE  HeardOf(l, key, 1, u) = HeardOf(l, key, 1, d) \cup HeardOf(l, key, a, u)
  BY <1>1 DEF HeardOf
<1>3. DOMAIN rows = DOMAIN t \cup DOMAIN m
  BY DEF NodesFlushTable
<1>4. ASSUME NEW key PROVE key \in DOMAIN rows <=> HeardOf(l, key, 1, u) # {}
  BY <1>2, <1>3 DEF NodeRowsOf
<1>5. ASSUME NEW key \in DOMAIN t, key \notin DOMAIN m
      PROVE  NodeRow(l, rows[key], HeardOf(l, key, 1, u))
  <2>1. rows[key] = t[key]
    BY <1>5 DEF NodesFlushTable
  <2>2. HeardOf(l, key, 1, u) = HeardOf(l, key, 1, d)
    BY <1>2, <1>5 DEF NodeRowsOf
  <2>3. QED
    BY <2>1, <2>2 DEF NodeRowsOf
<1>6. ASSUME NEW key \in DOMAIN m, key \notin DOMAIN t
      PROVE  NodeRow(l, rows[key], HeardOf(l, key, 1, u))
  <2>1. rows[key] = m[key]
    BY <1>6 DEF NodesFlushTable
  <2>2. HeardOf(l, key, 1, u) = HeardOf(l, key, a, u)
    BY <1>2, <1>6 DEF NodeRowsOf
  <2>3. QED
    BY <2>1, <2>2 DEF NodeRowsOf
<1>7. ASSUME NEW key \in DOMAIN t \cap DOMAIN m
      PROVE  NodeRow(l, rows[key], HeardOf(l, key, 1, u))
  <2> DEFINE S == HeardOf(l, key, 1, d)
             T == HeardOf(l, key, a, u)
             old == t[key]
             row == m[key]
             new == rows[key]
  <2>1. new = NodesUpsert(old, row)
    BY DEF NodesFlushTable
  <2>2. /\ new.at = Later(old.at, row.at)
        /\ new.received = CASE row.at > old.at -> row.received
                            [] row.at = old.at -> Earlier(old.received, row.received)
                            [] OTHER -> old.received
        /\ new.name = IF row.at > old.at THEN row.name ELSE old.name
    <3> HIDE DEF old, row, new
    <3>1. QED
      BY <2>1 DEF NodesUpsert
  <2>3. NodeRow(l, old, S) /\ NodeRow(l, row, T)
    BY DEF NodeRowsOf
  <2>4. \A i \in S, j \in T : j \in S \/ i < j
    <3>1. ASSUME NEW i \in S, NEW j \in T, j \notin 1..d PROVE i < j
      <4>1. i \in 1..d /\ j \in a..u
        BY DEF HeardOf
      <4>2. QED
        BY <3>1, <4>1
    <3>2. ASSUME NEW j \in T, j \in 1..d PROVE j \in S
      BY <3>2 DEF HeardOf
    <3>3. QED
      BY <3>1, <3>2
  <2>5. S \in SUBSET (1..Len(l)) /\ T \in SUBSET (1..Len(l))
    BY DEF HeardOf
  <2>6. \A i \in S \cup T : l[i].advert.at \in Nat
    BY AdvertTimes
  <2> HIDE DEF S, T, old, row, new
  <2>7. NodeRow(l, new, S \cup T)
    BY <2>2, <2>3, <2>4, <2>5, <2>6, RowsJoin
  <2>8. QED
    BY <1>2, <2>7 DEF S, T, new
<1>8. QED
  BY <1>3, <1>4, <1>5, <1>6, <1>7 DEF NodeRowsOf

LEMMA NodesKept ==
  ASSUME NEW l, NEW l2, NEW m, NEW a \in Nat \ {0}, NEW b \in Nat,
         \A i \in 1..b : l2[i] = l[i],
         NodeRowsOf(l, m, a, b)
  PROVE  NodeRowsOf(l2, m, a, b)
<1>1. ASSUME NEW key
      PROVE  /\ HeardOf(l2, key, a, b) = HeardOf(l, key, a, b)
             /\ \A i \in HeardOf(l, key, a, b) : l2[i] = l[i]
  BY DEF HeardOf
<1>2. ASSUME NEW key \in DOMAIN m PROVE NodeRow(l2, m[key], HeardOf(l, key, a, b))
  <2> DEFINE S == HeardOf(l, key, a, b)
             row == m[key]
  <2>1. NodeRow(l, row, S)
    BY DEF NodeRowsOf
  <2>2. \A i \in S : l2[i] = l[i]
    BY <1>1
  <2> HIDE DEF S, row
  <2>3. /\ Carrying(l2, S, row.at) = Carrying(l, S, row.at)
        /\ \A i \in Carrying(l, S, row.at) : l2[i] = l[i]
    BY <2>2 DEF Carrying
  <2>4. Lowest(l2, row.received, Carrying(l2, S, row.at))
    BY <2>1, <2>3 DEF NodeRow, Lowest
  <2>5. NodeRow(l2, row, S)
    BY <2>1, <2>2, <2>3, <2>4 DEF NodeRow
  <2>6. QED
    BY <2>5 DEF S, row
<1>3. QED
  BY <1>1, <1>2 DEF NodeRowsOf

LEMMA NodesNone ==
  ASSUME NEW l, NEW a \in Nat, NEW b \in Nat,
         \A i \in a..b : l[i].kind = "dropped"
  PROVE  /\ NodeRowsOf(l, EmptyMap, a, b)
         /\ \A m : NodeRowsOf(l, m, a, b) => \A c \in Nat : NodeRowsOf(l, m, c + 1, c)
<1>1. ASSUME NEW key PROVE HeardOf(l, key, a, b) = {}
  BY DEF HeardOf, IsPacket
<1>2. ASSUME NEW c \in Nat, NEW key PROVE HeardOf(l, key, c + 1, c) = {}
  BY DEF HeardOf
<1>3. QED
  BY <1>1, <1>2 DEF NodeRowsOf, EmptyMap

-----------------------------------------------------------------------------
(* The packets from position a to b of a log, and rows that are copies of   *)
(* the events at the positions S: a row of its own for each of them, and    *)
(* maybe more.                                                              *)
PacketsAt(l, a, b) == {i \in a..b : IsPacket(l[i])}

Covers(f, l, rows, S) ==
    /\ \A i \in S : f[i] \in DOMAIN rows /\ rows[f[i]] = l[i]
    /\ \A i, j \in S : f[i] = f[j] => i = j

Copies(l, rows, S) ==
    /\ rows \in Seq(EventSet)
    /\ \A j \in DOMAIN rows : \E i \in S : rows[j] = l[i]
    /\ \E f : Covers(f, l, rows, S)

LEMMA CopiesJoin ==
  ASSUME NEW l, NEW S, NEW T, NEW t, NEW u, Copies(l, t, S), Copies(l, u, T)
  PROVE  Copies(l, t \o u, S \cup T)
<1> DEFINE rows == t \o u
           n == Len(t)
<1>1. /\ t \in Seq(EventSet) /\ u \in Seq(EventSet) /\ n \in Nat /\ Len(u) \in Nat
      /\ DOMAIN t = 1..n /\ DOMAIN u = 1..Len(u)
  BY DEF Copies
<1>2. /\ rows \in Seq(EventSet) /\ DOMAIN rows = 1..(n + Len(u))
      /\ \A j \in 1..n : rows[j] = t[j]
      /\ \A j \in 1..Len(u) : rows[n + j] = u[j]
  BY <1>1
<1> HIDE DEF rows, n
<1>3. ASSUME NEW j \in DOMAIN rows PROVE \E i \in S \cup T : rows[j] = l[i]
  <2>1. CASE j \in 1..n
    BY <1>1, <1>2, <2>1 DEF Copies
  <2>2. CASE j \notin 1..n
    <3>1. j - n \in 1..Len(u) /\ j = n + (j - n)
      BY <1>1, <1>2, <2>2
    <3>2. rows[j] = u[j - n]
      BY <1>2, <3>1
    <3>3. QED
      BY <1>1, <3>1, <3>2 DEF Copies
  <2>3. QED
    BY <2>1, <2>2
<1>4. PICK f : Covers(f, l, t, S)
  BY DEF Copies
<1>5. PICK g : Covers(g, l, u, T)
  BY DEF Copies
<1> DEFINE h == [i \in S \cup T |-> IF i \in S THEN f[i] ELSE n + g[i]]
<1>6. /\ \A i \in S : h[i] = f[i]
      /\ \A i \in T \ S : h[i] = n + g[i]
  OBVIOUS
<1> HIDE DEF h
<1>7. ASSUME NEW i \in S PROVE f[i] \in 1..n /\ h[i] = f[i] /\ rows[h[i]] = l[i]
  BY <1>1, <1>2, <1>4, <1>6 DEF Covers
<1>8. ASSUME NEW i \in T \ S
      PROVE  g[i] \in 1..Len(u) /\ h[i] = n + g[i] /\ rows[h[i]] = l[i]
  BY <1>1, <1>2, <1>5, <1>6 DEF Covers
<1>9. ASSUME NEW i \in S \cup T, NEW j \in S \cup T, h[i] = h[j] PROVE i = j
  <2>1. CASE i \in S /\ j \in S
    BY <1>4, <1>7, <1>9, <2>1 DEF Covers
  <2>2. CASE i \in S /\ j \in T \ S
    <3>1. f[i] \in 1..n /\ g[j] \in 1..Len(u) /\ f[i] = n + g[j]
      BY <1>7, <1>8, <1>9, <2>2
    <3>2. QED
      BY <1>1, <3>1
  <2>3. CASE i \in T \ S /\ j \in S
    <3>1. f[j] \in 1..n /\ g[i] \in 1..Len(u) /\ f[j] = n + g[i]
      BY <1>7, <1>8, <1>9, <2>3
    <3>2. QED
      BY <1>1, <3>1
  <2>4. CASE i \in T \ S /\ j \in T \ S
    <3>1. g[i] \in 1..Len(u) /\ g[j] \in 1..Len(u) /\ n + g[i] = n + g[j]
      BY <1>8, <1>9, <2>4
    <3>2. g[i] = g[j]
      BY <1>1, <3>1
    <3>3. QED
      BY <1>5, <2>4, <3>2 DEF Covers
  <2>5. QED
    BY <2>1, <2>2, <2>3, <2>4
<1>10. \A i \in S \cup T : h[i] \in DOMAIN rows /\ rows[h[i]] = l[i]
  <2>1. ASSUME NEW i \in S PROVE h[i] \in DOMAIN rows /\ rows[h[i]] = l[i]
    BY <1>1, <1>2, <1>7
  <2>2. ASSUME NEW i \in T \ S PROVE h[i] \in DOMAIN rows /\ rows[h[i]] = l[i]
    BY <1>1, <1>2, <1>8
  <2>3. QED
    BY <2>1, <2>2
<1>11. Covers(h, l, rows, S \cup T)
  BY <1>9, <1>10 DEF Covers
<1>12. Copies(l, rows, S \cup T)
  BY <1>2, <1>3, <1>11 DEF Copies
<1>13. QED
  BY <1>12 DEF rows

LEMMA CopiesOfOne ==
  ASSUME NEW l \in Seq(EventSet), NEW p \in 1..Len(l)
  PROVE  Copies(l, <<l[p]>>, {p})
<1> DEFINE f == [i \in {p} |-> 1]
<1>1. /\ <<l[p]>> \in Seq(EventSet) /\ DOMAIN <<l[p]>> = {1} /\ <<l[p]>>[1] = l[p]
  OBVIOUS
<1>2. Covers(f, l, <<l[p]>>, {p})
  BY <1>1 DEF Covers
<1>3. QED
  BY <1>1, <1>2 DEF Copies

LEMMA CopiesKept ==
  ASSUME NEW l, NEW l2, NEW rows, NEW S, \A i \in S : l2[i] = l[i], Copies(l, rows, S)
  PROVE  Copies(l2, rows, S)
<1>1. PICK f : Covers(f, l, rows, S)
  BY DEF Copies
<1>2. Covers(f, l2, rows, S)
  BY <1>1 DEF Covers
<1>3. QED
  BY <1>2 DEF Copies

LEMMA CopiesOfNone ==
  ASSUME NEW l, NEW rows
  PROVE  /\ Copies(l, <<>>, {})
         /\ Copies(l, rows, {}) => \A l2 : Copies(l2, rows, {})
<1>1. <<>> \in Seq(EventSet) /\ DOMAIN <<>> = {}
  OBVIOUS
<1>2. QED
  BY <1>1 DEF Copies, Covers

(* The buffer of the packet_observations stage. *)
ObservationRows(l, m, a, b) ==
    /\ m \in [buf : Seq(EventSet), count : Nat]
    /\ Copies(l, m.buf, PacketsAt(l, a, b))

LEMMA ObservationsApplied ==
  ASSUME NEW l \in Seq(EventSet), NEW m, NEW a \in Nat \ {0}, NEW p \in 1..Len(l), NEW b \in Nat,
         NEW q, a <= p, p <= b + 1, b <= Len(l), q = Later(b, p),
         ObservationRows(l, m, a, b)
  PROVE  ObservationRows(l, ObservationsApply(m, l[p]), a, q)
<1> DEFINE e == l[p]
<1>1. \A i : i \in a..q <=> i \in a..b \/ i = p
  BY DEF Later
<1>2. m \in [buf : Seq(EventSet), count : Nat] /\ e \in EventSet
  BY DEF ObservationRows
<1>3. CASE IsPacket(e)
  <2>1. ObservationsApply(m, e) = [buf |-> Append(m.buf, e), count |-> m.count]
    BY <1>2, <1>3 DEF ObservationsApply
  <2>2. PacketsAt(l, a, q) = PacketsAt(l, a, b) \cup {p}
    BY <1>1, <1>3 DEF PacketsAt
  <2>3. Append(m.buf, e) = m.buf \o <<e>>
    BY <1>2
  <2>4. Copies(l, m.buf \o <<e>>, PacketsAt(l, a, b) \cup {p})
    BY CopiesOfOne, CopiesJoin DEF ObservationRows
  <2>5. ObservationsApply(m, e) \in [buf : Seq(EventSet), count : Nat]
    <3>1. Append(m.buf, e) \in Seq(EventSet)
      BY <1>2
    <3>2. QED
      BY <1>2, <2>1, <3>1
  <2>6. Copies(l, ObservationsApply(m, e).buf, PacketsAt(l, a, q))
    BY <2>1, <2>2, <2>3, <2>4
  <2>7. QED
    BY <2>5, <2>6 DEF ObservationRows
<1>4. CASE ~IsPacket(e)
  <2>1. PacketsAt(l, a, q) = PacketsAt(l, a, b)
    BY <1>1, <1>4 DEF PacketsAt
  <2>2. QED
    BY <1>4, <2>1 DEF ObservationsApply, ObservationRows
<1>5. QED
  BY <1>3, <1>4

LEMMA ObservationsFlushed ==
  ASSUME NEW l, NEW t, NEW m, NEW a \in Nat \ {0}, NEW d \in Nat, NEW u \in Nat,
         a <= d + 1, d <= u,
         Copies(l, t, PacketsAt(l, 1, d)), ObservationRows(l, m, a, u)
  PROVE  /\ Copies(l, ObservationsFlushTable(m, t), PacketsAt(l, 1, u))
         /\ ObservationRows(l, ObservationsFlushMem(m), a, u)
<1>1. PacketsAt(l, 1, u) = PacketsAt(l, 1, d) \cup PacketsAt(l, a, u)
  BY DEF PacketsAt
<1>2. Copies(l, ObservationsFlushTable(m, t), PacketsAt(l, 1, u))
  BY <1>1, CopiesJoin DEF ObservationRows, ObservationsFlushTable
<1>3. ObservationsFlushMem(m).buf = m.buf
      /\ ObservationsFlushMem(m) \in [buf : Seq(EventSet), count : Nat]
  <2>1. m \in [buf : Seq(EventSet), count : Nat]
    BY DEF ObservationRows
  <2>2. CASE m.buf = <<>>
    BY <2>1, <2>2 DEF ObservationsFlushMem
  <2>3. CASE m.buf # <<>>
    <3>1. ObservationsFlushMem(m) = [buf |-> m.buf, count |-> Len(m.buf)]
      BY <2>1, <2>3 DEF ObservationsFlushMem
    <3>2. m.buf \in Seq(EventSet) /\ Len(m.buf) \in Nat
      BY <2>1
    <3>3. QED
      BY <3>1, <3>2
  <2>4. QED
    BY <2>2, <2>3
<1>4. QED
  BY <1>2, <1>3 DEF ObservationRows

LEMMA ObservationsKept ==
  ASSUME NEW l, NEW l2, NEW a \in Nat \ {0}, NEW b \in Nat,
         \A i \in 1..b : l2[i] = l[i]
  PROVE  /\ \A m : ObservationRows(l, m, a, b) => ObservationRows(l2, m, a, b)
         /\ \A t : Copies(l, t, PacketsAt(l, 1, b)) => Copies(l2, t, PacketsAt(l2, 1, b))
<1>1. ASSUME NEW c \in Nat \ {0}
      PROVE  /\ PacketsAt(l2, c, b) = PacketsAt(l, c, b)
             /\ \A i \in PacketsAt(l, c, b) : l2[i] = l[i]
  BY DEF PacketsAt
<1>2. QED
  BY <1>1, CopiesKept DEF ObservationRows

LEMMA ObservationsNone ==
  ASSUME NEW l, NEW a \in Nat, NEW b \in Nat,
         \A i \in a..b : l[i].kind = "dropped"
  PROVE  /\ ObservationRows(l, ObservationsEmpty, a, b)
         /\ \A m : ObservationRows(l, m, a, b) => \A c \in Nat : ObservationRows(l, m, c + 1, c)
<1>1. PacketsAt(l, a, b) = {}
  BY DEF PacketsAt, IsPacket
<1>2. ASSUME NEW c \in Nat PROVE PacketsAt(l, c + 1, c) = {}
  BY DEF PacketsAt
<1>3. ObservationsEmpty = [buf |-> <<>>, count |-> 0] /\ <<>> \in Seq(EventSet)
  BY DEF ObservationsEmpty
<1>4. ObservationRows(l, ObservationsEmpty, a, b)
  BY <1>1, <1>3, CopiesOfNone DEF ObservationRows
<1>5. QED
  BY <1>1, <1>2, <1>4, CopiesOfNone DEF ObservationRows

-----------------------------------------------------------------------------
(* The stages whose memory is the batch's share of the rows: Flush merges   *)
(* it into the table and Evict empties it.                                  *)
ShareStages == {"observers", "observer_status", "nodes", "packet_observations"}

MemorySays(s, l, m, a, at, b) ==
    /\ s = "observers" => ObserverRows(l, m, a, at, b)
    /\ s = "observer_status" => StatusRows(l, m, a, b)
    /\ s = "nodes" => NodeRowsOf(l, m, a, b)
    /\ s = "packet_observations" => ObservationRows(l, m, a, b)

TableSays(s, l, t, b) ==
    /\ s = "observers" => ObserverRows(l, t, 1, b, b)
    /\ s = "observer_status" => StatusTable(l, t, b)
    /\ s = "nodes" => NodeRowsOf(l, t, 1, b)
    /\ s = "packet_observations" => Copies(l, t, PacketsAt(l, 1, b))

LEMMA ShareApplied ==
  ASSUME NEW s \in ShareStages, NEW l \in Seq(EventSet), NEW m, NEW a \in Nat \ {0},
         NEW p \in 1..Len(l), NEW b \in Nat, NEW q,
         a <= p, p <= b + 1, b <= Len(l), q = Later(b, p),
         MemorySays(s, l, m, a, p - 1, b)
  PROVE  /\ MemorySays(s, l, Apply(s, m, l[p]), a, p, q)
         /\ l[p].kind = "dropped" => Apply(s, m, l[p]) = m
<1>1. CASE s = "observers"
  <2>1. Apply(s, m, l[p]) = ObserversApply(m, l[p])
    BY <1>1 DEF Apply
  <2>2. ObserverRows(l, Apply(s, m, l[p]), a, p, q)
    BY <1>1, <2>1, ObserversApplied DEF MemorySays
  <2>3. QED
    BY <1>1, <2>1, <2>2 DEF MemorySays, ObserversApply
<1>2. CASE s = "observer_status"
  <2>1. Apply(s, m, l[p]) = StatusApply(m, l[p])
    BY <1>2 DEF Apply
  <2>2. StatusRows(l, Apply(s, m, l[p]), a, q)
    BY <1>2, <2>1, StatusApplied DEF MemorySays
  <2>3. QED
    BY <1>2, <2>1, <2>2 DEF MemorySays, StatusApply
<1>3. CASE s = "nodes"
  <2>1. Apply(s, m, l[p]) = NodesApply(m, l[p])
    BY <1>3 DEF Apply
  <2>2. NodeRowsOf(l, Apply(s, m, l[p]), a, q)
    BY <1>3, <2>1, NodesApplied DEF MemorySays
  <2>3. QED
    BY <1>3, <2>1, <2>2 DEF MemorySays, NodesApply, IsPacket
<1>4. CASE s = "packet_observations"
  <2>1. Apply(s, m, l[p]) = ObservationsApply(m, l[p])
    BY <1>4 DEF Apply
  <2>2. ObservationRows(l, Apply(s, m, l[p]), a, q)
    BY <1>4, <2>1, ObservationsApplied DEF MemorySays
  <2>3. QED
    BY <1>4, <2>1, <2>2 DEF MemorySays, ObservationsApply, IsPacket
<1>5. QED
  BY <1>1, <1>2, <1>3, <1>4 DEF ShareStages

LEMMA ShareFlushed ==
  ASSUME NEW s \in ShareStages, NEW l \in Seq(EventSet), NEW m, NEW a \in Nat \ {0},
         NEW d \in Nat, NEW u \in Nat, a <= d + 1, d <= u, u <= Len(l),
         TableSays(s, l, tx[s], d), MemorySays(s, l, m, a, u, u)
  PROVE  /\ TableSays(s, l, FlushTable(s, m), u)
         /\ MemorySays(s, l, FlushMem(s, m, Dirty(s, m)), a, u, u)
         /\ LeftBehind(s, m) = {m}
<1>1. ASSUME s = "observers"
      PROVE  /\ TableSays(s, l, FlushTable(s, m), u)
             /\ MemorySays(s, l, FlushMem(s, m, Dirty(s, m)), a, u, u)
  <2>1. FlushTable(s, m) = ObserversFlushTable(m, tx[s]) /\ FlushMem(s, m, Dirty(s, m)) = m
    BY <1>1 DEF FlushTable, FlushMem, ObserversFlushMem
  <2>2. ObserverRows(l, ObserversFlushTable(m, tx[s]), 1, u, u)
    BY <1>1, ObserversFlushed DEF TableSays, MemorySays
  <2>3. QED
    BY <1>1, <2>1, <2>2 DEF TableSays, MemorySays
<1>2. ASSUME s = "observer_status"
      PROVE  /\ TableSays(s, l, FlushTable(s, m), u)
             /\ MemorySays(s, l, FlushMem(s, m, Dirty(s, m)), a, u, u)
  <2>1. FlushTable(s, m) = StatusFlushTable(m, tx[s]) /\ FlushMem(s, m, Dirty(s, m)) = m
    BY <1>2 DEF FlushTable, FlushMem, StatusFlushMem
  <2>2. StatusTable(l, StatusFlushTable(m, tx[s]), u)
    BY <1>2, StatusFlushed DEF TableSays, MemorySays
  <2>3. QED
    BY <1>2, <2>1, <2>2 DEF TableSays, MemorySays
<1>3. ASSUME s = "nodes"
      PROVE  /\ TableSays(s, l, FlushTable(s, m), u)
             /\ MemorySays(s, l, FlushMem(s, m, Dirty(s, m)), a, u, u)
  <2>1. FlushTable(s, m) = NodesFlushTable(m, tx[s]) /\ FlushMem(s, m, Dirty(s, m)) = m
    BY <1>3 DEF FlushTable, FlushMem, NodesFlushMem
  <2>2. NodeRowsOf(l, NodesFlushTable(m, tx[s]), 1, u)
    BY <1>3, NodesFlushed DEF TableSays, MemorySays
  <2>3. QED
    BY <1>3, <2>1, <2>2 DEF TableSays, MemorySays
<1>4. ASSUME s = "packet_observations"
      PROVE  /\ TableSays(s, l, FlushTable(s, m), u)
             /\ MemorySays(s, l, FlushMem(s, m, Dirty(s, m)), a, u, u)
  <2>1. /\ FlushTable(s, m) = ObservationsFlushTable(m, tx[s])
        /\ FlushMem(s, m, Dirty(s, m)) = ObservationsFlushMem(m)
    BY <1>4 DEF FlushTable, FlushMem
  <2>2. /\ Copies(l, ObservationsFlushTable(m, tx[s]), PacketsAt(l, 1, u))
        /\ ObservationRows(l, ObservationsFlushMem(m), a, u)
    BY <1>4, ObservationsFlushed DEF TableSays, MemorySays
  <2>3. QED
    BY <1>4, <2>1, <2>2 DEF TableSays, MemorySays
<1>5. LeftBehind(s, m) = {m}
  <2>1. Interrupted(s, m) = {m} /\ Dirty(s, m) = {}
    BY DEF ShareStages, Interrupted, Dirty
  <2>2. (SUBSET {}) \ {{}} = {}
    OBVIOUS
  <2>3. QED
    BY <2>1, <2>2 DEF LeftBehind
<1>6. QED
  BY <1>1, <1>2, <1>3, <1>4, <1>5 DEF ShareStages

LEMMA ShareKept ==
  ASSUME NEW s \in ShareStages, NEW l, NEW l2, NEW a \in Nat \ {0}, NEW b \in Nat,
         \A i \in 1..b : l2[i] = l[i]
  PROVE  /\ \A m : \A at \in 0..b : MemorySays(s, l, m, a, at, b) => MemorySays(s, l2, m, a, at, b)
         /\ \A t : TableSays(s, l, t, b) => TableSays(s, l2, t, b)
<1>1. ASSUME NEW m, NEW at \in 0..b, MemorySays(s, l, m, a, at, b)
      PROVE  MemorySays(s, l2, m, a, at, b)
  <2>1. at \in Nat /\ at <= b
    OBVIOUS
  <2>2. s = "observers" => ObserverRows(l2, m, a, at, b)
    BY <1>1, <2>1, ObserversKept DEF MemorySays
  <2>3. s = "observer_status" => StatusRows(l2, m, a, b)
    BY <1>1, StatusKept DEF MemorySays
  <2>4. s = "nodes" => NodeRowsOf(l2, m, a, b)
    BY <1>1, NodesKept DEF MemorySays
  <2>5. s = "packet_observations" => ObservationRows(l2, m, a, b)
    BY <1>1, ObservationsKept DEF MemorySays
  <2>6. QED
    BY <2>2, <2>3, <2>4, <2>5 DEF MemorySays
<1>2. ASSUME NEW t, TableSays(s, l, t, b) PROVE TableSays(s, l2, t, b)
  <2>1. s = "observers" => ObserverRows(l2, t, 1, b, b)
    BY <1>2, ObserversKept DEF TableSays
  <2>2. s = "observer_status" => StatusTable(l2, t, b)
    BY <1>2, StatusKept DEF TableSays
  <2>3. s = "nodes" => NodeRowsOf(l2, t, 1, b)
    BY <1>2, NodesKept DEF TableSays
  <2>4. s = "packet_observations" => Copies(l2, t, PacketsAt(l2, 1, b))
    BY <1>2, ObservationsKept DEF TableSays
  <2>5. QED
    BY <2>1, <2>2, <2>3, <2>4 DEF TableSays
<1>3. QED
  BY <1>1, <1>2

LEMMA ShareNone ==
  ASSUME NEW s \in ShareStages, NEW l, NEW a \in Nat \ {0}, NEW b \in Nat,
         \A i \in a..b : l[i].kind = "dropped"
  PROVE  /\ MemorySays(s, l, EmptyMemory(s), a, b, b)
         /\ \A m : MemorySays(s, l, m, a, b, b) =>
               \A c \in Nat : MemorySays(s, l, m, c + 1, c, c)
<1>1. /\ s = "observer_status" => EmptyMemory(s) = StatusEmpty
      /\ s = "packet_observations" => EmptyMemory(s) = ObservationsEmpty
      /\ s \in {"observers", "nodes"} => EmptyMemory(s) = EmptyMap
  BY DEF ShareStages, EmptyMemory
<1>2. MemorySays(s, l, EmptyMemory(s), a, b, b)
  <2>1. s = "observers" => ObserverRows(l, EmptyMemory(s), a, b, b)
    BY <1>1, ObserversNone
  <2>2. s = "observer_status" => StatusRows(l, EmptyMemory(s), a, b)
    BY <1>1, StatusNone
  <2>3. s = "nodes" => NodeRowsOf(l, EmptyMemory(s), a, b)
    BY <1>1, NodesNone
  <2>4. s = "packet_observations" => ObservationRows(l, EmptyMemory(s), a, b)
    BY <1>1, ObservationsNone
  <2>5. QED
    BY <2>1, <2>2, <2>3, <2>4 DEF MemorySays
<1>3. ASSUME NEW m, MemorySays(s, l, m, a, b, b), NEW c \in Nat
      PROVE  MemorySays(s, l, m, c + 1, c, c)
  <2>1. s = "observers" => ObserverRows(l, m, c + 1, c, c)
    BY <1>3, ObserversNone DEF MemorySays
  <2>2. s = "observer_status" => StatusRows(l, m, c + 1, c)
    BY <1>3, StatusNone DEF MemorySays
  <2>3. s = "nodes" => NodeRowsOf(l, m, c + 1, c)
    BY <1>3, NodesNone DEF MemorySays
  <2>4. s = "packet_observations" => ObservationRows(l, m, c + 1, c)
    BY <1>3, ObservationsNone DEF MemorySays
  <2>5. QED
    BY <2>1, <2>2, <2>3, <2>4 DEF MemorySays
<1>4. QED
  BY <1>2, <1>3

LEMMA ShareFresh ==
  ASSUME NEW s \in ShareStages, NEW l, NEW c \in Nat
  PROVE  MemorySays(s, l, EmptyMemory(s), c + 1, c, c)
<1>1. \A i \in (c + 1)..c : l[i].kind = "dropped"
  OBVIOUS
<1>2. c + 1 \in Nat \ {0}
  OBVIOUS
<1>3. QED
  BY <1>1, <1>2, ShareNone

LEMMA ShareEmptyTable ==
  ASSUME NEW s \in ShareStages, NEW l
  PROVE  TableSays(s, l, EmptyTable(s), 0)
<1>1. \A i \in 1..0 : l[i].kind = "dropped"
  OBVIOUS
<1>2. ObserverRows(l, EmptyMap, 1, 0, 0) /\ NodeRowsOf(l, EmptyMap, 1, 0)
  BY <1>1, ObserversNone, NodesNone
<1>3. StatusTable(l, EmptyMap, 0)
  BY DEF StatusTable, WithKey, EmptyMap
<1>4. Copies(l, <<>>, PacketsAt(l, 1, 0))
  <2>1. PacketsAt(l, 1, 0) = {}
    BY DEF PacketsAt
  <2>2. QED
    BY <2>1, CopiesOfNone
<1>5. /\ s = "packet_observations" => EmptyTable(s) = <<>>
      /\ s # "packet_observations" => EmptyTable(s) = EmptyMap
  BY DEF ShareStages, EmptyTable
<1>6. QED
  BY <1>2, <1>3, <1>4, <1>5 DEF TableSays

(* The invariant of such a stage: how far its memory reaches, and that what *)
(* memory and the tables say is said of those stretches of the log.         *)
ShareInv(s) ==
    /\ \E r : Reached(r) /\ MemorySays(s, log, mem[s], cursor + 1, Pass(r), r)
    /\ TableSays(s, log, tables[s], dbCursor)
    /\ ppc = "flush" /\ Flushed(s) => TableSays(s, log, tx[s], upto)

LEMMA ShareInit ==
  ASSUME NEW s \in StageSet \cap ShareStages, Init
  PROVE  ShareInv(s)
<1>1. /\ mem[s] = EmptyMemory(s) /\ tables[s] = EmptyTable(s)
      /\ cursor = 0 /\ dbCursor = 0 /\ ppc = "down" /\ log = <<>>
  BY DEF Init
<1>2. Reached(0) /\ Pass(0) = 0
  BY <1>1 DEF Reached, Pass
<1>3. MemorySays(s, log, mem[s], 0 + 1, 0, 0)
  BY <1>1, ShareFresh
<1>4. TableSays(s, log, tables[s], 0)
  BY <1>1, ShareEmptyTable
<1>5. QED
  BY <1>1, <1>2, <1>3, <1>4 DEF ShareInv

LEMMA ShareStep ==
  ASSUME Loop, Batch, [Next]_vars, NEW s \in StageSet \cap ShareStages, ShareInv(s)
  PROVE  ShareInv(s)'
<1>1. PICK r : Reached(r) /\ MemorySays(s, log, mem[s], cursor + 1, Pass(r), r)
  BY DEF ShareInv
<1>2. /\ TableSays(s, log, tables[s], dbCursor)
      /\ ppc = "flush" /\ Flushed(s) => TableSays(s, log, tx[s], upto)
  BY DEF ShareInv
<1>3. /\ log \in Seq(EventSet) /\ Len(log) \in Nat
      /\ cursor \in Nat /\ dbCursor \in Nat /\ upto \in Nat /\ cursor + 1 \in Nat \ {0}
      /\ cursor <= dbCursor /\ dbCursor <= Len(log)
      /\ r \in Nat /\ cursor <= r /\ r <= Len(log)
      /\ ppc = "flush" => dbCursor <= upto /\ upto <= Len(log) /\ r = upto
  BY <1>1 DEF Loop, Reached
<1>4. Pass(r) \in 0..r
  BY <1>1, <1>3 DEF Pass, Reached, Batch
(* What the table says is not disturbed by what is logged later. *)
<1>5. ASSUME NEW t, NEW b \in Nat, b <= Len(log), TableSays(s, log, t, b)
      PROVE  TableSays(s, log', t, b)
  <2>1. \A i \in 1..b : log'[i] = log[i]
    BY <1>3, <1>5, LogKept
  <2>2. QED
    BY <1>5, <2>1, ShareKept
<1>6. CASE Quiet(s, r)
  <2>1. /\ mem'[s] = mem[s] /\ tables'[s] = tables[s] /\ UNCHANGED <<dbCursor, cursor>>
        /\ Reached(r)'
        /\ Pass(r)' = Pass(r) \/ (Pass(r) = r /\ Pass(r)' = cursor)
        /\ ppc' = "flush" /\ Flushed(s)' =>
             ppc = "flush" /\ Flushed(s) /\ tx'[s] = tx[s] /\ upto' = upto
    BY <1>6 DEF Quiet
  <2>2. MemorySays(s, log, mem[s], cursor + 1, Pass(r)', r)
    <3>1. ASSUME Pass(r) = r
          PROVE  MemorySays(s, log, mem[s], cursor + 1, cursor, r)
      <4>1. MemorySays(s, log, mem[s], cursor + 1, r, r) /\ cursor + 1 - 1 = cursor
        BY <1>1, <1>3, <3>1
      <4>2. QED
        BY <1>3, <4>1, ObserversAgain DEF MemorySays
    <3>2. QED
      BY <1>1, <2>1, <3>1
  <2>3. Pass(r)' \in 0..r
    BY <1>3, <1>4, <2>1
  <2>4. \A i \in 1..r : log'[i] = log[i]
    BY <1>3, LogKept
  <2>5. MemorySays(s, log', mem'[s], cursor' + 1, Pass(r)', r)
    BY <1>3, <2>1, <2>2, <2>3, <2>4, ShareKept
  <2>6. TableSays(s, log', tables'[s], dbCursor')
    BY <1>2, <1>3, <1>5, <2>1
  <2>7. ppc' = "flush" /\ Flushed(s)' => TableSays(s, log', tx'[s], upto')
    BY <1>2, <1>3, <1>5, <2>1
  <2>8. QED
    BY <2>1, <2>5, <2>6, <2>7 DEF ShareInv
<1>7. CASE Takes(s, r)
  <2>1. PICK q \in {Later(r, pos)} : Reached(q)'
    BY <1>7 DEF Takes
  <2>2. /\ ppc = "apply" /\ ppc' = "apply" /\ pos' = pos + 1
        /\ cursor < pos /\ pos \in 1..Len(log) /\ pos <= r + 1
        /\ UNCHANGED <<log, tables, dbCursor, cursor>>
    BY <1>7 DEF Takes
  <2>3. Pass(r) = pos - 1 /\ Pass(q)' = pos
    BY <2>2 DEF Pass
  <2>4. /\ MemorySays(s, log, Apply(s, mem[s], log[pos]), cursor + 1, pos, q)
        /\ log[pos].kind = "dropped" => Apply(s, mem[s], log[pos]) = mem[s]
    <3>1. MemorySays(s, log, mem[s], cursor + 1, pos - 1, r)
      BY <1>1, <2>3
    <3>2. cursor + 1 <= pos /\ q = Later(r, pos)
      BY <1>3, <2>2
    <3>3. QED
      BY <1>3, <2>2, <3>1, <3>2, ShareApplied
  <2>5. mem'[s] = Apply(s, mem[s], log[pos])
    BY <1>7, <2>4 DEF Takes
  <2>6. QED
    BY <1>2, <2>1, <2>2, <2>3, <2>4, <2>5 DEF ShareInv
<1>8. CASE InTurn(s) /\ (Writes(s, r) \/ Breaks(s, r))
  <2>1. ppc = "flush" /\ tx[s] = tables[s]
    BY <1>8 DEF InTurn
  <2>2. Pass(r) = r
    BY <2>1 DEF Pass
  <2>3. /\ TableSays(s, log, FlushTable(s, mem[s]), upto)
        /\ MemorySays(s, log, FlushMem(s, mem[s], Dirty(s, mem[s])), cursor + 1, upto, upto)
        /\ LeftBehind(s, mem[s]) = {mem[s]}
    <3>1. /\ TableSays(s, log, tx[s], dbCursor)
          /\ MemorySays(s, log, mem[s], cursor + 1, upto, upto)
          /\ cursor + 1 <= dbCursor + 1 /\ dbCursor <= upto /\ upto <= Len(log)
      BY <1>1, <1>2, <1>3, <2>1, <2>2
    <3>2. QED
      BY <1>3, <3>1, ShareFlushed
  <2>4. /\ UNCHANGED <<log, tables, dbCursor, cursor>> /\ Reached(r)'
        /\ ppc' \in {"flush", "idle"}
        /\ mem'[s] \in {FlushMem(s, mem[s], Dirty(s, mem[s])), mem[s]}
        /\ ppc' = "flush" => tx'[s] = FlushTable(s, mem[s]) /\ upto' = upto
    BY <1>8, <2>3 DEF Writes, Breaks
  <2>5. Pass(r)' = r
    BY <2>4 DEF Pass
  <2>6. MemorySays(s, log, mem'[s], cursor + 1, r, r)
    BY <1>1, <1>3, <2>1, <2>2, <2>3, <2>4
  <2>7. QED
    BY <1>2, <2>3, <2>4, <2>5, <2>6 DEF ShareInv
<1>9. CASE Commits(s, r)
  <2>1. /\ ppc = "flush" /\ Flushed(s) /\ ppc' \in {"idle", "settle"}
        /\ tables'[s] = tx[s] /\ dbCursor' = upto
        /\ mem'[s] = mem[s] /\ UNCHANGED <<log, cursor>> /\ Reached(r)'
    BY <1>9 DEF Commits
  <2>2. Pass(r) = r /\ Pass(r)' = r
    BY <2>1 DEF Pass
  <2>3. QED
    BY <1>1, <1>2, <2>1, <2>2 DEF ShareInv
<1>10. CASE Settles(s, r)
  <2>1. /\ ppc = "settle" /\ ppc' = "idle" /\ cursor' = r /\ Reached(r)'
        /\ UNCHANGED <<log, tables, dbCursor>>
        /\ mem'[s] = IF hwm = ZeroTime THEN AfterNotify(s, mem[s])
                     ELSE Evict(s, AfterNotify(s, mem[s]), hwm)
        /\ hwm = ZeroTime => \A i \in (cursor + 1)..r : log[i].kind = "dropped"
    BY <1>10 DEF Settles
  <2>2. Pass(r) = r /\ Pass(r)' = r
    BY <2>1 DEF Pass
  <2>3. /\ AfterNotify(s, mem[s]) = mem[s]
        /\ Evict(s, mem[s], hwm) = EmptyMemory(s)
    BY DEF ShareStages, AfterNotify, Evict, EmptyMemory, ObserversEvict, StatusEvict,
       NodesEvict, ObservationsEvict
  <2>4. MemorySays(s, log, mem'[s], r + 1, r, r)
    <3>1. CASE hwm = ZeroTime
      <4>1. MemorySays(s, log, mem[s], cursor + 1, r, r) /\ mem'[s] = mem[s]
        BY <1>1, <2>1, <2>2, <2>3, <3>1
      <4>2. QED
        BY <1>3, <2>1, <3>1, <4>1, ShareNone
    <3>2. CASE hwm # ZeroTime
      <4>1. mem'[s] = EmptyMemory(s)
        BY <2>1, <2>3, <3>2
      <4>2. QED
        BY <1>3, <4>1, ShareFresh
    <3>3. QED
      BY <3>1, <3>2
  <2>5. QED
    BY <1>2, <2>1, <2>2, <2>4 DEF ShareInv
<1>11. CASE Restarts(s)
  <2>1. PICK q \in {cursor'} : Reached(q)'
    BY <1>11 DEF Restarts
  <2>2. /\ mem'[s] = EmptyMemory(s) /\ ppc' \in {"down", "idle"} /\ log' = log
        /\ \/ tables'[s] = tables[s] /\ dbCursor' = dbCursor
           \/ tables'[s] = EmptyTable(s) /\ dbCursor' = 0
    BY <1>11 DEF Restarts
  <2>3. q = cursor' /\ q \in Nat /\ Pass(q)' = q
    BY <2>1, <2>2 DEF Reached, Pass
  <2>4. MemorySays(s, log', mem'[s], q + 1, q, q)
    BY <2>2, <2>3, ShareFresh
  <2>5. TableSays(s, log', tables'[s], dbCursor')
    BY <1>2, <2>2, ShareEmptyTable
  <2>6. QED
    BY <2>1, <2>2, <2>3, <2>4, <2>5 DEF ShareInv
<1>12. QED
  BY <1>1, <1>6, <1>7, <1>8, <1>9, <1>10, <1>11, StageSteps DEF Writes, Breaks

SharesInv == \A s \in StageSet \cap ShareStages : ShareInv(s)

LEMMA SharesHold == Spec => [](Loop /\ Batch /\ SharesInv)
<1>1. Init => Loop /\ Batch /\ SharesInv
  BY LoopInit, BatchInit, ShareInit DEF SharesInv
<1>2. ASSUME Loop, Batch, SharesInv, [Next]_vars
      PROVE  (Loop /\ Batch /\ SharesInv)'
  <2>1. Loop' /\ Batch'
    BY <1>2, LoopStep, BatchStep
  <2>2. ASSUME NEW s \in (StageSet \cap ShareStages)' PROVE ShareInv(s)'
    <3>1. s \in StageSet \cap ShareStages
      BY DEF StageSet, RowsOf, ShareStages
    <3>2. ShareInv(s)
      BY <1>2, <3>1 DEF SharesInv
    <3>3. QED
      BY <1>2, <3>1, <3>2, ShareStep
  <2>3. QED
    BY <2>1, <2>2 DEF SharesInv
<1>3. QED
  BY <1>1, <1>2, PTL DEF Spec

-----------------------------------------------------------------------------
(* The observers table is a function of the projected log, whatever batches *)
(* fail, lose their acknowledgement, are cut by a crash or run again after  *)
(* a reset: first_seen and last_seen bound the statuses of the observer and *)
(* each field carries the value logged last.                                *)
THEOREM ObserversExactHolds ==
  ASSUME "observers" \in StageSet
  PROVE  Spec => []ObserversExact
<1>1. Loop /\ SharesInv => ObserversExact
  <2> SUFFICES ASSUME Loop, ShareInv("observers") PROVE ObserversExact
    BY DEF SharesInv, ShareStages
  <2> DEFINE rows == tables["observers"]
             of(o) == StatusesWith(LAMBDA e : e.obs = o)
             named(o) == StatusesWith(LAMBDA e : e.obs = o /\ e.origin # None)
             seen == {log[i].obs : i \in StatusesWith(LAMBDA e : TRUE)}
             b == dbCursor
  <2>1. ObserverRows(log, rows, 1, b, b)
    BY DEF ShareInv, TableSays
  <2>2. ASSUME NEW o
        PROVE  /\ of(o) = StatusesOf(log, o, 1, b) /\ named(o) = NamedBy(log, o, 1, b)
               /\ o \in seen <=> StatusesOf(log, o, 1, b) # {}
    BY DEF StatusesWith, Projected, StatusesOf, NamedBy
  <2>3. log \in Seq(EventSet) /\ b \in Nat /\ b <= Len(log)
    BY DEF Loop
  <2> HIDE DEF rows, of, named, seen, b
  <2>4. DOMAIN rows = seen
    <3>1. \A o : o \in DOMAIN rows <=> o \in seen
      BY <2>1, <2>2 DEF ObserverRows
    <3>2. QED
      BY <3>1
  <2>5. ASSUME NEW o \in seen
        PROVE  /\ rows[o].first = Min({log[i].ts : i \in of(o)})
               /\ rows[o].last = Max({log[i].ts : i \in of(o)})
               /\ rows[o].origin = IF named(o) = {} THEN None ELSE log[Max(named(o))].origin
    <3>1. of(o) = StatusesOf(log, o, 1, b) /\ named(o) = NamedBy(log, o, 1, b)
      BY <2>2
    <3>2. ObserverRow(log, rows[o], o, 1, b, b)
      BY <2>1, <2>4 DEF ObserverRows
    <3>3. of(o) \in SUBSET (1..Len(log)) /\ named(o) \in SUBSET Nat
      BY <2>3, <3>1 DEF StatusesOf, NamedBy
    <3>4. Lowest(log, rows[o].first, of(o)) /\ Highest(log, rows[o].last, of(o))
      BY <3>1, <3>2 DEF ObserverRow
    <3>5. rows[o].first = Min({log[i].ts : i \in of(o)})
      BY <2>3, <3>3, <3>4, LowestIsMin
    <3>6. rows[o].last = Max({log[i].ts : i \in of(o)})
      BY <2>3, <3>3, <3>4, HighestIsMax
    <3>7. rows[o].origin = IF named(o) = {} THEN None ELSE log[Max(named(o))].origin
      <4>1. LastNamed(log, rows[o].origin, o, 1, b, b)
        BY <3>2 DEF ObserverRow
      <4>2. CASE named(o) = {}
        BY <3>1, <4>1, <4>2 DEF LastNamed
      <4>3. CASE named(o) # {}
        <5>1. PICK i \in named(o) : rows[o].origin = log[i].origin /\ \A j \in named(o) : j <= i
          BY <3>1, <4>1, <4>3 DEF LastNamed
        <5>2. Max(named(o)) = i
          BY <3>3, <5>1, LastIsMax
        <5>3. QED
          BY <4>3, <5>1, <5>2
      <4>4. QED
        BY <4>2, <4>3
    <3>8. QED
      BY <3>5, <3>6, <3>7
  <2>6. QED
    BY <2>4, <2>5 DEF ObserversExact, rows, of, named, seen
<1>2. QED
  BY <1>1, SharesHold, PTL

(* observer_status holds, for every observer and time, the status that was  *)
(* logged first, although the buffer may hold statuses in several copies    *)
(* and rows already in the table are left alone.                            *)
THEOREM StatusFirstWinsHolds ==
  ASSUME "observer_status" \in StageSet
  PROVE  Spec => []StatusFirstWins
<1>1. Loop /\ SharesInv => StatusFirstWins
  <2> SUFFICES ASSUME Loop, ShareInv("observer_status") PROVE StatusFirstWins
    BY DEF SharesInv, ShareStages
  <2> DEFINE rows == tables["observer_status"]
             at(k) == StatusesWith(LAMBDA e : StatusKey(e) = k)
             keys == {StatusKey(log[i]) : i \in StatusesWith(LAMBDA e : TRUE)}
             b == dbCursor
  <2>1. StatusTable(log, rows, b)
    BY DEF ShareInv, TableSays
  <2>2. ASSUME NEW k
        PROVE  at(k) = WithKey(log, k, 1, b) /\ (k \in keys <=> WithKey(log, k, 1, b) # {})
    BY DEF StatusesWith, Projected, WithKey
  <2>3. b \in Nat
    BY DEF Loop
  <2> HIDE DEF rows, at, keys, b
  <2>4. DOMAIN rows = keys
    <3>1. \A k : k \in DOMAIN rows <=> k \in keys
      BY <2>1, <2>2 DEF StatusTable
    <3>2. QED
      BY <3>1
  <2>5. ASSUME NEW k \in keys PROVE rows[k] = log[Min(at(k))].floor
    <3>1. PICK e : FirstWithKey(log, e, k, 1, b) /\ rows[k] = e.floor
      BY <2>1, <2>4 DEF StatusTable
    <3>2. PICK i \in at(k) : e = log[i] /\ \A j \in at(k) : i <= j
      BY <2>2, <3>1 DEF FirstWithKey
    <3>3. at(k) \in SUBSET Nat
      BY <2>2, <2>3 DEF WithKey
    <3>4. Min(at(k)) = i
      BY <3>2, <3>3, FirstIsMin
    <3>5. QED
      BY <3>1, <3>2, <3>4
  <2>6. QED
    BY <2>4, <2>5 DEF StatusFirstWins, rows, at, keys
<1>2. QED
  BY <1>1, SharesHold, PTL

(* The foreign key never refuses a status: its observer was applied with it *)
(* to the stage before, whose rows the transaction already has.             *)
THEOREM StatusAcceptedHolds == Spec => []StatusAccepted
<1>1. Loop /\ Batch /\ SharesInv => StatusAccepted
  <2> DEFINE m == mem["observer_status"]
             of == {e.obs : e \in RowsOf(m.buf)}
             o == "observers"
  <2> SUFFICES ASSUME Loop, Batch, SharesInv, ppc = "flush", turn <= Len(Stages),
                      Stages[turn] = "observer_status"
               PROVE  of \subseteq DOMAIN tx[o]
    BY DEF StatusAccepted, Accepts, StatusAccepts
  <2>1. turn \in DOMAIN Stages /\ "observer_status" \in StageSet
    BY TurnIsStage
  <2>2. PICK i \in DOMAIN Stages : Stages[i] = o
    BY <2>1 DEF StageSet, RowsOf
  <2>3. i < turn
    <3>1. StageOrder[Stages[i]] = 1 /\ StageOrder[Stages[turn]] = 2
      BY <2>2 DEF StageOrder
    <3>2. ~(turn < i) /\ turn # i
      <4>1. turn < i => StageOrder[Stages[turn]] < StageOrder[Stages[i]]
        BY <2>1
      <4>2. QED
        BY <2>2, <3>1, <4>1
    <3>3. turn \in Nat /\ i \in Nat
      BY <2>1
    <3>4. QED
      BY <3>2, <3>3
  <2>4. o \in StageSet /\ Flushed(o)
    BY <2>2, <2>3 DEF Flushed, StageSet, RowsOf
  <2>5. ObserverRows(log, tx[o], 1, upto, upto)
    BY <2>4 DEF SharesInv, ShareInv, TableSays, ShareStages
  <2>6. StatusRows(log, m, cursor + 1, upto)
    <3>1. ShareInv("observer_status")
      BY <2>1 DEF SharesInv, ShareStages
    <3>2. PICK r : Reached(r) /\ MemorySays("observer_status", log, m, cursor + 1, Pass(r), r)
      BY <3>1 DEF ShareInv
    <3>3. r = upto
      BY <3>2 DEF Reached
    <3>4. QED
      BY <3>2, <3>3 DEF MemorySays
  <2>7. ASSUME NEW j \in DOMAIN m.buf PROVE m.buf[j].obs \in DOMAIN tx[o]
    <3>1. PICK k : k \in WithKey(log, StatusKey(m.buf[j]), cursor + 1, upto)
      BY <2>6 DEF StatusRows
    <3>2. /\ k \in (cursor + 1)..upto /\ log[k].kind = "status"
          /\ StatusKey(log[k]) = StatusKey(m.buf[j])
      BY <3>1 DEF WithKey
    <3>3. log[k].obs = m.buf[j].obs
      BY <3>2 DEF StatusKey
    <3>4. k \in 1..upto
      BY <3>2 DEF Loop
    <3>5. k \in StatusesOf(log, m.buf[j].obs, 1, upto)
      BY <3>2, <3>3, <3>4 DEF StatusesOf
    <3>6. QED
      BY <2>5, <3>5 DEF ObserverRows
  <2>8. QED
    BY <2>7 DEF RowsOf
<1>2. QED
  BY <1>1, SharesHold, PTL

(* A node is described by the advert with the latest time of its own, as    *)
(* the first log row that carries it has it, and received at the earliest   *)
(* reception of such an advert, although batches are applied again after    *)
(* failures and merged into rows that already hold them.                    *)
THEOREM FreshestAdvertWinsHolds ==
  ASSUME "nodes" \in StageSet
  PROVE  Spec => []FreshestAdvertWins
<1>1. Loop /\ SharesInv => FreshestAdvertWins
  <2> SUFFICES ASSUME Loop, ShareInv("nodes"), NEW key \in NodeKeys \cap DOMAIN NodeRows
               PROVE  LET latest == Max({log[i].advert.at : i \in AdvertsOf(key)})
                          carriers == {i \in AdvertsOf(key) : log[i].advert.at = latest}
                      IN  /\ NodeRows[key].at = latest
                          /\ NodeRows[key].name = log[Min(carriers)].advert.name
                          /\ NodeRows[key].received = Min({log[i].ts : i \in carriers})
    BY DEF SharesInv, ShareStages, FreshestAdvertWins
  <2> DEFINE row == NodeRows[key]
             S == AdvertsOf(key)
             C == Carrying(log, S, row.at)
  <2>1. /\ log \in Seq(EventSet) /\ dbCursor \in Nat /\ dbCursor <= Len(log)
        /\ Len(log) \in Nat
    BY DEF Loop
  <2>2. S = HeardOf(log, key, 1, dbCursor)
    BY DEF AdvertsOf, Adverts, PacketsWith, Projected, HeardOf
  <2>3. NodeRow(log, row, S)
    BY <2>2 DEF ShareInv, TableSays, NodeRowsOf, NodeRows
  <2>4. S \in SUBSET (1..Len(log)) /\ \A i \in S : log[i].advert.at \in Nat
    BY <2>1, <2>2, AdvertTimes
  <2> HIDE DEF S, row
  <2>5. Max({log[i].advert.at : i \in S}) = row.at
    <3> DEFINE times == {log[i].advert.at : i \in S}
    <3>1. times \in SUBSET Nat
      BY <2>4
    <3>2. row.at \in times /\ \A t \in times : t <= row.at
      BY <2>3 DEF NodeRow, Carrying
    <3> HIDE DEF times
    <3>3. Max(times) = row.at
      BY <3>1, <3>2, LastIsMax
    <3>4. QED
      BY <3>3 DEF times
  <2>6. C \in SUBSET (1..Len(log))
    BY <2>4 DEF Carrying
  <2>7. PICK i \in C : row.name = log[i].advert.name /\ \A j \in C : i <= j
    BY <2>3 DEF NodeRow
  <2>8. Lowest(log, row.received, C)
    BY <2>3 DEF NodeRow
  <2> HIDE DEF C
  <2>9. Min(C) = i
    BY <2>6, <2>7, FirstIsMin
  <2>10. row.received = Min({log[j].ts : j \in C})
    BY <2>1, <2>6, <2>8, LowestIsMin
  <2>11. {j \in S : log[j].advert.at = row.at} = C
    BY DEF C, Carrying
  <2>12. QED
    BY <2>5, <2>7, <2>9, <2>10, <2>11 DEF S, row
<1>2. QED
  BY <1>1, SharesHold, PTL

-----------------------------------------------------------------------------
(* Where a log, or a table, has an event. *)
Having(l, S, e) == {i \in S : l[i] = e}

(* Rows that are copies of some events have each of them at least as often. *)
LEMMA CopiesEnough ==
  ASSUME NEW l, NEW n \in Nat, NEW S \in SUBSET (1..n), NEW rows, Copies(l, rows, S), NEW e
  PROVE  Cardinality(Having(l, S, e)) <= Cardinality(Having(rows, DOMAIN rows, e))
<1> DEFINE P == Having(l, S, e)
           R == Having(rows, DOMAIN rows, e)
<1>1. PICK f : Covers(f, l, rows, S)
  BY DEF Copies
<1> DEFINE g == [i \in P |-> f[i]]
<1>2. g \in [P -> R] /\ \A i, j \in P : g[i] = g[j] => i = j
  BY <1>1 DEF Covers, Having
<1>3. g \in Injection(P, R)
  BY <1>2 DEF Injection, IsInjective
<1>4. IsFiniteSet(R)
  <2>1. Len(rows) \in Nat /\ R \subseteq 1..Len(rows)
    BY DEF Copies, Having
  <2>2. IsFiniteSet(1..Len(rows))
    BY <2>1, FS_Interval
  <2>3. QED
    BY <2>1, <2>2, FS_Subset
<1> HIDE DEF g, P, R
<1>5. Cardinality(P) <= Cardinality(R)
  BY <1>3, <1>4, FS_Injection
<1>6. QED
  BY <1>5 DEF P, R

(* Every observation has a row of its own in packet_observations, whatever  *)
(* batches fail, are applied again behind one that was committed without    *)
(* its acknowledgement, or are cut by a crash: rows may repeat, none lacks. *)
THEOREM ObservationsCompleteHolds == Spec => []ObservationsComplete
<1>1. Loop /\ SharesInv => ObservationsComplete
  <2> SUFFICES ASSUME Loop, ShareInv("packet_observations"), NEW e \in EventSet
               PROVE  Cardinality({i \in Projected : IsPacket(log[i]) /\ log[i] = e})
                        <= Cardinality({j \in DOMAIN Observations : Observations[j] = e})
    BY Listed DEF SharesInv, ShareStages, ObservationsComplete
  <2> DEFINE S == PacketsAt(log, 1, dbCursor)
  <2>1. Copies(log, Observations, S)
    BY DEF ShareInv, TableSays, Observations
  <2>2. dbCursor \in Nat /\ S \in SUBSET (1..dbCursor)
    BY DEF Loop, PacketsAt
  <2>3. /\ {i \in Projected : IsPacket(log[i]) /\ log[i] = e} = Having(log, S, e)
        /\ {j \in DOMAIN Observations : Observations[j] = e}
             = Having(Observations, DOMAIN Observations, e)
    BY DEF PacketsAt, Projected, Having
  <2> HIDE DEF S
  <2>4. Cardinality(Having(log, S, e))
          <= Cardinality(Having(Observations, DOMAIN Observations, e))
    BY <2>1, <2>2, CopiesEnough
  <2>5. QED
    BY <2>3, <2>4
<1>2. QED
  BY <1>1, SharesHold, PTL
=============================================================================

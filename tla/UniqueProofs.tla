---------------------------- MODULE UniqueProofs -----------------------------
(***************************************************************************)
(* Theorems about packets_unique, whose memory outlives the batch: a hash  *)
(* is kept from the batch that met it until it is evicted, and what memory *)
(* has lost is read back from the tables inside Flush.                     *)
(***************************************************************************)
EXTENDS ShareProofs

USE PipelineAssumption

(* The packets with a hash from position a to b of a log, those among them  *)
(* that carry the overwritten and the kept field, and who saw them.         *)
SightingsOf(l, h, a, b) == {i \in a..b : IsPacket(l[i]) /\ l[i].hash = h}
TypedOf(l, h, a, b) == {i \in SightingsOf(l, h, a, b) : l[i].type # None}
SourcedOf(l, h, a, b) == {i \in SightingsOf(l, h, a, b) : l[i].src # None}
SeenBy(l, S) == {l[i].obs : i \in S}

(* The value given last, in a memory that goes back to position f, when the *)
(* positions from a to b were applied and those up to `at` once more.       *)
LastTyped(l, v, h, f, a, at, b) ==
    \/ TypedOf(l, h, f, b) = {} /\ v = None
    \/ \E i \in TypedOf(l, h, f, b) :
          /\ v = l[i].type
          /\ \/ a <= i /\ i <= at /\ \A j \in TypedOf(l, h, a, at) : j <= i
             \/ TypedOf(l, h, a, at) = {} /\ \A j \in TypedOf(l, h, f, b) : j <= i

FirstSourced(l, v, h, f, b) ==
    \/ SourcedOf(l, h, f, b) = {} /\ v = None
    \/ \E i \in SourcedOf(l, h, f, b) :
          v = l[i].src /\ \A j \in SourcedOf(l, h, f, b) : i <= j

(* The memory of a hash that goes back to position f.  Of what came before  *)
(* it has observers and the first sighting in so far as they were read back *)
(* from the tables, and all observers once it is loaded.                    *)
UniqueEntry(l, st, h, f, a, at, b) ==
    /\ st = [first |-> st.first, last |-> st.last, type |-> st.type, src |-> st.src,
             observers |-> st.observers, loaded |-> st.loaded, dirty |-> st.dirty]
    /\ st.loaded \in BOOLEAN /\ st.dirty \in BOOLEAN
    /\ \E i \in SightingsOf(l, h, 1, b) : st.first = l[i].ts
    /\ \A i \in SightingsOf(l, h, f, b) : st.first <= l[i].ts
    /\ Highest(l, st.last, SightingsOf(l, h, f, b))
    /\ LastTyped(l, st.type, h, f, a, at, b)
    /\ FirstSourced(l, st.src, h, f, b)
    /\ SeenBy(l, SightingsOf(l, h, f, b)) \subseteq st.observers
    /\ st.observers \subseteq SeenBy(l, SightingsOf(l, h, 1, b))
    /\ st.loaded => st.observers = SeenBy(l, SightingsOf(l, h, 1, b))

UniqueMemory(l, m, a, at, b) ==
    /\ \A h \in DOMAIN m : \E f \in 1..a : UniqueEntry(l, m[h], h, f, a, at, b)
    /\ \A h \in DOMAIN m : h \notin {None, Blank}
    /\ \A h : SightingsOf(l, h, a, b) # {} => h \in DOMAIN m \cup {None, Blank}

(* The hashes met from position a to `at` are marked to be written. *)
Touched(l, m, a, at) ==
    \A h : SightingsOf(l, h, a, at) # {} =>
        h \in {None, Blank} \/ (h \in DOMAIN m /\ m[h].dirty)

UniqueRow(l, row, h, b) ==
    /\ Lowest(l, row.first, SightingsOf(l, h, 1, b))
    /\ Highest(l, row.last, SightingsOf(l, h, 1, b))
    /\ LastTyped(l, row.type, h, 1, 1, b, b)
    /\ FirstSourced(l, row.src, h, 1, b)
    /\ row.observers = Cardinality(SeenBy(l, SightingsOf(l, h, 1, b)))

UniqueRows(l, t, b) ==
    /\ \A h : h \in DOMAIN t <=> SightingsOf(l, h, 1, b) # {} /\ h \notin {None, Blank}
    /\ \A h \in DOMAIN t : UniqueRow(l, t[h], h, b)

LEMMA SightingTimes ==
  ASSUME NEW l \in Seq(EventSet), NEW h, NEW a \in Nat \ {0}, NEW b \in Nat, b <= Len(l)
  PROVE  /\ SightingsOf(l, h, a, b) \in SUBSET (1..Len(l))
         /\ \A i \in SightingsOf(l, h, a, b) : l[i].ts \in Nat
<1>1. SightingsOf(l, h, a, b) \in SUBSET (1..Len(l))
  BY DEF SightingsOf
<1>2. QED
  BY <1>1, EventTimes

(* What Apply makes of the entry of the hash that it meets. *)
Sighted(st, e) ==
    [first |-> Earlier(st.first, e.ts), last |-> Later(st.last, e.ts),
     type |-> Coalesce(e.type, st.type), src |-> Coalesce(st.src, e.src),
     observers |-> st.observers \cup {e.obs}, loaded |-> st.loaded, dirty |-> TRUE]

(* An entry goes on when the event at p is applied, for the first time or   *)
(* once more, and is not of this hash; and when it is.                      *)
LEMMA EntryPasses ==
  ASSUME NEW l \in Seq(EventSet), NEW h, NEW st, NEW a \in Nat \ {0}, NEW p \in 1..Len(l),
         NEW b \in Nat, NEW q, a <= p, p <= b + 1, b <= Len(l), q = Later(b, p),
         NEW f \in 1..a, UniqueEntry(l, st, h, f, a, p - 1, b),
         ~IsPacket(l[p]) \/ l[p].hash # h
  PROVE  UniqueEntry(l, st, h, f, a, p, q)
<1>1. /\ q \in Nat
      /\ \A i : i \in 1..q <=> i \in 1..b \/ i = p
      /\ \A i : i \in f..q <=> i \in f..b \/ i = p
      /\ \A i : i \in a..p <=> i \in a..(p - 1) \/ i = p
  BY DEF Later
<1>2. /\ SightingsOf(l, h, 1, q) = SightingsOf(l, h, 1, b)
      /\ SightingsOf(l, h, f, q) = SightingsOf(l, h, f, b)
      /\ SightingsOf(l, h, a, p) = SightingsOf(l, h, a, p - 1)
  BY <1>1 DEF SightingsOf
<1>3. /\ TypedOf(l, h, f, q) = TypedOf(l, h, f, b)
      /\ TypedOf(l, h, a, p) = TypedOf(l, h, a, p - 1)
      /\ SourcedOf(l, h, f, q) = SourcedOf(l, h, f, b)
  BY <1>2 DEF TypedOf, SourcedOf
<1>4. \A i \in Nat : i <= p - 1 => i <= p
  OBVIOUS
<1>5. TypedOf(l, h, f, b) \subseteq Nat
  BY DEF TypedOf, SightingsOf
<1>6. LastTyped(l, st.type, h, f, a, p, q)
  BY <1>3, <1>4, <1>5 DEF UniqueEntry, LastTyped
<1>7. FirstSourced(l, st.src, h, f, q)
  BY <1>3 DEF UniqueEntry, FirstSourced
<1>8. QED
  BY <1>2, <1>6, <1>7 DEF UniqueEntry

LEMMA EntryTypes ==
  ASSUME NEW l \in Seq(EventSet), NEW h, NEW v, NEW a \in Nat \ {0}, NEW p \in 1..Len(l),
         NEW b \in Nat, NEW q, a <= p, p <= b + 1, b <= Len(l), q = Later(b, p),
         NEW f \in 1..a, LastTyped(l, v, h, f, a, p - 1, b),
         IsPacket(l[p]), l[p].hash = h
  PROVE  LastTyped(l, Coalesce(l[p].type, v), h, f, a, p, q)
<1>1. /\ q \in Nat
      /\ \A i : i \in f..q <=> i \in f..b \/ i = p
      /\ \A i : i \in a..p <=> i \in a..(p - 1) \/ i = p
  BY DEF Later
<1>2. /\ SightingsOf(l, h, f, q) = SightingsOf(l, h, f, b) \cup {p}
      /\ SightingsOf(l, h, a, p) = SightingsOf(l, h, a, p - 1) \cup {p}
  BY <1>1 DEF SightingsOf
<1>3. CASE l[p].type # None
  <2>1. Coalesce(l[p].type, v) = l[p].type
    BY <1>3 DEF Coalesce
  <2>2. p \in TypedOf(l, h, f, q)
    BY <1>2, <1>3 DEF TypedOf
  <2>3. \A j \in TypedOf(l, h, a, p) : j <= p
    BY DEF TypedOf, SightingsOf
  <2>4. QED
    BY <2>1, <2>2, <2>3 DEF LastTyped
<1>4. CASE l[p].type = None
  <2>1. Coalesce(l[p].type, v) = v
    BY <1>4 DEF Coalesce
  <2>2. /\ TypedOf(l, h, f, q) = TypedOf(l, h, f, b)
        /\ TypedOf(l, h, a, p) = TypedOf(l, h, a, p - 1)
    BY <1>2, <1>4 DEF TypedOf
  <2>3. \A i \in TypedOf(l, h, f, b) : i <= p - 1 => i <= p
    BY DEF TypedOf, SightingsOf
  <2>4. QED
    BY <2>1, <2>2, <2>3 DEF LastTyped
<1>5. QED
  BY <1>3, <1>4

LEMMA EntrySources ==
  ASSUME NEW l \in Seq(EventSet), NEW h, NEW v, NEW p \in 1..Len(l),
         NEW b \in Nat, NEW q, p <= b + 1, b <= Len(l), q = Later(b, p),
         NEW f \in 1..p, FirstSourced(l, v, h, f, b),
         IsPacket(l[p]), l[p].hash = h
  PROVE  FirstSourced(l, Coalesce(v, l[p].src), h, f, q)
<1>1. /\ q \in Nat
      /\ \A i : i \in f..q <=> i \in f..b \/ i = p
      /\ \A i \in f..b : i = p \/ i <= b
      /\ p \in f..b \/ p = b + 1
  BY DEF Later
<1>2. /\ SightingsOf(l, h, f, q) = SightingsOf(l, h, f, b) \cup {p}
      /\ p \in SightingsOf(l, h, f, b) \/ p = b + 1
  BY <1>1 DEF SightingsOf
<1>3. CASE SourcedOf(l, h, f, b) = {}
  <2>1. v = None /\ Coalesce(v, l[p].src) = l[p].src
    BY <1>3 DEF FirstSourced, Coalesce
  <2>2. SourcedOf(l, h, f, q) = IF l[p].src = None THEN {} ELSE {p}
    BY <1>2, <1>3 DEF SourcedOf
  <2>3. QED
    BY <2>1, <2>2 DEF FirstSourced
<1>4. CASE SourcedOf(l, h, f, b) # {}
  <2>1. PICK i \in SourcedOf(l, h, f, b) :
               v = l[i].src /\ \A j \in SourcedOf(l, h, f, b) : i <= j
    BY <1>4 DEF FirstSourced
  <2>2. Coalesce(v, l[p].src) = l[i].src
    BY <2>1 DEF Coalesce, SourcedOf
  <2>3. i \in SourcedOf(l, h, f, q) /\ i \in f..b
    BY <1>2 DEF SourcedOf, SightingsOf
  <2>4. ASSUME NEW j \in SourcedOf(l, h, f, q) PROVE i <= j
    <3>1. j \in SourcedOf(l, h, f, b) \/ j = b + 1
      BY <1>2 DEF SourcedOf
    <3>2. QED
      BY <2>1, <2>3, <3>1
  <2>5. QED
    BY <2>2, <2>3, <2>4 DEF FirstSourced
<1>5. QED
  BY <1>3, <1>4

LEMMA EntrySighted ==
  ASSUME NEW l \in Seq(EventSet), NEW h, NEW st, NEW a \in Nat \ {0}, NEW p \in 1..Len(l),
         NEW b \in Nat, NEW q, a <= p, p <= b + 1, b <= Len(l), q = Later(b, p),
         NEW f \in 1..a, UniqueEntry(l, st, h, f, a, p - 1, b),
         IsPacket(l[p]), l[p].hash = h
  PROVE  UniqueEntry(l, Sighted(st, l[p]), h, f, a, p, q)
<1> DEFINE e == l[p]
           S == SightingsOf(l, h, f, b)
           W == SightingsOf(l, h, 1, b)
<1>1. /\ q \in Nat /\ q <= Len(l)
      /\ \A i : i \in 1..q <=> i \in 1..b \/ i = p
      /\ \A i : i \in f..q <=> i \in f..b \/ i = p
  BY DEF Later
<1>2. /\ SightingsOf(l, h, f, q) = S \cup {p}
      /\ SightingsOf(l, h, 1, q) = W \cup {p}
  BY <1>1 DEF SightingsOf
<1>3. /\ S \in SUBSET (1..Len(l)) /\ W \in SUBSET (1..Len(l)) /\ {p} \in SUBSET (1..Len(l))
      /\ \A i \in W \cup {p} : l[i].ts \in Nat
      /\ S \subseteq W
  <2>1. S \subseteq W
    BY DEF SightingsOf
  <2>2. f \in Nat \ {0} /\ 1 \in Nat \ {0}
    OBVIOUS
  <2>3. /\ S \in SUBSET (1..Len(l)) /\ W \in SUBSET (1..Len(l))
        /\ \A i \in W : l[i].ts \in Nat
    BY <2>2, SightingTimes
  <2>4. l[p].ts \in Nat
    BY EventTimes
  <2>5. QED
    BY <2>1, <2>3, <2>4
<1>4. /\ \E i \in W : st.first = l[i].ts
      /\ \A i \in S : st.first <= l[i].ts
      /\ Highest(l, st.last, S)
      /\ SeenBy(l, S) \subseteq st.observers /\ st.observers \subseteq SeenBy(l, W)
      /\ st.loaded => st.observers = SeenBy(l, W)
      /\ st.loaded \in BOOLEAN
  BY DEF UniqueEntry
<1>5. /\ LastTyped(l, Coalesce(e.type, st.type), h, f, a, p, q)
      /\ FirstSourced(l, Coalesce(st.src, e.src), h, f, q)
  <2>1. LastTyped(l, st.type, h, f, a, p - 1, b) /\ FirstSourced(l, st.src, h, f, b)
    BY DEF UniqueEntry
  <2>2. f \in 1..p
    OBVIOUS
  <2>3. QED
    BY <2>1, <2>2, EntryTypes, EntrySources
<1> HIDE DEF S, W
<1>6. /\ \E i \in W \cup {p} : Earlier(st.first, e.ts) = l[i].ts
      /\ \A i \in S \cup {p} : Earlier(st.first, e.ts) <= l[i].ts
  <2>1. st.first \in Nat /\ e.ts \in Nat
    BY <1>3, <1>4
  <2>2. /\ Earlier(st.first, e.ts) \in Nat
        /\ Earlier(st.first, e.ts) <= st.first /\ Earlier(st.first, e.ts) <= e.ts
        /\ Earlier(st.first, e.ts) \in {st.first, e.ts}
    BY <2>1 DEF Earlier
  <2>3. ASSUME NEW i \in S \cup {p} PROVE Earlier(st.first, e.ts) <= l[i].ts
    <3>1. l[i].ts \in Nat /\ (st.first <= l[i].ts \/ l[i].ts = e.ts)
      BY <1>3, <1>4
    <3>2. QED
      BY <2>1, <2>2, <3>1
  <2>4. QED
    BY <1>4, <2>2, <2>3
<1>7. Highest(l, Later(st.last, e.ts), S \cup {p})
  BY <1>3, <1>4, BoundsOfOne, HighestJoins
<1>8. /\ SeenBy(l, S \cup {p}) \subseteq st.observers \cup {e.obs}
      /\ st.observers \cup {e.obs} \subseteq SeenBy(l, W \cup {p})
      /\ st.loaded => st.observers \cup {e.obs} = SeenBy(l, W \cup {p})
  <2>1. /\ SeenBy(l, S \cup {p}) = SeenBy(l, S) \cup {e.obs}
        /\ SeenBy(l, W \cup {p}) = SeenBy(l, W) \cup {e.obs}
    BY DEF SeenBy
  <2>2. QED
    BY <1>4, <2>1
<1> DEFINE new == Sighted(st, e)
<1>9. /\ new.first = Earlier(st.first, e.ts) /\ new.last = Later(st.last, e.ts)
      /\ new.type = Coalesce(e.type, st.type) /\ new.src = Coalesce(st.src, e.src)
      /\ new.observers = st.observers \cup {e.obs}
      /\ new.loaded = st.loaded /\ new.dirty = TRUE
      /\ new = [first |-> new.first, last |-> new.last, type |-> new.type, src |-> new.src,
                observers |-> new.observers, loaded |-> new.loaded, dirty |-> new.dirty]
  BY DEF Sighted
<1> HIDE DEF new
<1>10. /\ \E i \in SightingsOf(l, h, 1, q) : new.first = l[i].ts
       /\ \A i \in SightingsOf(l, h, f, q) : new.first <= l[i].ts
       /\ Highest(l, new.last, SightingsOf(l, h, f, q))
  BY <1>2, <1>6, <1>7, <1>9
<1>11. /\ SeenBy(l, SightingsOf(l, h, f, q)) \subseteq new.observers
       /\ new.observers \subseteq SeenBy(l, SightingsOf(l, h, 1, q))
       /\ new.loaded => new.observers = SeenBy(l, SightingsOf(l, h, 1, q))
       /\ new.loaded \in BOOLEAN /\ new.dirty \in BOOLEAN
  BY <1>2, <1>4, <1>8, <1>9
<1>12. LastTyped(l, new.type, h, f, a, p, q) /\ FirstSourced(l, new.src, h, f, q)
  BY <1>5, <1>9
<1>13. UniqueEntry(l, new, h, f, a, p, q)
  BY <1>9, <1>10, <1>11, <1>12 DEF UniqueEntry
<1>14. QED
  BY <1>13 DEF new

(* A hash that memory does not have was not met since position a. *)
LEMMA EntryStarts ==
  ASSUME NEW l \in Seq(EventSet), NEW h, NEW a \in Nat \ {0}, NEW p \in 1..Len(l),
         NEW b \in Nat, NEW q, a <= p, p <= b + 1, b <= Len(l), q = Later(b, p),
         SightingsOf(l, h, a, b) = {}, IsPacket(l[p]), l[p].hash = h
  PROVE  UniqueEntry(l, Sighted(FreshHash(l[p]), l[p]), h, a, a, p, q)
<1> DEFINE e == l[p]
           new == Sighted(FreshHash(e), e)
<1>1. /\ q \in Nat
      /\ \A i : i \in a..q <=> i \in a..b \/ i = p
      /\ \A i : i \in a..p <=> i \in a..(p - 1) \/ i = p
      /\ p \in 1..q /\ a..(p - 1) \subseteq a..b
  BY DEF Later
<1>2. /\ SightingsOf(l, h, a, q) = {p}
      /\ p \in SightingsOf(l, h, 1, q)
      /\ SightingsOf(l, h, a, p) = {p}
  BY <1>1 DEF SightingsOf
<1>3. e.ts \in Nat
  BY EventTimes
<1>4. /\ new.first = e.ts /\ new.last = e.ts
      /\ new.type = e.type /\ new.src = e.src
      /\ new.observers = {e.obs}
      /\ new.loaded = FALSE /\ new.dirty = TRUE
      /\ new = [first |-> new.first, last |-> new.last, type |-> new.type, src |-> new.src,
                observers |-> new.observers, loaded |-> new.loaded, dirty |-> new.dirty]
  BY <1>3 DEF Sighted, FreshHash, Earlier, Later, Coalesce
<1> HIDE DEF new
<1>5. LastTyped(l, new.type, h, a, a, p, q)
  <2>1. TypedOf(l, h, a, q) = IF e.type = None THEN {} ELSE {p}
    BY <1>2 DEF TypedOf
  <2>2. TypedOf(l, h, a, p) \subseteq {p}
    BY <1>2 DEF TypedOf
  <2>3. QED
    BY <1>4, <2>1, <2>2 DEF LastTyped
<1>6. FirstSourced(l, new.src, h, a, q)
  <2>1. SourcedOf(l, h, a, q) = IF e.src = None THEN {} ELSE {p}
    BY <1>2 DEF SourcedOf
  <2>2. QED
    BY <1>4, <2>1 DEF FirstSourced
<1>7. Highest(l, new.last, {p})
  BY <1>4, BoundsOfOne
<1>8. /\ SeenBy(l, {p}) = {e.obs} /\ {e.obs} \subseteq SeenBy(l, SightingsOf(l, h, 1, q))
  BY <1>2 DEF SeenBy
<1>9. /\ \E i \in SightingsOf(l, h, 1, q) : new.first = l[i].ts
      /\ \A i \in SightingsOf(l, h, a, q) : new.first <= l[i].ts
  BY <1>2, <1>3, <1>4
<1>10. /\ SeenBy(l, SightingsOf(l, h, a, q)) \subseteq new.observers
       /\ new.observers \subseteq SeenBy(l, SightingsOf(l, h, 1, q))
  BY <1>2, <1>4, <1>8
<1>11. UniqueEntry(l, new, h, a, a, p, q)
  BY <1>2, <1>4, <1>5, <1>6, <1>7, <1>9, <1>10 DEF UniqueEntry
<1>12. QED
  BY <1>11 DEF new

LEMMA UniqueApplied ==
  ASSUME NEW l \in Seq(EventSet), NEW m, NEW a \in Nat \ {0}, NEW p \in 1..Len(l), NEW b \in Nat,
         NEW q, a <= p, p <= b + 1, b <= Len(l), q = Later(b, p),
         UniqueMemory(l, m, a, p - 1, b)
  PROVE  /\ UniqueMemory(l, UniqueApply(m, l[p]), a, p, q)
         /\ Touched(l, m, a, p - 1) => Touched(l, UniqueApply(m, l[p]), a, p)
<1> DEFINE e == l[p]
<1>1. /\ \A i : i \in a..q <=> i \in a..b \/ i = p
      /\ \A i : i \in a..p <=> i \in a..(p - 1) \/ i = p
  BY DEF Later
<1>2. ASSUME NEW h, ~IsPacket(e) \/ e.hash # h
      PROVE  /\ SightingsOf(l, h, a, q) = SightingsOf(l, h, a, b)
             /\ SightingsOf(l, h, a, p) = SightingsOf(l, h, a, p - 1)
  BY <1>1, <1>2 DEF SightingsOf
<1>3. ASSUME NEW h \in DOMAIN m, ~IsPacket(e) \/ e.hash # h
      PROVE  \E f \in 1..a : UniqueEntry(l, m[h], h, f, a, p, q)
  <2>1. PICK f \in 1..a : UniqueEntry(l, m[h], h, f, a, p - 1, b)
    BY DEF UniqueMemory
  <2>2. UniqueEntry(l, m[h], h, f, a, p, q)
    BY <1>3, <2>1, EntryPasses
  <2>3. QED
    BY <2>2
<1>4. CASE ~IsPacket(e) \/ ~Hashed(e)
  <2>1. UniqueApply(m, e) = m
    BY <1>4 DEF UniqueApply
  <2>2. ASSUME NEW h, h \notin {None, Blank} PROVE ~IsPacket(e) \/ e.hash # h
    BY <1>4, <2>2 DEF Hashed
  <2>3. \A h \in DOMAIN m : h \notin {None, Blank}
    BY DEF UniqueMemory
  <2>4. \A h \in DOMAIN m : \E f \in 1..a : UniqueEntry(l, m[h], h, f, a, p, q)
    BY <1>3, <2>2, <2>3
  <2>5. \A h : SightingsOf(l, h, a, q) # {} => h \in DOMAIN m \cup {None, Blank}
    BY <1>2, <2>2 DEF UniqueMemory
  <2>6. UniqueMemory(l, m, a, p, q)
    BY <2>3, <2>4, <2>5 DEF UniqueMemory
  <2>7. ASSUME Touched(l, m, a, p - 1) PROVE Touched(l, m, a, p)
    BY <1>2, <2>2, <2>7 DEF Touched
  <2>8. QED
    BY <2>1, <2>6, <2>7
<1>5. CASE IsPacket(e) /\ Hashed(e)
  <2> DEFINE st == IF e.hash \in DOMAIN m THEN m[e.hash] ELSE FreshHash(e)
             new == Sighted(st, e)
  <2>1. UniqueApply(m, e) = Put(m, e.hash, new)
    BY <1>5 DEF UniqueApply, Sighted
  <2>2. e.hash \notin {None, Blank}
    BY <1>5 DEF Hashed
  <2>3. \E f \in 1..a : UniqueEntry(l, new, e.hash, f, a, p, q)
    <3>1. CASE e.hash \in DOMAIN m
      <4>1. PICK f \in 1..a : UniqueEntry(l, m[e.hash], e.hash, f, a, p - 1, b)
        BY <3>1 DEF UniqueMemory
      <4>2. UniqueEntry(l, Sighted(m[e.hash], e), e.hash, f, a, p, q)
        BY <1>5, <4>1, EntrySighted
      <4>3. QED
        BY <3>1, <4>2
    <3>2. CASE e.hash \notin DOMAIN m
      <4>1. SightingsOf(l, e.hash, a, b) = {}
        BY <2>2, <3>2 DEF UniqueMemory
      <4>2. UniqueEntry(l, Sighted(FreshHash(e), e), e.hash, a, a, p, q)
        BY <1>5, <4>1, EntryStarts
      <4>3. a \in 1..a
        OBVIOUS
      <4>4. QED
        BY <3>2, <4>2, <4>3
    <3>3. QED
      BY <3>1, <3>2
  <2>4. new.dirty = TRUE
    BY DEF Sighted
  <2> HIDE DEF st, new
  <2> DEFINE M == Put(m, e.hash, new)
  <2>5. /\ DOMAIN M = DOMAIN m \cup {e.hash}
        /\ M[e.hash] = new
        /\ \A h \in DOMAIN m \ {e.hash} : M[h] = m[h]
    BY DEF Put
  <2> HIDE DEF M
  <2>6. ASSUME NEW h \in DOMAIN M
         PROVE  h \notin {None, Blank} /\ \E f \in 1..a : UniqueEntry(l, M[h], h, f, a, p, q)
    <3>1. CASE h = e.hash
      BY <2>2, <2>3, <2>5, <3>1
    <3>2. CASE h # e.hash
      BY <1>3, <2>5, <3>2 DEF UniqueMemory
    <3>3. QED
      BY <3>1, <3>2
  <2>7. ASSUME NEW h, SightingsOf(l, h, a, q) # {} PROVE h \in DOMAIN M \cup {None, Blank}
    BY <1>2, <2>5, <2>7 DEF UniqueMemory
  <2>8. UniqueMemory(l, M, a, p, q)
    BY <2>6, <2>7 DEF UniqueMemory
  <2>9. ASSUME Touched(l, m, a, p - 1), NEW h, SightingsOf(l, h, a, p) # {}
        PROVE  h \in {None, Blank} \/ (h \in DOMAIN M /\ M[h].dirty)
    <3>1. CASE h = e.hash
      BY <2>4, <2>5, <3>1
    <3>2. CASE h # e.hash
      BY <1>2, <2>5, <2>9, <3>2 DEF Touched
    <3>3. QED
      BY <3>1, <3>2
  <2>10. Touched(l, m, a, p - 1) => Touched(l, M, a, p)
    BY <2>9 DEF Touched
  <2>11. QED
    BY <2>1, <2>8, <2>10 DEF M
<1>6. QED
  BY <1>4, <1>5

-----------------------------------------------------------------------------
(* An entry with one field changed. *)
LEMMA EntryChanged ==
  ASSUME NEW st, NEW v,
         st = [first |-> st.first, last |-> st.last, type |-> st.type, src |-> st.src,
               observers |-> st.observers, loaded |-> st.loaded, dirty |-> st.dirty]
  PROVE  /\ [st EXCEPT !.first = v] =
              [first |-> v, last |-> st.last, type |-> st.type, src |-> st.src,
               observers |-> st.observers, loaded |-> st.loaded, dirty |-> st.dirty]
         /\ [st EXCEPT !.observers = v] =
              [first |-> st.first, last |-> st.last, type |-> st.type, src |-> st.src,
               observers |-> v, loaded |-> st.loaded, dirty |-> st.dirty]
         /\ [st EXCEPT !.loaded = v] =
              [first |-> st.first, last |-> st.last, type |-> st.type, src |-> st.src,
               observers |-> st.observers, loaded |-> v, dirty |-> st.dirty]
         /\ [st EXCEPT !.dirty = v] =
              [first |-> st.first, last |-> st.last, type |-> st.type, src |-> st.src,
               observers |-> st.observers, loaded |-> st.loaded, dirty |-> v]
  OBVIOUS

(* The two marks of an entry. *)
LEMMA EntryMarked ==
  ASSUME NEW l, NEW h, NEW st, NEW f, NEW a, NEW b, UniqueEntry(l, st, h, f, a, b, b)
  PROVE  /\ UniqueEntry(l, [st EXCEPT !.dirty = FALSE], h, f, a, b, b)
         /\ st.observers = SeenBy(l, SightingsOf(l, h, 1, b)) =>
              UniqueEntry(l, [st EXCEPT !.loaded = TRUE], h, f, a, b, b)
<1>1. st = [first |-> st.first, last |-> st.last, type |-> st.type, src |-> st.src,
            observers |-> st.observers, loaded |-> st.loaded, dirty |-> st.dirty]
  BY DEF UniqueEntry
<1> DEFINE clean == [st EXCEPT !.dirty = FALSE]
           loaded == [st EXCEPT !.loaded = TRUE]
<1>2. /\ clean = [first |-> st.first, last |-> st.last, type |-> st.type, src |-> st.src,
                  observers |-> st.observers, loaded |-> st.loaded, dirty |-> FALSE]
      /\ loaded = [first |-> st.first, last |-> st.last, type |-> st.type, src |-> st.src,
                   observers |-> st.observers, loaded |-> TRUE, dirty |-> st.dirty]
  BY <1>1, EntryChanged
<1> HIDE DEF clean, loaded
<1>3. UniqueEntry(l, clean, h, f, a, b, b)
  BY <1>2 DEF UniqueEntry
<1>4. ASSUME st.observers = SeenBy(l, SightingsOf(l, h, 1, b))
      PROVE  UniqueEntry(l, loaded, h, f, a, b, b)
  BY <1>2, <1>4 DEF UniqueEntry
<1>5. QED
  BY <1>3, <1>4 DEF clean, loaded

(* Of the rows of packet_observations, those of a hash tell who saw it. *)
LEMMA Recalled ==
  ASSUME NEW l, NEW o, NEW d \in Nat, Copies(l, o, PacketsAt(l, 1, d)), NEW h
  PROVE  /\ \A row \in RowsOf(o) :
               row.hash = h => row.obs \in SeenBy(l, SightingsOf(l, h, 1, d))
         /\ \A x \in SeenBy(l, SightingsOf(l, h, 1, d)) :
               \E row \in RowsOf(o) : row.hash = h /\ row.obs = x
<1>1. ASSUME NEW row \in RowsOf(o), row.hash = h
      PROVE  row.obs \in SeenBy(l, SightingsOf(l, h, 1, d))
  <2>1. PICK i \in PacketsAt(l, 1, d) : row = l[i]
    BY DEF RowsOf, Copies
  <2>2. i \in SightingsOf(l, h, 1, d)
    BY <1>1, <2>1 DEF PacketsAt, SightingsOf
  <2>3. QED
    BY <2>1, <2>2 DEF SeenBy
<1>2. ASSUME NEW x \in SeenBy(l, SightingsOf(l, h, 1, d))
      PROVE  \E row \in RowsOf(o) : row.hash = h /\ row.obs = x
  <2>1. PICK i \in SightingsOf(l, h, 1, d) : x = l[i].obs
    BY DEF SeenBy
  <2>2. i \in PacketsAt(l, 1, d) /\ l[i].hash = h
    BY DEF PacketsAt, SightingsOf
  <2>3. PICK g : Covers(g, l, o, PacketsAt(l, 1, d))
    BY DEF Copies
  <2>4. g[i] \in DOMAIN o /\ o[g[i]] = l[i]
    BY <2>2, <2>3 DEF Covers
  <2>5. l[i] \in RowsOf(o)
    BY <2>4 DEF RowsOf
  <2>6. QED
    BY <2>1, <2>2, <2>5
<1>3. QED
  BY <1>1, <1>2

(* What was read back from the tables for one hash. *)
LEMMA EntryRead ==
  ASSUME NEW l \in Seq(EventSet), NEW h, NEW st, NEW a \in Nat \ {0}, NEW d \in Nat,
         NEW u \in Nat, d <= u, u <= Len(l), NEW f \in 1..a, f <= d + 1,
         UniqueEntry(l, st, h, f, a, u, u), ~st.loaded,
         NEW R \in SUBSET SeenBy(l, SightingsOf(l, h, 1, d)),
         NEW v, Lowest(l, v, SightingsOf(l, h, 1, d))
  PROVE  UniqueEntry(l, [[st EXCEPT !.observers = @ \cup R] EXCEPT !.first = Earlier(@, v)],
                     h, f, a, u, u)
<1> DEFINE read == [st EXCEPT !.observers = @ \cup R]
           new == [read EXCEPT !.first = Earlier(@, v)]
           S == SightingsOf(l, h, f, u)
           W == SightingsOf(l, h, 1, u)
           D == SightingsOf(l, h, 1, d)
<1>1. st = [first |-> st.first, last |-> st.last, type |-> st.type, src |-> st.src,
            observers |-> st.observers, loaded |-> st.loaded, dirty |-> st.dirty]
  BY DEF UniqueEntry
<1>2. read = [first |-> st.first, last |-> st.last, type |-> st.type, src |-> st.src,
              observers |-> st.observers \cup R, loaded |-> st.loaded, dirty |-> st.dirty]
  BY <1>1, EntryChanged
<1> HIDE DEF read
<1>3. new = [first |-> Earlier(st.first, v), last |-> st.last, type |-> st.type, src |-> st.src,
             observers |-> st.observers \cup R, loaded |-> st.loaded, dirty |-> st.dirty]
  <2>1. /\ read.first = st.first /\ read.last = st.last /\ read.type = st.type
        /\ read.src = st.src /\ read.observers = st.observers \cup R
        /\ read.loaded = st.loaded /\ read.dirty = st.dirty
    BY <1>2
  <2>2. read = [first |-> read.first, last |-> read.last, type |-> read.type, src |-> read.src,
                observers |-> read.observers, loaded |-> read.loaded, dirty |-> read.dirty]
    BY <1>2, <2>1
  <2>3. new = [first |-> Earlier(read.first, v), last |-> read.last, type |-> read.type,
               src |-> read.src, observers |-> read.observers, loaded |-> read.loaded,
               dirty |-> read.dirty]
    BY <2>2, EntryChanged
  <2>4. QED
    BY <2>1, <2>3
<1> HIDE DEF new
<1>4. D \subseteq W /\ S \subseteq W /\ \A i \in W : l[i].ts \in Nat
  <2>1. D \subseteq W /\ S \subseteq W
    BY DEF SightingsOf
  <2>2. QED
    BY <2>1, SightingTimes
<1>5. /\ \E i \in W : st.first = l[i].ts
      /\ \A i \in S : st.first <= l[i].ts
      /\ SeenBy(l, S) \subseteq st.observers /\ st.observers \subseteq SeenBy(l, W)
  BY DEF UniqueEntry
<1>6. \E i \in D : v = l[i].ts
  BY DEF Lowest
<1> HIDE DEF S, W, D
<1>7. /\ \E i \in W : Earlier(st.first, v) = l[i].ts
      /\ \A i \in S : Earlier(st.first, v) <= l[i].ts
  <2>1. st.first \in Nat /\ v \in Nat
    BY <1>4, <1>5, <1>6
  <2>2. /\ Earlier(st.first, v) \in {st.first, v} /\ Earlier(st.first, v) <= st.first
        /\ Earlier(st.first, v) \in Nat
    BY <2>1 DEF Earlier
  <2>3. ASSUME NEW i \in S PROVE Earlier(st.first, v) <= l[i].ts
    <3>1. l[i].ts \in Nat /\ st.first <= l[i].ts
      BY <1>4, <1>5
    <3>2. QED
      BY <2>1, <2>2, <3>1
  <2>4. QED
    BY <1>4, <1>5, <1>6, <2>2, <2>3
<1>8. SeenBy(l, D) \subseteq SeenBy(l, W)
  BY <1>4 DEF SeenBy
<1>9. /\ SeenBy(l, S) \subseteq st.observers \cup R
      /\ st.observers \cup R \subseteq SeenBy(l, W)
  BY <1>5, <1>8 DEF D
<1>10. /\ st.loaded \in BOOLEAN /\ st.dirty \in BOOLEAN
       /\ Highest(l, st.last, S) /\ LastTyped(l, st.type, h, f, a, u, u)
       /\ FirstSourced(l, st.src, h, f, u)
  BY DEF UniqueEntry, S
<1>11. /\ new.first = Earlier(st.first, v) /\ new.last = st.last /\ new.type = st.type
       /\ new.src = st.src /\ new.observers = st.observers \cup R
       /\ new.loaded = st.loaded /\ new.dirty = st.dirty
  BY <1>3
<1>12. new = [first |-> new.first, last |-> new.last, type |-> new.type, src |-> new.src,
              observers |-> new.observers, loaded |-> new.loaded, dirty |-> new.dirty]
  BY <1>3, <1>11
<1>13. UniqueEntry(l, new, h, f, a, u, u)
  BY <1>7, <1>9, <1>10, <1>11, <1>12 DEF UniqueEntry, S, W
<1>14. QED
  BY <1>13 DEF new, read

(* The memory, the table and the observations that Flush finds: memory goes *)
(* back to position a and up to u, the tables are those of the log up to d. *)
Found(l, m, t, o, a, d, u) ==
    /\ l \in Seq(EventSet) /\ a \in Nat \ {0} /\ d \in Nat /\ u \in Nat
    /\ a <= d + 1 /\ d <= u /\ u <= Len(l)
    /\ UniqueMemory(l, m, a, u, u)
    /\ UniqueRows(l, t, d)
    /\ Copies(l, o, PacketsAt(l, 1, d))

(* What the log has of a hash before and after the part that memory knows. *)
LEMMA SightingsSplit ==
  ASSUME NEW l, NEW h, NEW d \in Nat, NEW u \in Nat, NEW f \in Nat \ {0}, f <= d + 1, d <= u
  PROVE  /\ SightingsOf(l, h, 1, u) = SightingsOf(l, h, 1, d) \cup SightingsOf(l, h, f, u)
         /\ TypedOf(l, h, 1, u) = TypedOf(l, h, 1, d) \cup TypedOf(l, h, f, u)
         /\ SourcedOf(l, h, 1, u) = SourcedOf(l, h, 1, d) \cup SourcedOf(l, h, f, u)
<1>1. \A i : i \in 1..u <=> i \in 1..d \/ i \in f..u
  OBVIOUS
<1>2. SightingsOf(l, h, 1, u) = SightingsOf(l, h, 1, d) \cup SightingsOf(l, h, f, u)
  BY <1>1 DEF SightingsOf
<1>3. QED
  BY <1>2 DEF TypedOf, SourcedOf

LEMMA UniqueReads ==
  ASSUME NEW l, NEW m, NEW t, NEW o, NEW a, NEW d, NEW u, Found(l, m, t, o, a, d, u),
         NEW rows \in SUBSET HistoryOf(UniquePending(m), t, o)
  PROVE  /\ DOMAIN UniqueRead(m, t, rows) = DOMAIN m
         /\ \A h \in DOMAIN m \ UniquePending(m) : UniqueRead(m, t, rows)[h] = m[h]
         /\ \A h \in UniquePending(m) :
               \E f \in 1..a : UniqueEntry(l, UniqueRead(m, t, rows)[h], h, f, a, u, u)
         /\ rows = HistoryOf(UniquePending(m), t, o) =>
               \A h \in UniquePending(m) :
                  UniqueRead(m, t, rows)[h].observers = SeenBy(l, SightingsOf(l, h, 1, u))
         /\ \A h \in UniquePending(m) : UniqueRead(m, t, rows)[h].dirty = m[h].dirty
<1> DEFINE seen(h) == {row \in rows : row.hash = h}
           R(h) == {row.obs : row \in seen(h)}
           read == UniqueRead(m, t, rows)
<1>1. /\ DOMAIN read = DOMAIN m
      /\ \A h \in DOMAIN m :
            read[h] = IF seen(h) = {} THEN m[h]
                      ELSE [[m[h] EXCEPT !.observers = @ \cup R(h)]
                                  EXCEPT !.first = Earlier(@, t[h].first)]
  BY DEF UniqueRead
<1> HIDE DEF read
<1>2. \A h : seen(h) # {} => h \in UniquePending(m) \cap DOMAIN t
  BY DEF HistoryOf
<1>3. \A h \in DOMAIN m \ UniquePending(m) : read[h] = m[h]
  BY <1>1, <1>2
<1>4. ASSUME NEW h \in UniquePending(m)
      PROVE  /\ \E f \in 1..a : UniqueEntry(l, read[h], h, f, a, u, u)
             /\ rows = HistoryOf(UniquePending(m), t, o) =>
                  read[h].observers = SeenBy(l, SightingsOf(l, h, 1, u))
             /\ read[h].dirty = m[h].dirty
  <2> DEFINE D == SightingsOf(l, h, 1, d)
  <2>1. h \in DOMAIN m /\ ~m[h].loaded /\ h \notin {None, Blank}
    BY DEF UniquePending, Found, UniqueMemory
  <2>2. /\ l \in Seq(EventSet) /\ a \in Nat \ {0} /\ d \in Nat /\ u \in Nat
        /\ a <= d + 1 /\ d <= u /\ u <= Len(l)
        /\ Copies(l, o, PacketsAt(l, 1, d))
    BY DEF Found
  <2>3. PICK f \in 1..a : UniqueEntry(l, m[h], h, f, a, u, u)
    BY <2>1 DEF Found, UniqueMemory
  <2>4. f \in Nat \ {0} /\ f <= d + 1
    BY <2>2
  <2>5. R(h) \subseteq SeenBy(l, D)
    <3>1. seen(h) \subseteq {row \in RowsOf(o) : row.hash = h}
      BY DEF HistoryOf
    <3>2. QED
      BY <2>2, <3>1, Recalled
  <2>6. /\ SeenBy(l, SightingsOf(l, h, f, u)) \subseteq m[h].observers
        /\ m[h].observers \subseteq SeenBy(l, SightingsOf(l, h, 1, u))
        /\ m[h] = [first |-> m[h].first, last |-> m[h].last, type |-> m[h].type,
                   src |-> m[h].src, observers |-> m[h].observers, loaded |-> m[h].loaded,
                   dirty |-> m[h].dirty]
    BY <2>3 DEF UniqueEntry
  <2>7. SeenBy(l, SightingsOf(l, h, 1, u)) = SeenBy(l, D) \cup SeenBy(l, SightingsOf(l, h, f, u))
    BY <2>2, <2>4, SightingsSplit DEF SeenBy
  <2>8. rows = HistoryOf(UniquePending(m), t, o) => SeenBy(l, D) \subseteq R(h)
    <3>1. SUFFICES ASSUME rows = HistoryOf(UniquePending(m), t, o), NEW x \in SeenBy(l, D)
                   PROVE  x \in R(h)
      OBVIOUS
    <3>2. h \in DOMAIN t
      <4>1. D # {}
        BY DEF SeenBy
      <4>2. QED
        BY <2>1, <4>1 DEF Found, UniqueRows
    <3>3. PICK row \in RowsOf(o) : row.hash = h /\ row.obs = x
      BY <2>2, Recalled
    <3>4. row \in seen(h)
      BY <3>1, <3>2, <3>3 DEF HistoryOf
    <3>5. QED
      BY <3>3, <3>4
  <2>9. m[h].observers \cup R(h) \subseteq SeenBy(l, SightingsOf(l, h, 1, u))
    BY <2>5, <2>6, <2>7
  <2>10. rows = HistoryOf(UniquePending(m), t, o) =>
           m[h].observers \cup R(h) = SeenBy(l, SightingsOf(l, h, 1, u))
    BY <2>6, <2>7, <2>8, <2>9
  <2>11. CASE seen(h) = {}
    <3>1. read[h] = m[h] /\ R(h) = {}
      BY <1>1, <2>1, <2>11
    <3>2. QED
      BY <2>3, <2>10, <3>1
  <2>12. CASE seen(h) # {}
    <3>1. h \in DOMAIN t
      BY <1>2, <2>12
    <3>2. Lowest(l, t[h].first, D)
      BY <3>1 DEF Found, UniqueRows, UniqueRow
    <3> DEFINE S == R(h)
               v == t[h].first
               st == m[h]
    <3>3. read[h] = [[st EXCEPT !.observers = @ \cup S] EXCEPT !.first = Earlier(@, v)]
      BY <1>1, <2>1, <2>12
    <3>4. /\ S \in SUBSET SeenBy(l, D) /\ Lowest(l, v, D) /\ ~st.loaded
          /\ UniqueEntry(l, st, h, f, a, u, u)
      BY <2>1, <2>3, <2>5, <3>2
    <3> HIDE DEF S, v, st
    <3>5. UniqueEntry(l, read[h], h, f, a, u, u)
      <4>1. UniqueEntry(l, [[st EXCEPT !.observers = @ \cup S] EXCEPT !.first = Earlier(@, v)],
                        h, f, a, u, u)
        BY <2>2, <2>4, <3>4, EntryRead
      <4>2. QED
        BY <3>3, <4>1
    <3>6. read[h].observers = m[h].observers \cup S /\ read[h].dirty = m[h].dirty
      BY <2>6, <3>3 DEF st
    <3>7. QED
      BY <2>10, <3>5, <3>6 DEF S
  <2>13. QED
    BY <2>11, <2>12
<1>5. QED
  BY <1>1, <1>3, <1>4 DEF read

LEMMA UniqueRehydrated ==
  ASSUME NEW l, NEW m, NEW t, NEW o, NEW a, NEW d, NEW u, Found(l, m, t, o, a, d, u)
  PROVE  /\ UniqueMemory(l, UniqueRehydrate(m, t, o), a, u, u)
         /\ DOMAIN UniqueRehydrate(m, t, o) = DOMAIN m
         /\ \A h \in UniqueDirty(m) : UniqueRehydrate(m, t, o)[h].loaded
<1> DEFINE pending == UniquePending(m)
           rows == HistoryOf(pending, t, o)
           read == UniqueRead(m, t, rows)
           full == UniqueRehydrate(m, t, o)
<1>1. /\ DOMAIN full = DOMAIN m
      /\ \A h \in DOMAIN m :
            full[h] = IF h \in pending THEN [read[h] EXCEPT !.loaded = TRUE] ELSE m[h]
  BY DEF UniqueRehydrate
<1> HIDE DEF full
<1>2. ASSUME NEW h \in pending
      PROVE  \E f \in 1..a : UniqueEntry(l, full[h], h, f, a, u, u) /\ full[h].loaded
  <2>1. PICK f \in 1..a : UniqueEntry(l, read[h], h, f, a, u, u)
    BY UniqueReads
  <2>2. read[h].observers = SeenBy(l, SightingsOf(l, h, 1, u))
    BY UniqueReads
  <2>3. h \in DOMAIN m
    BY DEF UniquePending
  <2> DEFINE st == read[h]
  <2>4. full[h] = [st EXCEPT !.loaded = TRUE]
    BY <1>1, <2>3
  <2>5. UniqueEntry(l, st, h, f, a, u, u) /\ st.observers = SeenBy(l, SightingsOf(l, h, 1, u))
    BY <2>1, <2>2
  <2> HIDE DEF st
  <2>6. UniqueEntry(l, full[h], h, f, a, u, u)
    <3>1. UniqueEntry(l, [st EXCEPT !.loaded = TRUE], h, f, a, u, u)
      BY <2>5, EntryMarked
    <3>2. QED
      BY <2>4, <3>1
  <2>7. full[h].loaded
    <3>1. st = [first |-> st.first, last |-> st.last, type |-> st.type, src |-> st.src,
                observers |-> st.observers, loaded |-> st.loaded, dirty |-> st.dirty]
      BY <2>5 DEF UniqueEntry
    <3>2. QED
      BY <2>4, <3>1
  <2>8. QED
    BY <2>6, <2>7
<1>3. ASSUME NEW h \in DOMAIN m
      PROVE  \E f \in 1..a : UniqueEntry(l, full[h], h, f, a, u, u)
  <2>1. CASE h \in pending
    BY <1>2, <2>1
  <2>2. CASE h \notin pending
    BY <1>1, <2>2 DEF Found, UniqueMemory
  <2>3. QED
    BY <2>1, <2>2
<1>4. UniqueMemory(l, full, a, u, u)
  BY <1>1, <1>3 DEF Found, UniqueMemory
<1>5. ASSUME NEW h \in UniqueDirty(m) PROVE full[h].loaded
  <2>1. CASE h \in pending
    BY <1>2, <2>1
  <2>2. CASE h \notin pending
    BY <1>1, <2>2 DEF UniqueDirty, UniquePending
  <2>3. QED
    BY <2>1, <2>2
<1>6. QED
  BY <1>1, <1>4, <1>5 DEF full

(* What Flush leaves in memory, all the way or broken off. *)
LEMMA UniqueFlushes ==
  ASSUME NEW l, NEW m, NEW t, NEW o, NEW a, NEW d, NEW u, Found(l, m, t, o, a, d, u)
  PROVE  /\ \A written : UniqueMemory(l, UniqueFlushMem(m, t, o, written), a, u, u)
         /\ \A left \in UniqueInterrupted(m, t, o) : UniqueMemory(l, left, a, u, u)
<1>1. ASSUME NEW written PROVE UniqueMemory(l, UniqueFlushMem(m, t, o, written), a, u, u)
  <2> DEFINE full == UniqueRehydrate(m, t, o)
             new == UniqueFlushMem(m, t, o, written)
  <2>1. /\ DOMAIN new = DOMAIN m
        /\ \A h \in DOMAIN m :
              new[h] = IF h \in written THEN [full[h] EXCEPT !.dirty = FALSE] ELSE full[h]
    BY DEF UniqueFlushMem
  <2>2. UniqueMemory(l, full, a, u, u) /\ DOMAIN full = DOMAIN m
    BY UniqueRehydrated
  <2> HIDE DEF full, new
  <2>3. ASSUME NEW h \in DOMAIN m PROVE \E f \in 1..a : UniqueEntry(l, new[h], h, f, a, u, u)
    <3> DEFINE st == full[h]
    <3>1. PICK f \in 1..a : UniqueEntry(l, st, h, f, a, u, u)
      BY <2>2 DEF UniqueMemory
    <3>2. new[h] \in {[st EXCEPT !.dirty = FALSE], st}
      BY <2>1
    <3> HIDE DEF st
    <3>3. UniqueEntry(l, [st EXCEPT !.dirty = FALSE], h, f, a, u, u)
      BY <3>1, EntryMarked
    <3>4. QED
      BY <3>1, <3>2, <3>3
  <2>4. UniqueMemory(l, new, a, u, u)
    BY <2>1, <2>2, <2>3 DEF UniqueMemory
  <2>5. QED
    BY <2>4 DEF new
<1>2. ASSUME NEW rows \in SUBSET HistoryOf(UniquePending(m), t, o)
      PROVE  UniqueMemory(l, UniqueRead(m, t, rows), a, u, u)
  <2> DEFINE new == UniqueRead(m, t, rows)
  <2>1. /\ DOMAIN new = DOMAIN m
        /\ \A h \in DOMAIN m \ UniquePending(m) : new[h] = m[h]
        /\ \A h \in UniquePending(m) : \E f \in 1..a : UniqueEntry(l, new[h], h, f, a, u, u)
    BY UniqueReads
  <2> HIDE DEF new
  <2>2. QED
    BY <2>1 DEF Found, UniqueMemory, new
<1>3. QED
  BY <1>1, <1>2 DEF UniqueInterrupted

(* The row that is written for a loaded entry. *)
LEMMA EntryUpserted ==
  ASSUME NEW l \in Seq(EventSet), NEW h, NEW st, NEW t, NEW a \in Nat \ {0}, NEW d \in Nat,
         NEW u \in Nat, d <= u, u <= Len(l), NEW f \in 1..a, a <= d + 1,
         UniqueEntry(l, st, h, f, a, u, u), st.loaded,
         h \in DOMAIN t => UniqueRow(l, t[h], h, d),
         h \notin DOMAIN t => SightingsOf(l, h, 1, d) = {}
  PROVE  UniqueRow(l, UniqueUpsert(t, h, st), h, u)
<1> DEFINE S == SightingsOf(l, h, f, u)
           W == SightingsOf(l, h, 1, u)
           D == SightingsOf(l, h, 1, d)
           row == UniqueUpsert(t, h, st)
<1>1. f \in Nat \ {0} /\ f <= d + 1
  OBVIOUS
<1>2. /\ W = D \cup S
      /\ TypedOf(l, h, 1, u) = TypedOf(l, h, 1, d) \cup TypedOf(l, h, f, u)
      /\ SourcedOf(l, h, 1, u) = SourcedOf(l, h, 1, d) \cup SourcedOf(l, h, f, u)
  BY <1>1, SightingsSplit
<1>3. /\ D \in SUBSET (1..Len(l)) /\ S \in SUBSET (1..Len(l)) /\ W \in SUBSET (1..Len(l))
      /\ \A i \in W : l[i].ts \in Nat
  BY <1>1, SightingTimes
<1>4. /\ \E i \in W : st.first = l[i].ts
      /\ \A i \in S : st.first <= l[i].ts
      /\ Highest(l, st.last, S)
      /\ st.observers = SeenBy(l, W)
  BY DEF UniqueEntry
<1>5. /\ row.observers = Cardinality(st.observers)
      /\ row.first = IF h \in DOMAIN t THEN Earlier(t[h].first, st.first) ELSE st.first
      /\ row.last = IF h \in DOMAIN t THEN Later(t[h].last, st.last) ELSE st.last
      /\ row.type = IF h \in DOMAIN t THEN Coalesce(st.type, t[h].type) ELSE st.type
      /\ row.src = IF h \in DOMAIN t THEN Coalesce(t[h].src, st.src) ELSE st.src
  BY DEF UniqueUpsert
<1> HIDE DEF row
<1>6. /\ \A i \in TypedOf(l, h, 1, d) : i \in Nat /\ i <= d /\ i <= u
      /\ \A i \in TypedOf(l, h, f, u) : i \in Nat /\ i <= u /\ f <= i
      /\ \A i \in SourcedOf(l, h, 1, d) : i \in Nat /\ i <= d
      /\ \A i \in SourcedOf(l, h, f, u) : i \in Nat /\ f <= i
  BY <1>1 DEF TypedOf, SourcedOf, SightingsOf
(* Memory's last value is the last one that it knows of. *)
<1>7. \/ TypedOf(l, h, f, u) = {} /\ st.type = None
      \/ \E i \in TypedOf(l, h, f, u) :
            st.type = l[i].type /\ \A j \in TypedOf(l, h, f, u) : j <= i
  <2>1. \A j \in TypedOf(l, h, f, u) : j \in TypedOf(l, h, a, u) \/ j < a
    BY <1>1 DEF TypedOf, SightingsOf
  <2>2. \A j \in TypedOf(l, h, f, u) : j \in Nat
    BY <1>6
  <2>3. LastTyped(l, st.type, h, f, a, u, u)
    BY DEF UniqueEntry
  <2>4. QED
    BY <2>1, <2>2, <2>3 DEF LastTyped
<1>8. FirstSourced(l, st.src, h, f, u)
  BY DEF UniqueEntry
<1> HIDE DEF S, W, D
<1>9. CASE h \notin DOMAIN t
  <2>1. D = {}
    BY <1>9 DEF D
  <2>2. TypedOf(l, h, 1, d) = {} /\ SourcedOf(l, h, 1, d) = {}
    BY <2>1 DEF D, TypedOf, SourcedOf
  <2>3. Lowest(l, row.first, W) /\ Highest(l, row.last, W)
    BY <1>2, <1>4, <1>5, <1>9, <2>1 DEF Lowest
  <2>4. LastTyped(l, row.type, h, 1, 1, u, u)
    BY <1>2, <1>5, <1>6, <1>7, <1>9, <2>2 DEF LastTyped
  <2>5. FirstSourced(l, row.src, h, 1, u)
    BY <1>2, <1>5, <1>8, <1>9, <2>2 DEF FirstSourced
  <2>6. QED
    BY <1>4, <1>5, <2>3, <2>4, <2>5 DEF UniqueRow, W, row
<1>10. CASE h \in DOMAIN t
  <2>1. /\ Lowest(l, t[h].first, D) /\ Highest(l, t[h].last, D)
        /\ LastTyped(l, t[h].type, h, 1, 1, d, d) /\ FirstSourced(l, t[h].src, h, 1, d)
    BY <1>10 DEF UniqueRow, D
  <2>2. Lowest(l, row.first, W)
    <3> DEFINE v == t[h].first
               w == st.first
    <3>1. /\ \E i \in W : v = l[i].ts
          /\ \A i \in D : v <= l[i].ts
          /\ \E i \in W : w = l[i].ts
          /\ \A i \in S : w <= l[i].ts
          /\ row.first = Earlier(v, w)
      BY <1>2, <1>4, <1>5, <1>10, <2>1 DEF Lowest
    <3> HIDE DEF v, w
    <3>2. v \in Nat /\ w \in Nat
      BY <1>3, <3>1
    <3>3. /\ row.first \in {v, w} /\ row.first \in Nat /\ row.first <= v /\ row.first <= w
      BY <3>1, <3>2 DEF Earlier
    <3>4. ASSUME NEW i \in W PROVE row.first <= l[i].ts
      <4>1. l[i].ts \in Nat /\ (v <= l[i].ts \/ w <= l[i].ts)
        BY <1>2, <1>3, <3>1
      <4>2. QED
        BY <3>2, <3>3, <4>1
    <3>5. QED
      BY <3>1, <3>3, <3>4 DEF Lowest
  <2>3. Highest(l, row.last, W)
    BY <1>2, <1>3, <1>4, <1>5, <1>10, <2>1, HighestJoins
  <2>4. LastTyped(l, row.type, h, 1, 1, u, u)
    <3>1. CASE TypedOf(l, h, f, u) = {}
      <4>1. TypedOf(l, h, 1, u) = TypedOf(l, h, 1, d) /\ st.type = None
        BY <1>2, <1>7, <3>1
      <4>2. row.type = t[h].type
        BY <1>5, <1>10, <4>1 DEF Coalesce
      <4>3. QED
        BY <1>6, <2>1, <4>1, <4>2 DEF LastTyped
    <3>2. CASE TypedOf(l, h, f, u) # {}
      <4>1. PICK i \in TypedOf(l, h, f, u) :
                   st.type = l[i].type /\ \A j \in TypedOf(l, h, f, u) : j <= i
        BY <1>7, <3>2
      <4>2. row.type = l[i].type
        BY <1>5, <1>10, <4>1 DEF Coalesce, TypedOf
      <4>3. ASSUME NEW j \in TypedOf(l, h, 1, u) PROVE j <= i
        <5>1. CASE j \in TypedOf(l, h, f, u)
          BY <4>1, <5>1
        <5>2. CASE j \notin TypedOf(l, h, f, u)
          <6>1. j \in TypedOf(l, h, 1, d) /\ j \in Nat /\ j <= d
            BY <1>2, <1>6, <5>2
          <6>2. j < f
            BY <1>1, <5>2, <6>1 DEF TypedOf, SightingsOf
          <6>3. i \in Nat /\ f <= i
            BY <1>6
          <6>4. QED
            BY <1>1, <6>1, <6>2, <6>3
        <5>3. QED
          BY <5>1, <5>2
      <4>4. i \in TypedOf(l, h, 1, u) /\ 1 <= i /\ i <= u
        BY <1>1, <1>2, <1>6
      <4>5. QED
        BY <4>2, <4>3, <4>4 DEF LastTyped
    <3>3. QED
      BY <3>1, <3>2
  <2>5. FirstSourced(l, row.src, h, 1, u)
    <3>1. CASE SourcedOf(l, h, 1, d) = {}
      <4>1. t[h].src = None /\ SourcedOf(l, h, 1, u) = SourcedOf(l, h, f, u)
        BY <1>2, <2>1, <3>1 DEF FirstSourced
      <4>2. row.src = st.src
        BY <1>5, <1>10, <4>1 DEF Coalesce
      <4>3. QED
        BY <1>8, <4>1, <4>2 DEF FirstSourced
    <3>2. CASE SourcedOf(l, h, 1, d) # {}
      <4>1. PICK i \in SourcedOf(l, h, 1, d) :
                   t[h].src = l[i].src /\ \A j \in SourcedOf(l, h, 1, d) : i <= j
        BY <2>1, <3>2 DEF FirstSourced
      <4>2. row.src = l[i].src
        BY <1>5, <1>10, <4>1 DEF Coalesce, SourcedOf
      <4>3. ASSUME NEW j \in SourcedOf(l, h, 1, u) PROVE i <= j
        <5>1. CASE j \in SourcedOf(l, h, 1, d)
          BY <4>1, <5>1
        <5>2. CASE j \notin SourcedOf(l, h, 1, d)
          <6>1. j \in SourcedOf(l, h, f, u) /\ j \in Nat /\ f <= j /\ j <= u
            BY <1>1, <1>2, <5>2 DEF SourcedOf, SightingsOf
          <6>2. d < j
            BY <1>1, <5>2, <6>1 DEF SourcedOf, SightingsOf
          <6>3. QED
            BY <1>6, <6>1, <6>2
        <5>3. QED
          BY <5>1, <5>2
      <4>4. i \in SourcedOf(l, h, 1, u)
        BY <1>2
      <4>5. QED
        BY <4>2, <4>3, <4>4 DEF FirstSourced
    <3>3. QED
      BY <3>1, <3>2
  <2>6. QED
    BY <1>4, <1>5, <2>2, <2>3, <2>4, <2>5 DEF UniqueRow, W, row
<1>11. QED
  BY <1>9, <1>10 DEF row

LEMMA UniqueFlushed ==
  ASSUME NEW l, NEW m, NEW t, NEW o, NEW a, NEW d, NEW u, Found(l, m, t, o, a, d, u),
         Touched(l, m, a, u)
  PROVE  UniqueRows(l, UniqueFlushTable(m, t, o), u)
<1> DEFINE full == UniqueRehydrate(m, t, o)
           rows == UniqueFlushTable(m, t, o)
<1>1. /\ DOMAIN rows = DOMAIN t \cup UniqueDirty(m)
      /\ \A h \in UniqueDirty(m) : rows[h] = UniqueUpsert(t, h, full[h])
      /\ \A h \in DOMAIN t \ UniqueDirty(m) : rows[h] = t[h]
  BY DEF UniqueFlushTable
<1>2. /\ UniqueMemory(l, full, a, u, u) /\ DOMAIN full = DOMAIN m
      /\ \A h \in UniqueDirty(m) : full[h].loaded
  BY UniqueRehydrated
<1> HIDE DEF rows, full
<1>3. /\ l \in Seq(EventSet) /\ a \in Nat \ {0} /\ d \in Nat /\ u \in Nat
      /\ a <= d + 1 /\ d <= u /\ u <= Len(l)
  BY DEF Found
<1>4. \A h : h \in DOMAIN t <=> SightingsOf(l, h, 1, d) # {} /\ h \notin {None, Blank}
  BY DEF Found, UniqueRows
<1>5. \A h : SightingsOf(l, h, 1, u) = SightingsOf(l, h, 1, d) \cup SightingsOf(l, h, a, u)
  BY <1>3, SightingsSplit
<1>6. ASSUME NEW h \in UniqueDirty(m)
      PROVE  /\ UniqueRow(l, rows[h], h, u) /\ h \notin {None, Blank}
             /\ SightingsOf(l, h, 1, u) # {}
  <2>1. h \in DOMAIN full /\ full[h].loaded /\ h \notin {None, Blank}
    BY <1>2 DEF UniqueDirty, UniqueMemory
  <2>2. PICK f \in 1..a : UniqueEntry(l, full[h], h, f, a, u, u)
    BY <1>2, <2>1 DEF UniqueMemory
  <2>3. /\ h \in DOMAIN t => UniqueRow(l, t[h], h, d)
        /\ h \notin DOMAIN t => SightingsOf(l, h, 1, d) = {}
    BY <1>4, <2>1 DEF Found, UniqueRows
  <2> DEFINE st == full[h]
  <2>4. UniqueEntry(l, st, h, f, a, u, u) /\ st.loaded /\ rows[h] = UniqueUpsert(t, h, st)
    BY <1>1, <2>1, <2>2
  <2> HIDE DEF st
  <2>5. UniqueRow(l, UniqueUpsert(t, h, st), h, u)
    BY <1>3, <2>3, <2>4, EntryUpserted
  <2>6. SightingsOf(l, h, 1, u) # {}
    BY <2>4 DEF UniqueEntry
  <2>7. QED
    BY <2>1, <2>4, <2>5, <2>6
<1>7. ASSUME NEW h, h \notin UniqueDirty(m), h \notin {None, Blank}
      PROVE  SightingsOf(l, h, 1, u) = SightingsOf(l, h, 1, d)
  <2>1. SightingsOf(l, h, a, u) = {}
    BY <1>7 DEF Touched, UniqueDirty
  <2>2. QED
    BY <1>5, <2>1
<1>8. ASSUME NEW h \in DOMAIN t, h \notin UniqueDirty(m) PROVE UniqueRow(l, rows[h], h, u)
  <2>1. SightingsOf(l, h, 1, u) = SightingsOf(l, h, 1, d)
    BY <1>4, <1>7, <1>8
  <2>2. /\ TypedOf(l, h, 1, u) = TypedOf(l, h, 1, d)
        /\ SourcedOf(l, h, 1, u) = SourcedOf(l, h, 1, d)
        /\ \A i \in TypedOf(l, h, 1, d) : 1 <= i /\ i <= u
    BY <1>3, <2>1 DEF TypedOf, SourcedOf, SightingsOf
  <2> DEFINE row == t[h]
  <2>3. rows[h] = row /\ UniqueRow(l, row, h, d)
    BY <1>1, <1>8 DEF Found, UniqueRows
  <2> HIDE DEF row
  <2>4. LastTyped(l, row.type, h, 1, 1, u, u)
    BY <2>2, <2>3 DEF UniqueRow, LastTyped
  <2>5. FirstSourced(l, row.src, h, 1, u)
    BY <2>2, <2>3 DEF UniqueRow, FirstSourced
  <2>6. UniqueRow(l, row, h, u)
    BY <2>1, <2>3, <2>4, <2>5 DEF UniqueRow
  <2>7. QED
    BY <2>3, <2>6
<1>9. ASSUME NEW h
      PROVE  h \in DOMAIN rows <=> SightingsOf(l, h, 1, u) # {} /\ h \notin {None, Blank}
  <2>1. CASE h \in UniqueDirty(m)
    BY <1>1, <1>6, <2>1
  <2>2. CASE h \notin UniqueDirty(m)
    BY <1>1, <1>4, <1>7, <2>2
  <2>3. QED
    BY <2>1, <2>2
<1>10. \A h \in DOMAIN rows : UniqueRow(l, rows[h], h, u)
  BY <1>1, <1>6, <1>8
<1>11. QED
  BY <1>9, <1>10 DEF UniqueRows, rows

(* A memory that was applied as far as it goes is ready for the next batch, *)
(* and for the same batch once more.                                        *)
LEMMA EntryMoves ==
  ASSUME NEW l, NEW h, NEW st, NEW a \in Nat \ {0}, NEW b \in Nat, a <= b + 1,
         NEW f \in 1..a, UniqueEntry(l, st, h, f, a, b, b)
  PROVE  /\ UniqueEntry(l, st, h, f, b + 1, b, b)
         /\ UniqueEntry(l, st, h, f, a, a - 1, b)
<1>1. TypedOf(l, h, b + 1, b) = {} /\ TypedOf(l, h, a, a - 1) = {}
  BY DEF TypedOf, SightingsOf
<1>2. \/ TypedOf(l, h, f, b) = {} /\ st.type = None
      \/ \E i \in TypedOf(l, h, f, b) :
            st.type = l[i].type /\ \A j \in TypedOf(l, h, f, b) : j <= i
  <2>1. \A j \in TypedOf(l, h, f, b) : j \in TypedOf(l, h, a, b) \/ j < a
    BY DEF TypedOf, SightingsOf
  <2>2. \A j \in TypedOf(l, h, f, b) : j \in Nat
    BY DEF TypedOf, SightingsOf
  <2>3. LastTyped(l, st.type, h, f, a, b, b)
    BY DEF UniqueEntry
  <2>4. QED
    BY <2>1, <2>2, <2>3 DEF LastTyped
<1>3. LastTyped(l, st.type, h, f, b + 1, b, b) /\ LastTyped(l, st.type, h, f, a, a - 1, b)
  BY <1>1, <1>2 DEF LastTyped
<1>4. QED
  BY <1>3 DEF UniqueEntry

LEMMA UniqueMoves ==
  ASSUME NEW l, NEW m, NEW a \in Nat \ {0}, NEW b \in Nat, a <= b + 1,
         UniqueMemory(l, m, a, b, b)
  PROVE  /\ UniqueMemory(l, m, b + 1, b, b)
         /\ \A c : c + 1 = a /\ c \in Nat => UniqueMemory(l, m, a, c, b)
         /\ \A time : UniqueMemory(l, UniqueEvict(m, time), b + 1, b, b)
<1>1. ASSUME NEW h \in DOMAIN m
      PROVE  /\ \E f \in 1..(b + 1) : UniqueEntry(l, m[h], h, f, b + 1, b, b)
             /\ \E f \in 1..a : UniqueEntry(l, m[h], h, f, a, a - 1, b)
  <2>1. PICK f \in 1..a : UniqueEntry(l, m[h], h, f, a, b, b)
    BY DEF UniqueMemory
  <2>2. f \in 1..(b + 1)
    OBVIOUS
  <2>3. QED
    BY <2>1, <2>2, EntryMoves
<1>2. \A h : SightingsOf(l, h, b + 1, b) = {}
  BY DEF SightingsOf
<1>3. UniqueMemory(l, m, b + 1, b, b) /\ UniqueMemory(l, m, a, a - 1, b)
  BY <1>1, <1>2 DEF UniqueMemory
<1>4. ASSUME NEW c \in Nat, c + 1 = a PROVE UniqueMemory(l, m, a, c, b)
  <2>1. c = a - 1
    BY <1>4
  <2>2. QED
    BY <1>3, <2>1
<1>5. ASSUME NEW time PROVE UniqueMemory(l, UniqueEvict(m, time), b + 1, b, b)
  <2> DEFINE new == UniqueEvict(m, time)
  <2>1. /\ DOMAIN new \subseteq DOMAIN m
        /\ \A h \in DOMAIN new : new[h] = [m[h] EXCEPT !.dirty = FALSE]
    BY DEF UniqueEvict, Keeping
  <2> HIDE DEF new
  <2>2. ASSUME NEW h \in DOMAIN new
        PROVE  \E f \in 1..(b + 1) : UniqueEntry(l, new[h], h, f, b + 1, b, b)
    <3> DEFINE st == m[h]
    <3>1. PICK f \in 1..(b + 1) : UniqueEntry(l, st, h, f, b + 1, b, b)
      BY <1>1, <2>1
    <3>2. new[h] = [st EXCEPT !.dirty = FALSE]
      BY <2>1
    <3> HIDE DEF st
    <3>3. UniqueEntry(l, [st EXCEPT !.dirty = FALSE], h, f, b + 1, b, b)
      BY <3>1, EntryMarked
    <3>4. QED
      BY <3>2, <3>3
  <2>3. \A h \in DOMAIN new : h \notin {None, Blank}
    BY <2>1 DEF UniqueMemory
  <2>4. UniqueMemory(l, new, b + 1, b, b)
    BY <1>2, <2>2, <2>3 DEF UniqueMemory
  <2>5. QED
    BY <2>4 DEF new
<1>6. QED
  BY <1>3, <1>4, <1>5

LEMMA UniqueKept ==
  ASSUME NEW l, NEW l2, NEW b \in Nat, \A i \in 1..b : l2[i] = l[i]
  PROVE  /\ \A m : \A a \in Nat \ {0} : \A at \in 0..b :
               UniqueMemory(l, m, a, at, b) => UniqueMemory(l2, m, a, at, b)
         /\ \A m : \A a \in Nat \ {0} : \A at \in 0..b :
               Touched(l, m, a, at) => Touched(l2, m, a, at)
         /\ \A t : UniqueRows(l, t, b) => UniqueRows(l2, t, b)
<1>1. ASSUME NEW c \in Nat \ {0}, NEW e \in 0..b, NEW h
      PROVE  /\ SightingsOf(l2, h, c, e) = SightingsOf(l, h, c, e)
             /\ TypedOf(l2, h, c, e) = TypedOf(l, h, c, e)
             /\ SourcedOf(l2, h, c, e) = SourcedOf(l, h, c, e)
             /\ SeenBy(l2, SightingsOf(l, h, c, e)) = SeenBy(l, SightingsOf(l, h, c, e))
             /\ \A i \in SightingsOf(l, h, c, e) : l2[i] = l[i]
  <2>1. \A i \in c..e : l2[i] = l[i]
    OBVIOUS
  <2>2. SightingsOf(l2, h, c, e) = SightingsOf(l, h, c, e)
    BY <2>1 DEF SightingsOf
  <2>3. \A i \in SightingsOf(l, h, c, e) : l2[i] = l[i]
    BY <2>1 DEF SightingsOf
  <2>4. SeenBy(l2, SightingsOf(l, h, c, e)) = SeenBy(l, SightingsOf(l, h, c, e))
    BY <2>3 DEF SeenBy
  <2>5. QED
    BY <2>2, <2>3, <2>4 DEF TypedOf, SourcedOf
<1>2. ASSUME NEW c \in Nat \ {0}, NEW a \in Nat \ {0}, NEW at \in 0..b, NEW h, NEW v
      PROVE  /\ LastTyped(l, v, h, c, a, at, b) => LastTyped(l2, v, h, c, a, at, b)
             /\ FirstSourced(l, v, h, c, b) => FirstSourced(l2, v, h, c, b)
             /\ Highest(l, v, SightingsOf(l, h, c, b)) => Highest(l2, v, SightingsOf(l2, h, c, b))
             /\ Lowest(l, v, SightingsOf(l, h, c, b)) => Lowest(l2, v, SightingsOf(l2, h, c, b))
  <2>1. b \in 0..b
    OBVIOUS
  <2>2. /\ TypedOf(l, h, c, b) \subseteq SightingsOf(l, h, c, b)
        /\ SourcedOf(l, h, c, b) \subseteq SightingsOf(l, h, c, b)
    BY DEF TypedOf, SourcedOf
  <2>3. LastTyped(l, v, h, c, a, at, b) => LastTyped(l2, v, h, c, a, at, b)
    BY <1>1, <2>1, <2>2 DEF LastTyped
  <2>4. FirstSourced(l, v, h, c, b) => FirstSourced(l2, v, h, c, b)
    BY <1>1, <2>1, <2>2 DEF FirstSourced
  <2>5. QED
    BY <1>1, <2>1, <2>3, <2>4 DEF Highest, Lowest
<1>3. ASSUME NEW a \in Nat \ {0}, NEW at \in 0..b, NEW h, NEW st, NEW f \in Nat \ {0},
             UniqueEntry(l, st, h, f, a, at, b)
      PROVE  UniqueEntry(l2, st, h, f, a, at, b)
  <2>1. b \in 0..b /\ 1 \in Nat \ {0}
    OBVIOUS
  <2>2. /\ SightingsOf(l2, h, f, b) = SightingsOf(l, h, f, b)
        /\ SightingsOf(l2, h, 1, b) = SightingsOf(l, h, 1, b)
        /\ SeenBy(l2, SightingsOf(l, h, f, b)) = SeenBy(l, SightingsOf(l, h, f, b))
        /\ SeenBy(l2, SightingsOf(l, h, 1, b)) = SeenBy(l, SightingsOf(l, h, 1, b))
        /\ \A i \in SightingsOf(l, h, f, b) : l2[i] = l[i]
        /\ \A i \in SightingsOf(l, h, 1, b) : l2[i] = l[i]
    BY <1>1, <2>1
  <2>3. /\ Highest(l2, st.last, SightingsOf(l2, h, f, b))
        /\ LastTyped(l2, st.type, h, f, a, at, b)
        /\ FirstSourced(l2, st.src, h, f, b)
    BY <1>2, <1>3 DEF UniqueEntry
  <2>4. QED
    BY <1>3, <2>2, <2>3 DEF UniqueEntry
<1>4. ASSUME NEW m, NEW a \in Nat \ {0}, NEW at \in 0..b, UniqueMemory(l, m, a, at, b)
      PROVE  UniqueMemory(l2, m, a, at, b)
  <2>1. ASSUME NEW h \in DOMAIN m PROVE \E f \in 1..a : UniqueEntry(l2, m[h], h, f, a, at, b)
    <3>1. PICK f \in 1..a : UniqueEntry(l, m[h], h, f, a, at, b)
      BY <1>4 DEF UniqueMemory
    <3>2. f \in Nat \ {0}
      OBVIOUS
    <3>3. QED
      BY <1>3, <3>1, <3>2
  <2>2. \A h : SightingsOf(l2, h, a, b) = SightingsOf(l, h, a, b)
    BY <1>1
  <2>3. QED
    BY <1>4, <2>1, <2>2 DEF UniqueMemory
<1>5. ASSUME NEW m, NEW a \in Nat \ {0}, NEW at \in 0..b, Touched(l, m, a, at)
      PROVE  Touched(l2, m, a, at)
  BY <1>1, <1>5 DEF Touched
<1>6. ASSUME NEW t, UniqueRows(l, t, b) PROVE UniqueRows(l2, t, b)
  <2>1. b \in 0..b /\ 1 \in Nat \ {0}
    OBVIOUS
  <2>2. \A h : /\ SightingsOf(l2, h, 1, b) = SightingsOf(l, h, 1, b)
               /\ SeenBy(l2, SightingsOf(l, h, 1, b)) = SeenBy(l, SightingsOf(l, h, 1, b))
    BY <1>1, <2>1
  <2>3. ASSUME NEW h \in DOMAIN t PROVE UniqueRow(l2, t[h], h, b)
    <3> DEFINE row == t[h]
    <3>1. UniqueRow(l, row, h, b)
      BY <1>6 DEF UniqueRows
    <3> HIDE DEF row
    <3>2. /\ Lowest(l2, row.first, SightingsOf(l2, h, 1, b))
          /\ Highest(l2, row.last, SightingsOf(l2, h, 1, b))
          /\ LastTyped(l2, row.type, h, 1, 1, b, b)
          /\ FirstSourced(l2, row.src, h, 1, b)
      BY <1>2, <2>1, <3>1 DEF UniqueRow
    <3>3. UniqueRow(l2, row, h, b)
      BY <2>2, <3>1, <3>2 DEF UniqueRow
    <3>4. QED
      BY <3>3 DEF row
  <2>4. QED
    BY <1>6, <2>2, <2>3 DEF UniqueRows
<1>7. QED
  BY <1>4, <1>5, <1>6

-----------------------------------------------------------------------------
(* What memory knows reaches as far as the stage was given events; while a  *)
(* batch is applied, and until the stage writes, what the batch met is      *)
(* marked; the tables say what the log says.                                *)
UniqueInv ==
    /\ \E r : /\ Reached(r)
              /\ UniqueMemory(log, mem["packets_unique"], cursor + 1, Pass(r), r)
              /\ ppc \in {"apply", "flush"} =>
                    \/ ppc = "flush" /\ Flushed("packets_unique")
                    \/ Touched(log, mem["packets_unique"], cursor + 1, Pass(r))
    /\ UniqueRows(log, tables["packets_unique"], dbCursor)
    /\ ppc = "flush" /\ Flushed("packets_unique") => UniqueRows(log, tx["packets_unique"], upto)

LEMMA UniqueInit ==
  ASSUME "packets_unique" \in StageSet, Init
  PROVE  UniqueInv
<1> DEFINE s == "packets_unique"
<1>1. /\ mem[s] = EmptyMap /\ tables[s] = EmptyMap
      /\ cursor = 0 /\ dbCursor = 0 /\ ppc = "down" /\ log = <<>>
  BY DEF Init, EmptyMemory, EmptyTable
<1>2. Reached(0) /\ Pass(0) = 0
  BY <1>1 DEF Reached, Pass
<1>3. \A h : SightingsOf(log, h, 1, 0) = {}
  BY DEF SightingsOf
<1>4. UniqueMemory(log, EmptyMap, 0 + 1, 0, 0) /\ UniqueRows(log, EmptyMap, 0)
  BY <1>3 DEF UniqueMemory, UniqueRows, EmptyMap
<1>5. QED
  BY <1>1, <1>2, <1>4 DEF UniqueInv

(* At this stage's turn packet_observations is still as it was committed.   *)
LEMMA ObservationsLater ==
  ASSUME Batch, InTurn("packets_unique")
  PROVE  tx["packet_observations"] = tables["packet_observations"]
<1>1. ASSUME NEW i \in DOMAIN Stages, i < turn, Stages[i] = "packet_observations" PROVE FALSE
  <2>1. turn \in DOMAIN Stages /\ Stages[turn] = "packets_unique"
    BY DEF InTurn
  <2>2. StageOrder[Stages[i]] < StageOrder[Stages[turn]]
    BY <1>1, <2>1
  <2>3. StageOrder["packet_observations"] = 8 /\ StageOrder["packets_unique"] = 4
    BY DEF StageOrder
  <2>4. QED
    BY <1>1, <2>1, <2>2, <2>3
<1>2. ~Flushed("packet_observations")
  BY <1>1 DEF Flushed
<1>3. QED
  BY <1>2, Listed DEF Batch, InTurn

LEMMA UniqueFound ==
  ASSUME Loop, Batch, ShareInv("packet_observations"), InTurn("packets_unique"), NEW r, Reached(r),
         UniqueMemory(log, mem["packets_unique"], cursor + 1, r, r),
         UniqueRows(log, tables["packets_unique"], dbCursor)
  PROVE  Found(log, mem["packets_unique"], tx["packets_unique"], tx["packet_observations"],
               cursor + 1, dbCursor, r)
<1>1. /\ ppc = "flush" /\ tx["packets_unique"] = tables["packets_unique"]
  BY DEF InTurn
<1>2. Copies(log, tx["packet_observations"], PacketsAt(log, 1, dbCursor))
  BY ObservationsLater DEF ShareInv, TableSays
<1>3. /\ log \in Seq(EventSet) /\ cursor + 1 \in Nat \ {0} /\ dbCursor \in Nat /\ r \in Nat
      /\ cursor + 1 <= dbCursor + 1 /\ dbCursor <= r /\ r <= Len(log)
  BY <1>1 DEF Loop, Reached
<1>4. QED
  BY <1>1, <1>2, <1>3 DEF Found

LEMMA UniqueStep ==
  ASSUME Loop, Batch, [Next]_vars, "packets_unique" \in StageSet,
         ShareInv("packet_observations"), UniqueInv
  PROVE  UniqueInv'
<1> DEFINE s == "packets_unique"
<1>1. PICK r : /\ Reached(r)
               /\ UniqueMemory(log, mem[s], cursor + 1, Pass(r), r)
               /\ ppc \in {"apply", "flush"} =>
                     \/ ppc = "flush" /\ Flushed(s)
                     \/ Touched(log, mem[s], cursor + 1, Pass(r))
  BY DEF UniqueInv
<1>2. /\ UniqueRows(log, tables[s], dbCursor)
      /\ ppc = "flush" /\ Flushed(s) => UniqueRows(log, tx[s], upto)
  BY DEF UniqueInv
<1>3. /\ log \in Seq(EventSet) /\ Len(log) \in Nat
      /\ cursor \in Nat /\ dbCursor \in Nat /\ upto \in Nat /\ cursor + 1 \in Nat \ {0}
      /\ cursor <= dbCursor /\ dbCursor <= Len(log)
      /\ r \in Nat /\ cursor <= r /\ r <= Len(log)
      /\ ppc = "flush" => dbCursor <= upto /\ upto <= Len(log) /\ r = upto
  BY <1>1 DEF Loop, Reached
<1>4. Pass(r) \in 0..r
  BY <1>1, <1>3 DEF Pass, Reached, Batch
<1>5. ASSUME NEW t, NEW b \in Nat, b <= Len(log), UniqueRows(log, t, b)
      PROVE  UniqueRows(log', t, b)
  <2>1. \A i \in 1..b : log'[i] = log[i]
    BY <1>3, <1>5, LogKept
  <2>2. QED
    BY <1>5, <2>1, UniqueKept
<1>6. CASE Quiet(s, r)
  <2>1. /\ mem'[s] = mem[s] /\ tables'[s] = tables[s] /\ UNCHANGED <<dbCursor, cursor>>
        /\ Reached(r)'
        /\ Pass(r)' = Pass(r) \/ (Pass(r) = r /\ Pass(r)' = cursor)
        /\ ppc' = "apply" => ppc = "apply" \/ Pass(r)' = cursor
        /\ ppc' = "flush" => ppc = "apply" \/ (ppc = "flush" /\ (Flushed(s)' <=> Flushed(s)))
        /\ ppc' = "flush" /\ Flushed(s)' =>
             ppc = "flush" /\ Flushed(s) /\ tx'[s] = tx[s] /\ upto' = upto
    BY <1>6 DEF Quiet
  <2>2. UniqueMemory(log, mem[s], cursor + 1, Pass(r)', r)
    <3>1. ASSUME Pass(r) = r
          PROVE  UniqueMemory(log, mem[s], cursor + 1, cursor, r)
      <4>1. UniqueMemory(log, mem[s], cursor + 1, r, r)
        BY <1>1, <3>1
      <4>2. cursor + 1 <= r + 1 /\ cursor + 1 \in Nat \ {0}
        BY <1>3
      <4>3. QED
        BY <1>3, <4>1, <4>2, UniqueMoves
    <3>2. QED
      BY <1>1, <2>1, <3>1
  <2>3. Pass(r)' \in 0..r
    BY <1>3, <1>4, <2>1
  <2>4. \A i \in 1..r : log'[i] = log[i]
    BY <1>3, LogKept
  <2>5. UniqueMemory(log', mem'[s], cursor' + 1, Pass(r)', r)
    BY <1>3, <2>1, <2>2, <2>3, <2>4, UniqueKept
  <2>6. UniqueRows(log', tables'[s], dbCursor')
    BY <1>2, <1>3, <1>5, <2>1
  <2>7. ppc' = "flush" /\ Flushed(s)' => UniqueRows(log', tx'[s], upto')
    BY <1>2, <1>3, <1>5, <2>1
  <2>8. ASSUME ppc' \in {"apply", "flush"}, ~(ppc' = "flush" /\ Flushed(s)')
        PROVE  Touched(log', mem'[s], cursor' + 1, Pass(r)')
    <3>1. Touched(log, mem[s], cursor + 1, Pass(r)')
      <4>1. CASE Pass(r)' = cursor
        <5>1. \A h : SightingsOf(log, h, cursor + 1, Pass(r)') = {}
          BY <1>3, <4>1 DEF SightingsOf
        <5>2. QED
          BY <5>1 DEF Touched
      <4>2. CASE Pass(r)' # cursor
        <5>1. Pass(r)' = Pass(r) /\ Touched(log, mem[s], cursor + 1, Pass(r))
          BY <1>1, <2>1, <2>8, <4>2
        <5>2. QED
          BY <5>1
      <4>3. QED
        BY <4>1, <4>2
    <3>2. QED
      BY <1>3, <2>1, <2>3, <2>4, <3>1, UniqueKept
  <2>9. QED
    BY <2>1, <2>5, <2>6, <2>7, <2>8 DEF UniqueInv
<1>7. CASE Takes(s, r)
  <2>1. PICK q \in {Later(r, pos)} : Reached(q)'
    BY <1>7 DEF Takes
  <2>2. /\ ppc = "apply" /\ ppc' = "apply" /\ pos' = pos + 1
        /\ cursor < pos /\ pos \in 1..Len(log) /\ pos <= r + 1
        /\ UNCHANGED <<log, tables, dbCursor, cursor>>
    BY <1>7 DEF Takes
  <2>3. Pass(r) = pos - 1 /\ Pass(q)' = pos
    BY <2>2 DEF Pass
  <2> DEFINE m == mem[s]
  <2>4. /\ UniqueMemory(log, UniqueApply(m, log[pos]), cursor + 1, pos, q)
        /\ Touched(log, m, cursor + 1, pos - 1) =>
             Touched(log, UniqueApply(m, log[pos]), cursor + 1, pos)
    <3>1. UniqueMemory(log, m, cursor + 1, pos - 1, r)
      BY <1>1, <2>3
    <3>2. cursor + 1 <= pos /\ q = Later(r, pos)
      BY <1>3, <2>1, <2>2
    <3> HIDE DEF m
    <3>3. QED
      BY <1>3, <2>2, <3>1, <3>2, UniqueApplied
  <2>5. mem'[s] = UniqueApply(m, log[pos])
    <3>1. log[pos].kind = "dropped" => UniqueApply(m, log[pos]) = m
      BY DEF UniqueApply, IsPacket
    <3>2. Apply(s, m, log[pos]) = UniqueApply(m, log[pos])
      BY DEF Apply
    <3>3. QED
      BY <1>7, <3>1, <3>2 DEF Takes
  <2>6. Touched(log, m, cursor + 1, pos - 1)
    BY <1>1, <2>2, <2>3
  <2>7. UniqueMemory(log', mem'[s], cursor' + 1, Pass(q)', q)
    BY <2>2, <2>3, <2>4, <2>5
  <2>8. Touched(log', mem'[s], cursor' + 1, Pass(q)')
    BY <2>2, <2>3, <2>4, <2>5, <2>6
  <2>9. QED
    BY <1>2, <2>1, <2>2, <2>7, <2>8 DEF UniqueInv
<1>8. CASE InTurn(s) /\ (Writes(s, r) \/ Breaks(s, r))
  <2>1. ppc = "flush" /\ ~Flushed(s) /\ Pass(r) = r /\ r = upto
    BY <1>3, <1>8 DEF InTurn, Pass
  <2> DEFINE m == mem[s]
             t == tx[s]
             o == tx["packet_observations"]
  <2>2. /\ Found(log, m, t, o, cursor + 1, dbCursor, r)
        /\ Touched(log, m, cursor + 1, r)
    BY <1>1, <1>2, <1>8, <2>1, UniqueFound
  <2>3. /\ \A written : FlushMem(s, m, written) = UniqueFlushMem(m, t, o, written)
        /\ FlushTable(s, m) = UniqueFlushTable(m, t, o)
        /\ Interrupted(s, m) = UniqueInterrupted(m, t, o)
    BY DEF FlushMem, FlushTable, Interrupted
  <2>4. UniqueRows(log, FlushTable(s, m), r)
    BY <2>2, <2>3, UniqueFlushed
  <2>5. /\ \A written : UniqueMemory(log, FlushMem(s, m, written), cursor + 1, r, r)
        /\ \A left \in LeftBehind(s, m) : UniqueMemory(log, left, cursor + 1, r, r)
    BY <2>2, <2>3, UniqueFlushes DEF LeftBehind
  <2>6. /\ UNCHANGED <<log, tables, dbCursor, cursor>> /\ Reached(r)'
        /\ ppc' \in {"flush", "idle"}
        /\ mem'[s] = FlushMem(s, m, Dirty(s, m)) \/ mem'[s] \in LeftBehind(s, m)
        /\ ppc' = "flush" => Flushed(s)' /\ tx'[s] = FlushTable(s, m) /\ upto' = upto
    BY <1>8 DEF Writes, Breaks
  <2>7. Pass(r)' = r
    BY <2>6 DEF Pass
  <2>8. UniqueMemory(log, mem'[s], cursor + 1, r, r)
    BY <2>5, <2>6
  <2>9. QED
    BY <1>2, <2>1, <2>4, <2>6, <2>7, <2>8 DEF UniqueInv
<1>9. CASE Commits(s, r)
  <2>1. /\ ppc = "flush" /\ Flushed(s) /\ ppc' \in {"idle", "settle"}
        /\ tables'[s] = tx[s] /\ dbCursor' = upto
        /\ mem'[s] = mem[s] /\ UNCHANGED <<log, cursor>> /\ Reached(r)'
    BY <1>9 DEF Commits
  <2>2. Pass(r) = r /\ Pass(r)' = r
    BY <2>1 DEF Pass
  <2>3. QED
    BY <1>1, <1>2, <2>1, <2>2 DEF UniqueInv
<1>10. CASE Settles(s, r)
  <2>1. /\ ppc = "settle" /\ ppc' = "idle" /\ cursor' = r /\ Reached(r)'
        /\ UNCHANGED <<log, tables, dbCursor>>
        /\ mem'[s] = IF hwm = ZeroTime THEN AfterNotify(s, mem[s])
                     ELSE Evict(s, AfterNotify(s, mem[s]), hwm)
    BY <1>10 DEF Settles
  <2>2. Pass(r) = r /\ Pass(r)' = r
    BY <2>1 DEF Pass
  <2>3. AfterNotify(s, mem[s]) = mem[s] /\ Evict(s, mem[s], hwm) = UniqueEvict(mem[s], hwm)
    BY DEF AfterNotify, Evict
  <2>4. cursor + 1 <= r + 1 /\ UniqueMemory(log, mem[s], cursor + 1, r, r)
    BY <1>1, <1>3, <2>2
  <2>5. UniqueMemory(log, mem'[s], r + 1, r, r)
    BY <1>3, <2>1, <2>3, <2>4, UniqueMoves
  <2>6. QED
    BY <1>2, <2>1, <2>2, <2>5 DEF UniqueInv
<1>11. CASE Restarts(s)
  <2>1. PICK q \in {cursor'} : Reached(q)'
    BY <1>11 DEF Restarts
  <2>2. /\ mem'[s] = EmptyMap /\ ppc' \in {"down", "idle"} /\ log' = log
        /\ \/ tables'[s] = tables[s] /\ dbCursor' = dbCursor
           \/ tables'[s] = EmptyMap /\ dbCursor' = 0
    BY <1>11 DEF Restarts, EmptyMemory, EmptyTable
  <2>3. q = cursor' /\ q \in Nat /\ Pass(q)' = q
    BY <2>1, <2>2 DEF Reached, Pass
  <2>4. /\ \A h : SightingsOf(log, h, q + 1, q) = {}
        /\ \A h : SightingsOf(log, h, 1, 0) = {}
    BY <2>3 DEF SightingsOf
  <2>5. UniqueMemory(log', mem'[s], q + 1, q, q)
    BY <2>2, <2>4 DEF UniqueMemory, EmptyMap
  <2>6. UniqueRows(log, EmptyMap, 0)
    BY <2>4 DEF UniqueRows, EmptyMap
  <2>7. UniqueRows(log', tables'[s], dbCursor')
    BY <1>2, <2>2, <2>6
  <2>8. QED
    BY <2>1, <2>2, <2>3, <2>5, <2>7 DEF UniqueInv
<1>12. QED
  BY <1>1, <1>6, <1>7, <1>8, <1>9, <1>10, <1>11, StageSteps DEF Writes, Breaks

LEMMA UniqueHolds ==
  ASSUME "packets_unique" \in StageSet
  PROVE  Spec => [](Loop /\ UniqueInv)
<1> DEFINE Inv == Loop /\ Batch /\ SharesInv
<1>1. Init => UniqueInv
  BY UniqueInit
<1>2. ASSUME Inv, UniqueInv, [Next]_vars PROVE UniqueInv'
  <2>1. ShareInv("packet_observations")
    BY <1>2, Listed DEF SharesInv, ShareStages
  <2>2. QED
    BY <1>2, <2>1, UniqueStep
<1>3. Inv => Loop
  OBVIOUS
<1>4. Spec => []Inv
  BY SharesHold
<1> HIDE DEF Inv
<1>5. QED
  BY <1>1, <1>2, <1>3, <1>4, PTL DEF Spec

-----------------------------------------------------------------------------
(* What the committed rows say, at the places the properties speak of. *)
LEMMA UniqueSays ==
  ASSUME Loop, UniqueInv
  PROVE  /\ \A h : Sightings(h) = SightingsOf(log, h, 1, dbCursor)
         /\ ProjectedHashes = DOMAIN Unique
         /\ \A h \in DOMAIN Unique : UniqueRow(log, Unique[h], h, dbCursor)
<1>1. \A h : Sightings(h) = SightingsOf(log, h, 1, dbCursor)
  BY DEF Sightings, PacketsWith, Projected, SightingsOf
<1>2. UniqueRows(log, Unique, dbCursor)
  BY DEF UniqueInv, Unique
<1>3. ASSUME NEW h
      PROVE  h \in ProjectedHashes
               <=> SightingsOf(log, h, 1, dbCursor) # {} /\ h \notin {None, Blank}
  BY DEF ProjectedHashes, PacketsWith, Projected, SightingsOf, Hashed
<1>4. QED
  BY <1>1, <1>2, <1>3 DEF UniqueRows

(* observer_count is the number of distinct observers of the hash in the    *)
(* projected log, although memory forgets hashes, restarts lose it, failed  *)
(* flushes leave it half-way and a rolled back batch leaves it ahead of the *)
(* tables: what is missing is read back before a row is written.            *)
THEOREM ObserverCountExactHolds ==
  ASSUME "packets_unique" \in StageSet
  PROVE  Spec => []ObserverCountExact
<1>1. Loop /\ UniqueInv => ObserverCountExact
  <2> SUFFICES ASSUME Loop, UniqueInv PROVE ObserverCountExact
    OBVIOUS
  <2>1. ASSUME NEW h \in DOMAIN Unique
        PROVE  Unique[h].observers = Cardinality({log[i].obs : i \in Sightings(h)})
    <3>1. {log[i].obs : i \in Sightings(h)} = SeenBy(log, SightingsOf(log, h, 1, dbCursor))
      BY UniqueSays DEF SeenBy
    <3>2. QED
      BY <3>1, UniqueSays DEF UniqueRow
  <2>2. QED
    BY <2>1, UniqueSays DEF ObserverCountExact
<1>2. QED
  BY <1>1, UniqueHolds, PTL

(* first_seen and last_seen bound the sightings of the hash, also those out *)
(* of time order that come after it was evicted.                            *)
THEOREM SeenBoundsExactHolds ==
  ASSUME "packets_unique" \in StageSet
  PROVE  Spec => []SeenBoundsExact
<1>1. Loop /\ UniqueInv => SeenBoundsExact
  <2> SUFFICES ASSUME Loop, UniqueInv, NEW h \in DOMAIN Unique
               PROVE  /\ Unique[h].first = Min({log[i].ts : i \in Sightings(h)})
                      /\ Unique[h].last = Max({log[i].ts : i \in Sightings(h)})
    BY DEF SeenBoundsExact
  <2> DEFINE row == Unique[h]
             S == SightingsOf(log, h, 1, dbCursor)
  <2>1. Lowest(log, row.first, S) /\ Highest(log, row.last, S) /\ Sightings(h) = S
    BY UniqueSays DEF UniqueRow
  <2>2. log \in Seq(EventSet) /\ S \in SUBSET (1..Len(log))
    BY DEF Loop, SightingsOf
  <2> HIDE DEF row, S
  <2>3. row.first = Min({log[i].ts : i \in S}) /\ row.last = Max({log[i].ts : i \in S})
    BY <2>1, <2>2, LowestIsMin, HighestIsMax
  <2>4. QED
    BY <2>1, <2>3 DEF row
<1>2. QED
  BY <1>1, UniqueHolds, PTL

(* The overwritten fields carry the value logged last, the kept ones the    *)
(* value logged first, however the log was cut into batches and however     *)
(* often a batch was applied.                                               *)
THEOREM FieldsExactHolds ==
  ASSUME "packets_unique" \in StageSet
  PROVE  Spec => []FieldsExact
<1>1. Loop /\ UniqueInv => FieldsExact
  <2> SUFFICES ASSUME Loop, UniqueInv, NEW h \in DOMAIN Unique
               PROVE  LET typed == {i \in Sightings(h) : log[i].type # None}
                          sourced == {i \in Sightings(h) : log[i].src # None}
                      IN  /\ Unique[h].type = IF typed = {} THEN None ELSE log[Max(typed)].type
                          /\ Unique[h].src = IF sourced = {} THEN None
                                             ELSE log[Min(sourced)].src
    BY DEF FieldsExact
  <2> DEFINE row == Unique[h]
             T == TypedOf(log, h, 1, dbCursor)
             S == SourcedOf(log, h, 1, dbCursor)
  <2>1. /\ {i \in Sightings(h) : log[i].type # None} = T
        /\ {i \in Sightings(h) : log[i].src # None} = S
    BY UniqueSays DEF TypedOf, SourcedOf
  <2>2. LastTyped(log, row.type, h, 1, 1, dbCursor, dbCursor)
        /\ FirstSourced(log, row.src, h, 1, dbCursor)
    BY UniqueSays DEF UniqueRow
  <2>3. T \in SUBSET Nat /\ S \in SUBSET Nat
    BY DEF TypedOf, SourcedOf, SightingsOf
  <2>4. /\ \/ T = {} /\ row.type = None
           \/ \E i \in T : row.type = log[i].type /\ \A j \in T : j <= i
        /\ \/ S = {} /\ row.src = None
           \/ \E i \in S : row.src = log[i].src /\ \A j \in S : i <= j
    BY <2>2 DEF LastTyped, FirstSourced
  <2> HIDE DEF row, T, S
  <2>5. row.type = IF T = {} THEN None ELSE log[Max(T)].type
    BY <2>3, <2>4, LastIsMax
  <2>6. row.src = IF S = {} THEN None ELSE log[Min(S)].src
    BY <2>3, <2>4, FirstIsMin
  <2>7. QED
    BY <2>1, <2>5, <2>6 DEF row
<1>2. QED
  BY <1>1, UniqueHolds, PTL
=============================================================================

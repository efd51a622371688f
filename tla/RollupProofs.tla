---------------------------- MODULE RollupProofs ----------------------------
(***************************************************************************)
(* Theorems about the tables that count: rollup_observer, rollup_neighbor  *)
(* and the adverts of nodes, whose counters are added to in memory and     *)
(* whose rows are merged with it or read back into memory that has lost    *)
(* them, and packet_observations, to which rows are appended.  What        *)
(* survives which faults shows in the invariants: sets, bounds and         *)
(* averages do not depend on the faults, the counters and the rows are     *)
(* exact while every batch is committed and known to be, the noise floor   *)
(* is there while no batch fails.                                          *)
(***************************************************************************)
EXTENDS ShareProofs

USE PipelineAssumption

NoFail == "fail" \notin Faults
Exact  == Faults \cap {"fail", "lostAck"} = {}

(* The packets of bucket k from position a to b of a log, and the statuses  *)
(* with a noise floor.                                                      *)
PacketsOf(l, k, a, b) == {i \in a..b : IsPacket(l[i]) /\ KeyOf(l[i]) = k}
Noises(l, a, b) == {i \in a..b : l[i].kind = "status" /\ l[i].floor # None}
NoisesOf(l, k, a, b) == {i \in Noises(l, a, b) : KeyOf(l[i]) = k}

(* Of some positions, those with flood route, those with an RSSI, and the   *)
(* hashes.                                                                  *)
FloodIn(l, S) == {i \in S : l[i].flood}
HeardIn(l, S) == {i \in S : l[i].rssi # None}
HashesAt(l, S) == {l[i].hash : i \in S}

(* A counter over S, and what is known of S at least and of W at most.      *)
Counts(n, S) == n \in Nat /\ Cardinality(S) <= n /\ (Exact => n = Cardinality(S))
Collects(l, H, S, W) ==
    /\ HashesAt(l, S) \ {None, Blank} \subseteq H
    /\ H \subseteq HashesAt(l, W) \ {None}
Least(l, v, S, W) ==
    \/ v = None /\ HeardIn(l, S) = {}
    \/ /\ \E i \in HeardIn(l, W) : v = l[i].rssi
       /\ \A i \in HeardIn(l, S) : v <= l[i].rssi
Greatest(l, v, S, W) ==
    \/ v = None /\ HeardIn(l, S) = {}
    \/ /\ \E i \in HeardIn(l, W) : v = l[i].rssi
       /\ \A i \in HeardIn(l, S) : l[i].rssi <= v

(* A sum of n values between the bounds, of no more than that many packets; *)
(* an average in hundredths between them.                                   *)
Weighs(packets, sum, n, lo, hi) ==
    \/ n = 0 /\ sum = 0 /\ lo = None /\ hi = None
    \/ /\ n \in Nat \ {0} /\ n <= packets
       /\ sum \in Int /\ lo \in Int /\ hi \in Int
       /\ n * lo <= sum /\ sum <= n * hi
Averages(packets, avg, lo, hi) ==
    \/ avg = None /\ lo = None /\ hi = None
    \/ /\ packets > 0
       /\ avg \in Int /\ lo \in Int /\ hi \in Int
       /\ 100 * lo <= avg /\ avg <= 100 * hi

(* A noise floor of bucket k, of which the positions from f to b are known. *)
Floors(l, v, k, f, b) ==
    /\ v = None \/ \E i \in NoisesOf(l, k, 1, b) : v = l[i].floor
    /\ NoFail /\ NoisesOf(l, k, f, b) # {} => v # None

BucketFields ==
    {"packets", "hashes", "flood", "sum", "n", "min", "max", "floor", "floorTS",
     "loaded", "dirty"}

(* The totals of a bucket, when the packets S of all its packets W are known. *)
Totals(l, st, S, W) ==
    /\ Counts(st.packets, S) /\ Counts(st.flood, FloodIn(l, S))
    /\ Least(l, st.min, S, W) /\ Greatest(l, st.max, S, W)
    /\ Weighs(st.packets, st.sum, st.n, st.min, st.max)

(* The memory of a bucket that goes back to position f, and to the log's     *)
(* first once it is loaded.                                                  *)
BucketEntry(l, st, k, f, b) ==
    /\ DOMAIN st = BucketFields /\ st.loaded \in BOOLEAN /\ st.dirty \in BOOLEAN
    /\ Totals(l, st, PacketsOf(l, k, f, b), PacketsOf(l, k, 1, b))
    /\ Collects(l, st.hashes, PacketsOf(l, k, f, b), PacketsOf(l, k, 1, b))
    /\ Floors(l, st.floor, k, f, b)
    /\ st.floorTS \in Nat /\ (st.floorTS # 0 => st.floor # None)
    /\ st.loaded => f = 1

(* While counters are exact, a bucket that is not loaded came to memory in  *)
(* this batch, and is marked.                                               *)
Kept(l, st, k, a, b) ==
    \E f \in 1..a : /\ BucketEntry(l, st, k, f, b)
                    /\ Exact => st.loaded \/ (f = a /\ st.dirty)

BucketMemory(l, m, a, b) ==
    /\ \A k \in DOMAIN m : Kept(l, m[k], k, a, b)
    /\ \A i \in PacketsAt(l, a, b) \cup Noises(l, a, b) : KeyOf(l[i]) \in DOMAIN m

(* Buckets with a packet from position a to `at` are marked to be written,  *)
(* and those with a noise floor unless their row has one.                   *)
Marked(l, m, a, at) ==
    \A i \in PacketsAt(l, a, at) : KeyOf(l[i]) \in DOMAIN m /\ m[KeyOf(l[i])].dirty
HasFloor(t, k) == k \in DOMAIN t /\ t[k].floor # None
Noticed(m, t) ==
    NoFail => \A k \in DOMAIN m : m[k].floor # None => m[k].dirty \/ HasFloor(t, k)

(* Nothing is left to be written. *)
Written(m, t) ==
    /\ NoFail => \A k \in DOMAIN m : m[k].floor # None => HasFloor(t, k)
    /\ Exact => \A k \in DOMAIN m : ~m[k].dirty

BucketRow(l, row, k, b) ==
    /\ Counts(row.packets, PacketsOf(l, k, 1, b))
    /\ Counts(row.flood, FloodIn(l, PacketsOf(l, k, 1, b)))
    /\ Cardinality(HashesAt(l, PacketsOf(l, k, 1, b)) \ {None, Blank}) <= row.unique
    /\ row.unique <= Cardinality(HashesAt(l, PacketsOf(l, k, 1, b)) \ {None})
    /\ Least(l, row.min, PacketsOf(l, k, 1, b), PacketsOf(l, k, 1, b))
    /\ Greatest(l, row.max, PacketsOf(l, k, 1, b), PacketsOf(l, k, 1, b))
    /\ Averages(row.packets, row.avg, row.min, row.max)
    /\ Floors(l, row.floor, k, 1, b)

BucketRows(l, t, b) ==
    /\ \A k \in DOMAIN t : BucketRow(l, t[k], k, b)
    /\ \A i \in PacketsAt(l, 1, b) : KeyOf(l[i]) \in DOMAIN t
    /\ NoFail => \A i \in Noises(l, 1, b) : KeyOf(l[i]) \in DOMAIN t
-----------------------------------------------------------------------------
(* Integer division, and averages that are stored and taken apart again.    *)
LEMMA Quotient ==
  ASSUME NEW a \in Int, NEW b \in Nat \ {0}
  PROVE  /\ a \div b \in Int /\ b * (a \div b) <= a /\ a < b * (a \div b) + b
  OBVIOUS

LEMMA Scaled ==
  ASSUME NEW n \in Nat, NEW x \in Int, NEW y \in Int, x <= y
  PROVE  n * x \in Int /\ n * y \in Int /\ n * x <= n * y
  OBVIOUS

LEMMA Unscaled ==
  ASSUME NEW n \in Nat \ {0}, NEW x \in Int, NEW y \in Int, n * x < n * y
  PROVE  x < y
  OBVIOUS

(* Of a number between two multiples of b, the quotient, rounded either way, *)
(* is between the factors.                                                   *)
LEMMA TruncatedBetween ==
  ASSUME NEW a \in Int, NEW b \in Nat \ {0}, NEW x \in Int, NEW y \in Int,
         b * x <= a, a <= b * y
  PROVE  Truncated(a, b) \in Int /\ x <= Truncated(a, b) /\ Truncated(a, b) <= y
<1>1. CASE a >= 0
  <2> DEFINE q == a \div b
  <2>1. q \in Int /\ b * q <= a /\ a < b * q + b
    BY Quotient
  <2> HIDE DEF q
  <2>2. b * x < b * (q + 1) /\ b * q < b * (y + 1)
    BY <2>1
  <2>3. x < q + 1 /\ q < y + 1
    BY <2>1, <2>2, Unscaled
  <2>4. QED
    BY <1>1, <2>1, <2>3 DEF Truncated, q
<1>2. CASE ~(a >= 0)
  <2> DEFINE q == (-a) \div b
  <2>1. q \in Int /\ b * q <= -a /\ -a < b * q + b
    BY Quotient
  <2> HIDE DEF q
  <2>2. b * (-y) < b * (q + 1) /\ b * q < b * (1 - x)
    BY <2>1
  <2>3. -y < q + 1 /\ q < 1 - x
    BY <2>1, <2>2, Unscaled
  <2>4. -q \in Int /\ x <= -q /\ -q <= y
    BY <2>1, <2>3
  <2>5. QED
    BY <1>2, <2>4 DEF Truncated, q
<1>3. QED
  BY <1>1, <1>2

LEMMA RoundedBetween ==
  ASSUME NEW a \in Int, NEW b \in Nat \ {0}, NEW x \in Int, NEW y \in Int,
         b * x <= a, a <= b * y
  PROVE  Rounded(a, b) \in Int /\ x <= Rounded(a, b) /\ Rounded(a, b) <= y
<1> DEFINE c == 2 * b
<1>1. c \in Nat \ {0} /\ 2 * a + b \in Int /\ b - 2 * a \in Int
  OBVIOUS
<1>2. CASE a >= 0
  <2> DEFINE q == (2 * a + b) \div c
  <2>1. q \in Int /\ c * q <= 2 * a + b /\ 2 * a + b < c * q + c
    <3> HIDE DEF c
    <3>1. QED
      BY <1>1, Quotient
  <2> HIDE DEF q
  <2>2. b * x < b * (q + 1) /\ b * q < b * (y + 1)
    BY <2>1
  <2>3. x < q + 1 /\ q < y + 1
    BY <2>1, <2>2, Unscaled
  <2>4. QED
    BY <1>2, <2>1, <2>3 DEF Rounded, q
<1>3. CASE ~(a >= 0)
  <2> DEFINE q == (b - 2 * a) \div c
  <2>1. q \in Int /\ c * q <= b - 2 * a /\ b - 2 * a < c * q + c
    <3> HIDE DEF c
    <3>1. QED
      BY <1>1, Quotient
  <2> HIDE DEF q
  <2>2. b * (-y) < b * (q + 1) /\ b * q < b * (1 - x)
    BY <2>1
  <2>3. -y < q + 1 /\ q < 1 - x
    BY <2>1, <2>2, Unscaled
  <2>4. -q \in Int /\ x <= -q /\ -q <= y
    BY <2>1, <2>3
  <2>5. QED
    BY <1>3, <2>4 DEF Rounded, q
<1>4. QED
  BY <1>2, <1>3

(* What Flush stores of a sum, and what a reload makes of it.               *)
LEMMA WeighsStored ==
  ASSUME NEW packets, NEW sum, NEW n, NEW lo, NEW hi, packets \in Nat,
         Weighs(packets, sum, n, lo, hi)
  PROVE  Averages(packets, StoredAvg(sum, n), lo, hi)
<1>1. CASE n = 0
  BY <1>1 DEF Weighs, Averages, StoredAvg
<1>2. CASE n # 0
  <2>1. /\ n \in Nat \ {0} /\ n <= packets /\ sum \in Int /\ lo \in Int /\ hi \in Int
        /\ n * lo <= sum /\ sum <= n * hi
    BY <1>2 DEF Weighs
  <2>2. n * (100 * lo) <= 100 * sum /\ 100 * sum <= n * (100 * hi)
    BY <2>1
  <2>3. 100 * sum \in Int /\ 100 * lo \in Int /\ 100 * hi \in Int
    BY <2>1
  <2>4. /\ Rounded(100 * sum, n) \in Int
        /\ 100 * lo <= Rounded(100 * sum, n) /\ Rounded(100 * sum, n) <= 100 * hi
    BY <2>1, <2>2, <2>3, RoundedBetween
  <2>5. packets > 0
    BY <2>1
  <2>6. QED
    BY <1>2, <2>1, <2>4, <2>5 DEF StoredAvg, Averages
<1>3. QED
  BY <1>1, <1>2

LEMMA WeighsRead ==
  ASSUME NEW packets \in Nat, NEW avg, NEW lo, NEW hi, Averages(packets, avg, lo, hi),
         NEW sum, NEW n,
         sum = IF avg # None /\ packets > 0 THEN SumOf(avg, packets) ELSE 0,
         n = IF avg # None /\ packets > 0 THEN packets ELSE 0
  PROVE  Weighs(packets, sum, n, lo, hi)
<1>1. CASE avg = None
  <2>1. avg \notin Int
    BY <1>1, NoneAssumption
  <2>2. QED
    BY <1>1, <2>1 DEF Averages, Weighs
<1>2. CASE avg # None
  <2>1. /\ packets > 0 /\ avg \in Int /\ lo \in Int /\ hi \in Int
        /\ 100 * lo <= avg /\ avg <= 100 * hi
    BY <1>2 DEF Averages
  <2> DEFINE x == packets * lo
             y == packets * hi
             z == avg * packets
  <2>2. x \in Int /\ y \in Int /\ z \in Int /\ 100 * x <= z /\ z <= 100 * y
    <3>1. packets * (100 * lo) <= packets * avg /\ packets * avg <= packets * (100 * hi)
      BY <2>1
    <3>2. QED
      BY <2>1, <3>1
  <2> HIDE DEF x, y, z
  <2>3. /\ Truncated(z, 100) \in Int /\ x <= Truncated(z, 100) /\ Truncated(z, 100) <= y
    <3>1. 100 \in Nat \ {0}
      OBVIOUS
    <3>2. QED
      BY <2>2, <3>1, TruncatedBetween
  <2>4. n = packets /\ sum = Truncated(z, 100)
    BY <1>2, <2>1 DEF SumOf, z
  <2>5. QED
    BY <2>1, <2>3, <2>4 DEF Weighs, x, y
<1>3. QED
  BY <1>1, <1>2

(* Two sums that are added stay between the bounds that are merged.         *)
LEMMA WeighsJoin ==
  ASSUME NEW p1 \in Nat, NEW s1, NEW n1, NEW lo1, NEW hi1, Weighs(p1, s1, n1, lo1, hi1),
         NEW p2 \in Nat, NEW s2, NEW n2, NEW lo2, NEW hi2, Weighs(p2, s2, n2, lo2, hi2)
  PROVE  Weighs(p1 + p2, s1 + s2, n1 + n2, OptMin(lo1, lo2), OptMax(hi1, hi2))
<1>1. CASE n1 = 0
  <2>1. s1 = 0 /\ lo1 = None /\ hi1 = None
    BY <1>1 DEF Weighs
  <2>2. OptMin(lo1, lo2) = lo2 /\ OptMax(hi1, hi2) = hi2
    BY <2>1 DEF OptMin, OptMax
  <2>3. s2 \in Int /\ n2 \in Nat
    BY DEF Weighs
  <2>4. n1 + n2 = n2 /\ s1 + s2 = s2
    BY <1>1, <2>1, <2>3
  <2>5. QED
    BY <2>2, <2>4 DEF Weighs
<1>2. CASE n2 = 0
  <2>1. s2 = 0 /\ lo2 = None /\ hi2 = None
    BY <1>2 DEF Weighs
  <2>2. OptMin(lo1, lo2) = lo1 /\ OptMax(hi1, hi2) = hi1
    BY <2>1 DEF OptMin, OptMax
  <2>3. s1 \in Int /\ n1 \in Nat
    BY DEF Weighs
  <2>4. n1 + n2 = n1 /\ s1 + s2 = s1
    BY <1>2, <2>1, <2>3
  <2>5. QED
    BY <2>2, <2>4 DEF Weighs
<1>3. CASE n1 # 0 /\ n2 # 0
  <2>1. /\ n1 \in Nat \ {0} /\ n1 <= p1 /\ s1 \in Int /\ lo1 \in Int /\ hi1 \in Int
        /\ n2 \in Nat \ {0} /\ n2 <= p2 /\ s2 \in Int /\ lo2 \in Int /\ hi2 \in Int
    BY <1>3 DEF Weighs
  <2>a. /\ n1 * lo1 <= s1 /\ s1 <= n1 * hi1
        /\ n2 * lo2 <= s2 /\ s2 <= n2 * hi2
    BY <1>3 DEF Weighs
  <2> DEFINE lo == OptMin(lo1, lo2)
             hi == OptMax(hi1, hi2)
  <2>2. /\ lo \in Int /\ lo <= lo1 /\ lo <= lo2
        /\ hi \in Int /\ hi1 <= hi /\ hi2 <= hi
    BY <2>1, NoneAssumption DEF OptMin, OptMax, Earlier, Later
  <2> HIDE DEF lo, hi
  <2>3. n1 * lo <= n1 * lo1 /\ n2 * lo <= n2 * lo2 /\ n1 * hi1 <= n1 * hi /\ n2 * hi2 <= n2 * hi
    BY <2>1, <2>2, Scaled
  <2>4. (n1 + n2) * lo = n1 * lo + n2 * lo /\ (n1 + n2) * hi = n1 * hi + n2 * hi
    BY <2>1, <2>2
  <2>5. /\ n1 * lo \in Int /\ n2 * lo \in Int /\ n1 * hi \in Int /\ n2 * hi \in Int
        /\ n1 * lo1 \in Int /\ n2 * lo2 \in Int /\ n1 * hi1 \in Int /\ n2 * hi2 \in Int
    BY <2>1, <2>2
  <2> DEFINE a1 == n1 * lo1
             a2 == n2 * lo2
             b1 == n1 * hi1
             b2 == n2 * hi2
             c1 == n1 * lo
             c2 == n2 * lo
             d1 == n1 * hi
             d2 == n2 * hi
  <2>6. c1 + c2 <= s1 + s2 /\ s1 + s2 <= d1 + d2
    <3>1. /\ a1 \in Int /\ a2 \in Int /\ b1 \in Int /\ b2 \in Int
          /\ c1 \in Int /\ c2 \in Int /\ d1 \in Int /\ d2 \in Int
      BY <2>5
    <3>2. /\ a1 <= s1 /\ a2 <= s2 /\ s1 <= b1 /\ s2 <= b2
          /\ c1 <= a1 /\ c2 <= a2 /\ b1 <= d1 /\ b2 <= d2
      BY <2>a, <2>3
    <3> HIDE DEF a1, a2, b1, b2, c1, c2, d1, d2
    <3>3. QED
      BY <2>1, <3>1, <3>2
  <2>7. (n1 + n2) * lo <= s1 + s2 /\ s1 + s2 <= (n1 + n2) * hi
    BY <2>4, <2>6
  <2> HIDE DEF a1, a2, b1, b2, c1, c2, d1, d2
  <2>8. n1 + n2 \in Nat \ {0} /\ n1 + n2 <= p1 + p2 /\ s1 + s2 \in Int
    BY <2>1
  <2>9. QED
    BY <2>2, <2>7, <2>8 DEF Weighs, lo, hi
<1>4. QED
  BY <1>1, <1>2, <1>3
-----------------------------------------------------------------------------
(* Positions of packets, and what is counted, bounded and collected there.  *)
LEMMA Rssi ==
  ASSUME NEW l \in Seq(EventSet), NEW S \in SUBSET PacketsAt(l, 1, Len(l)), NEW i \in HeardIn(l, S)
  PROVE  l[i].rssi \in Int /\ l[i].rssi # None
<1>1. i \in 1..Len(l) /\ IsPacket(l[i]) /\ l[i].rssi # None
  BY DEF PacketsAt, HeardIn
<1>2. l[i] \in EventSet
  BY <1>1
<1>3. QED
  BY <1>1, <1>2, EventsAssumption

LEMMA PositionsFinite ==
  ASSUME NEW l \in Seq(EventSet), NEW S \in SUBSET PacketsAt(l, 1, Len(l))
  PROVE  /\ IsFiniteSet(S) /\ IsFiniteSet(FloodIn(l, S))
         /\ FloodIn(l, S) \in SUBSET PacketsAt(l, 1, Len(l))
<1>1. IsFiniteSet(1..Len(l))
  <2>1. 1 \in Int /\ Len(l) \in Int
    OBVIOUS
  <2>2. QED
    BY <2>1, FS_Interval
<1>2. S \in SUBSET (1..Len(l)) /\ FloodIn(l, S) \in SUBSET (1..Len(l)) /\ FloodIn(l, S) \subseteq S
  BY DEF PacketsAt, FloodIn
<1>3. QED
  BY <1>1, <1>2, FS_Subset

LEMMA CountsJoin ==
  ASSUME NEW S, NEW T, IsFiniteSet(S), IsFiniteSet(T), Exact => S \cap T = {},
         NEW n, NEW k, Counts(n, S), Counts(k, T)
  PROVE  Counts(n + k, S \cup T)
<1>1. /\ IsFiniteSet(S \cup T) /\ IsFiniteSet(S \cap T)
      /\ Cardinality(S \cup T) = Cardinality(S) + Cardinality(T) - Cardinality(S \cap T)
  <2>1. S \cap T \in SUBSET S
    OBVIOUS
  <2>2. QED
    BY <2>1, FS_Union, FS_Subset
<1>2. /\ Cardinality(S) \in Nat /\ Cardinality(T) \in Nat /\ Cardinality(S \cap T) \in Nat
      /\ Cardinality(S \cup T) \in Nat
  BY <1>1, FS_CardinalityType
<1>3. Exact => Cardinality(S \cap T) = 0
  BY FS_EmptySet
<1>4. /\ n \in Nat /\ Cardinality(S) <= n /\ Exact => n = Cardinality(S)
      /\ k \in Nat /\ Cardinality(T) <= k /\ Exact => k = Cardinality(T)
  BY DEF Counts
<1>5. QED
  BY <1>1, <1>2, <1>3, <1>4 DEF Counts

LEMMA CountsFewer ==
  ASSUME NEW S, IsFiniteSet(S), NEW T \in SUBSET S, NEW n, Counts(n, S), ~Exact
  PROVE  Counts(n, T)
<1>1. Cardinality(T) <= Cardinality(S) /\ Cardinality(T) \in Nat /\ Cardinality(S) \in Nat
  BY FS_Subset, FS_CardinalityType
<1>2. QED
  BY <1>1 DEF Counts

LEMMA CountsOfOne ==
  ASSUME NEW l, NEW p, NEW n, n = IF l[p].flood THEN 1 ELSE 0
  PROVE  Counts(1, {p}) /\ Counts(n, FloodIn(l, {p}))
<1>1. Cardinality({p}) = 1 /\ Cardinality({}) = 0
  BY FS_Singleton, FS_EmptySet
<1>2. Counts(1, {p}) /\ Counts(0, {})
  BY <1>1 DEF Counts
<1>3. CASE l[p].flood
  <2>1. FloodIn(l, {p}) = {p} /\ n = 1
    BY <1>3 DEF FloodIn
  <2>2. QED
    BY <1>2, <2>1
<1>4. CASE ~l[p].flood
  <2>1. FloodIn(l, {p}) = {} /\ n = 0
    BY <1>4 DEF FloodIn
  <2>2. QED
    BY <1>2, <2>1
<1>5. QED
  BY <1>3, <1>4

LEMMA BoundsJoin ==
  ASSUME NEW l \in Seq(EventSet), NEW W \in SUBSET PacketsAt(l, 1, Len(l)),
         NEW S \in SUBSET W, NEW T \in SUBSET W, NEW v, NEW w
  PROVE  /\ Least(l, v, S, W) /\ Least(l, w, T, W) => Least(l, OptMin(v, w), S \cup T, W)
         /\ Greatest(l, v, S, W) /\ Greatest(l, w, T, W) => Greatest(l, OptMax(v, w), S \cup T, W)
<1>1. /\ HeardIn(l, S \cup T) = HeardIn(l, S) \cup HeardIn(l, T)
      /\ HeardIn(l, S) \subseteq HeardIn(l, W) /\ HeardIn(l, T) \subseteq HeardIn(l, W)
  BY DEF HeardIn
<1>2. \A i \in HeardIn(l, W) : l[i].rssi \in Int /\ l[i].rssi # None
  BY Rssi
<1>3. ASSUME Least(l, v, S, W), Least(l, w, T, W) PROVE Least(l, OptMin(v, w), S \cup T, W)
  <2>1. CASE v = None /\ HeardIn(l, S) = {}
    <3>1. OptMin(v, w) = w
      BY <2>1 DEF OptMin
    <3>2. QED
      BY <1>1, <1>3, <2>1, <3>1 DEF Least
  <2>2. CASE w = None /\ HeardIn(l, T) = {}
    <3>1. OptMin(v, w) = v
      BY <2>2 DEF OptMin
    <3>2. QED
      BY <1>1, <1>3, <2>2, <3>1 DEF Least
  <2>3. CASE /\ \E i \in HeardIn(l, W) : v = l[i].rssi
             /\ \A i \in HeardIn(l, S) : v <= l[i].rssi
             /\ \E i \in HeardIn(l, W) : w = l[i].rssi
             /\ \A i \in HeardIn(l, T) : w <= l[i].rssi
    <3> DEFINE x == OptMin(v, w)
    <3>1. v \in Int /\ w \in Int /\ v # None /\ w # None
      BY <1>2, <2>3
    <3>2. x \in Int /\ x \in {v, w} /\ x <= v /\ x <= w
      BY <3>1 DEF OptMin, Earlier
    <3> HIDE DEF x
    <3>3. ASSUME NEW i \in HeardIn(l, S \cup T) PROVE x <= l[i].rssi
      <4>1. l[i].rssi \in Int /\ (v <= l[i].rssi \/ w <= l[i].rssi)
        BY <1>1, <1>2, <2>3
      <4>2. QED
        BY <3>1, <3>2, <4>1
    <3>4. \E i \in HeardIn(l, W) : x = l[i].rssi
      BY <2>3, <3>2
    <3>5. QED
      BY <3>3, <3>4 DEF Least, x
  <2>4. QED
    BY <1>3, <2>1, <2>2, <2>3 DEF Least
<1>4. ASSUME Greatest(l, v, S, W), Greatest(l, w, T, W)
      PROVE  Greatest(l, OptMax(v, w), S \cup T, W)
  <2>1. CASE v = None /\ HeardIn(l, S) = {}
    <3>1. OptMax(v, w) = w
      BY <2>1 DEF OptMax
    <3>2. QED
      BY <1>1, <1>4, <2>1, <3>1 DEF Greatest
  <2>2. CASE w = None /\ HeardIn(l, T) = {}
    <3>1. OptMax(v, w) = v
      BY <2>2 DEF OptMax
    <3>2. QED
      BY <1>1, <1>4, <2>2, <3>1 DEF Greatest
  <2>3. CASE /\ \E i \in HeardIn(l, W) : v = l[i].rssi
             /\ \A i \in HeardIn(l, S) : l[i].rssi <= v
             /\ \E i \in HeardIn(l, W) : w = l[i].rssi
             /\ \A i \in HeardIn(l, T) : l[i].rssi <= w
    <3> DEFINE x == OptMax(v, w)
    <3>1. v \in Int /\ w \in Int /\ v # None /\ w # None
      BY <1>2, <2>3
    <3>2. x \in Int /\ x \in {v, w} /\ v <= x /\ w <= x
      BY <3>1 DEF OptMax, Later
    <3> HIDE DEF x
    <3>3. ASSUME NEW i \in HeardIn(l, S \cup T) PROVE l[i].rssi <= x
      <4>1. l[i].rssi \in Int /\ (l[i].rssi <= v \/ l[i].rssi <= w)
        BY <1>1, <1>2, <2>3
      <4>2. QED
        BY <3>1, <3>2, <4>1
    <3>4. \E i \in HeardIn(l, W) : x = l[i].rssi
      BY <2>3, <3>2
    <3>5. QED
      BY <3>3, <3>4 DEF Greatest, x
  <2>4. QED
    BY <1>4, <2>1, <2>2, <2>3 DEF Greatest
<1>5. QED
  BY <1>3, <1>4

(* A bound holds of fewer positions, and is one of more.                    *)
LEMMA BoundsMoved ==
  ASSUME NEW l, NEW S, NEW T \in SUBSET S, NEW W, NEW V, W \in SUBSET V, NEW v
  PROVE  /\ Least(l, v, S, W) => Least(l, v, T, V)
         /\ Greatest(l, v, S, W) => Greatest(l, v, T, V)
<1>1. HeardIn(l, T) \subseteq HeardIn(l, S) /\ HeardIn(l, W) \subseteq HeardIn(l, V)
  BY DEF HeardIn
<1>2. QED
  BY <1>1 DEF Least, Greatest

(* Totals that are added and merged.                                        *)
LEMMA TotalsJoin ==
  ASSUME NEW l \in Seq(EventSet), NEW W \in SUBSET PacketsAt(l, 1, Len(l)),
         NEW S \in SUBSET W, NEW T \in SUBSET W, Exact => S \cap T = {},
         NEW st, Totals(l, st, S, W), NEW inc, Totals(l, inc, T, W),
         NEW new,
         new.packets = st.packets + inc.packets, new.flood = st.flood + inc.flood,
         new.sum = st.sum + inc.sum, new.n = st.n + inc.n,
         new.min = OptMin(st.min, inc.min), new.max = OptMax(st.max, inc.max)
  PROVE  Totals(l, new, S \cup T, W)
<1>1. Counts(new.packets, S \cup T)
  <2>1. Counts(st.packets, S) /\ Counts(inc.packets, T)
    BY DEF Totals
  <2>2. IsFiniteSet(S) /\ IsFiniteSet(T)
    BY PositionsFinite
  <2>3. QED
    BY <2>1, <2>2, CountsJoin
<1>2. Counts(new.flood, FloodIn(l, S \cup T))
  <2>1. Counts(st.flood, FloodIn(l, S)) /\ Counts(inc.flood, FloodIn(l, T))
    BY DEF Totals
  <2>2. IsFiniteSet(FloodIn(l, S)) /\ IsFiniteSet(FloodIn(l, T))
    BY PositionsFinite
  <2>3. /\ FloodIn(l, S \cup T) = FloodIn(l, S) \cup FloodIn(l, T)
        /\ FloodIn(l, S) \cap FloodIn(l, T) \subseteq S \cap T
    BY DEF FloodIn
  <2>4. Counts(st.flood + inc.flood, FloodIn(l, S) \cup FloodIn(l, T))
    BY <2>1, <2>2, <2>3, CountsJoin
  <2>5. QED
    BY <2>3, <2>4
<1>3. Least(l, new.min, S \cup T, W) /\ Greatest(l, new.max, S \cup T, W)
  BY BoundsJoin DEF Totals
<1>4. Weighs(new.packets, new.sum, new.n, new.min, new.max)
  <2>1. /\ Weighs(st.packets, st.sum, st.n, st.min, st.max)
        /\ Weighs(inc.packets, inc.sum, inc.n, inc.min, inc.max)
        /\ st.packets \in Nat /\ inc.packets \in Nat
    BY DEF Totals, Counts
  <2>2. Weighs(st.packets + inc.packets, st.sum + inc.sum, st.n + inc.n,
               OptMin(st.min, inc.min), OptMax(st.max, inc.max))
    BY <2>1, WeighsJoin
  <2>3. QED
    BY <2>2
<1>5. QED
  BY <1>1, <1>2, <1>3, <1>4 DEF Totals

(* What one packet adds. *)
OfPacket(e) ==
    [packets |-> 1, flood |-> IF e.flood THEN 1 ELSE 0,
     sum |-> IF e.rssi # None THEN e.rssi ELSE 0, n |-> IF e.rssi # None THEN 1 ELSE 0,
     min |-> e.rssi, max |-> e.rssi]

LEMMA TotalsOfPacket ==
  ASSUME NEW l \in Seq(EventSet), NEW W \in SUBSET PacketsAt(l, 1, Len(l)), NEW p \in W
  PROVE  Totals(l, OfPacket(l[p]), {p}, W)
<1> DEFINE e == l[p]
           inc == OfPacket(e)
<1>1. /\ inc.packets = 1 /\ inc.flood = IF e.flood THEN 1 ELSE 0
      /\ inc.sum = IF e.rssi # None THEN e.rssi ELSE 0
      /\ inc.n = IF e.rssi # None THEN 1 ELSE 0
      /\ inc.min = e.rssi /\ inc.max = e.rssi
  BY DEF OfPacket
<1> HIDE DEF inc
<1>2. Counts(inc.packets, {p}) /\ Counts(inc.flood, FloodIn(l, {p}))
  BY <1>1, CountsOfOne
<1>3. e.rssi # None => e.rssi \in Int
  BY Rssi DEF HeardIn
<1>4. Least(l, inc.min, {p}, W) /\ Greatest(l, inc.max, {p}, W)
  <2>1. CASE e.rssi = None
    <3>1. HeardIn(l, {p}) = {}
      BY <2>1 DEF HeardIn
    <3>2. QED
      BY <1>1, <2>1, <3>1 DEF Least, Greatest
  <2>2. CASE e.rssi # None
    <3>1. HeardIn(l, {p}) = {p} /\ p \in HeardIn(l, W)
      BY <2>2 DEF HeardIn
    <3>2. e.rssi <= e.rssi
      BY <1>3, <2>2
    <3>3. QED
      BY <1>1, <3>1, <3>2 DEF Least, Greatest
  <2>3. QED
    BY <2>1, <2>2
<1>5. Weighs(inc.packets, inc.sum, inc.n, inc.min, inc.max)
  BY <1>1, <1>3 DEF Weighs
<1>6. QED
  BY <1>2, <1>4, <1>5 DEF Totals, inc

(* What a row adds. *)
OfRow(row) ==
    [packets |-> row.packets, flood |-> row.flood,
     sum |-> IF row.avg # None /\ row.packets > 0 THEN SumOf(row.avg, row.packets) ELSE 0,
     n |-> IF row.avg # None /\ row.packets > 0 THEN row.packets ELSE 0,
     min |-> row.min, max |-> row.max]

LEMMA TotalsOfRow ==
  ASSUME NEW l, NEW row, NEW k, NEW d, BucketRow(l, row, k, d), NEW D, D = PacketsOf(l, k, 1, d),
         NEW W, D \in SUBSET W
  PROVE  Totals(l, OfRow(row), D, W)
<1> DEFINE inc == OfRow(row)
<1>1. /\ inc.packets = row.packets /\ inc.flood = row.flood
      /\ inc.sum = IF row.avg # None /\ row.packets > 0 THEN SumOf(row.avg, row.packets) ELSE 0
      /\ inc.n = IF row.avg # None /\ row.packets > 0 THEN row.packets ELSE 0
      /\ inc.min = row.min /\ inc.max = row.max
  BY DEF OfRow
<1> HIDE DEF inc
<1>2. /\ Counts(row.packets, D) /\ Counts(row.flood, FloodIn(l, D))
      /\ Least(l, row.min, D, D) /\ Greatest(l, row.max, D, D)
      /\ Averages(row.packets, row.avg, row.min, row.max)
  BY DEF BucketRow
<1>3. Least(l, inc.min, D, W) /\ Greatest(l, inc.max, D, W)
  <2>1. HeardIn(l, D) \subseteq HeardIn(l, W)
    BY DEF HeardIn
  <2>2. Least(l, row.min, D, W) /\ Greatest(l, row.max, D, W)
    BY <1>2, <2>1 DEF Least, Greatest
  <2>3. QED
    BY <1>1, <2>2
<1>4. row.packets \in Nat
  BY <1>2 DEF Counts
<1>5. Weighs(row.packets, inc.sum, inc.n, row.min, row.max)
  BY <1>1, <1>2, <1>4, WeighsRead
<1>6. QED
  BY <1>1, <1>2, <1>3, <1>5 DEF Totals, inc
-----------------------------------------------------------------------------
(* Applying an event to a bucket.                                           *)
PacketIn(acc, e) ==
    [acc EXCEPT !.packets = @ + 1,
                !.hashes = IF Hashed(e) THEN @ \cup {e.hash} ELSE @,
                !.flood = IF e.flood THEN @ + 1 ELSE @,
                !.sum = IF e.rssi # None THEN @ + e.rssi ELSE @,
                !.n = IF e.rssi # None THEN @ + 1 ELSE @,
                !.min = OptMin(@, e.rssi),
                !.max = OptMax(@, e.rssi),
                !.dirty = TRUE]

NoiseIn(acc, e) ==
    IF e.ts > acc.floorTS
    THEN [acc EXCEPT !.floor = e.floor, !.floorTS = e.ts, !.dirty = TRUE]
    ELSE acc

(* What a bucket gains from the next event, or once more from an event that *)
(* it has already.                                                          *)
LEMMA BucketGrows ==
  ASSUME NEW l, NEW p \in Nat, NEW b \in Nat, p <= b + 1, NEW q, q = Later(b, p),
         NEW f \in Nat \ {0}, f <= p, NEW k
  PROVE  /\ PacketsOf(l, k, f, q) = IF IsPacket(l[p]) /\ KeyOf(l[p]) = k
                                    THEN PacketsOf(l, k, f, b) \cup {p}
                                    ELSE PacketsOf(l, k, f, b)
         /\ NoisesOf(l, k, f, q) =
              IF l[p].kind = "status" /\ l[p].floor # None /\ KeyOf(l[p]) = k
              THEN NoisesOf(l, k, f, b) \cup {p} ELSE NoisesOf(l, k, f, b)
<1>1. \A i : i \in f..q <=> i \in f..b \/ i = p
  BY DEF Later
<1>2. QED
  BY <1>1 DEF PacketsOf, NoisesOf, Noises

LEMMA BucketPackets ==
  ASSUME NEW l, NEW k, NEW f \in Nat \ {0}, NEW b \in Nat, NEW n \in Nat, b <= n
  PROVE  /\ PacketsOf(l, k, 1, b) \in SUBSET PacketsAt(l, 1, n)
         /\ PacketsOf(l, k, f, b) \in SUBSET PacketsOf(l, k, 1, b)
         /\ NoisesOf(l, k, f, b) \in SUBSET NoisesOf(l, k, 1, b)
  BY DEF PacketsOf, PacketsAt, NoisesOf, Noises

LEMMA EntryPasses ==
  ASSUME NEW l, NEW p \in Nat \ {0}, NEW b \in Nat, p <= b + 1, NEW q, q = Later(b, p),
         NEW f \in 1..p, NEW k, NEW st, BucketEntry(l, st, k, f, b),
         KeyOf(l[p]) # k \/ ~(IsPacket(l[p]) \/ (l[p].kind = "status" /\ l[p].floor # None))
  PROVE  BucketEntry(l, st, k, f, q)
<1>1. f \in Nat \ {0} /\ f <= p /\ 1 \in Nat \ {0} /\ 1 <= p
  OBVIOUS
<1>2. /\ PacketsOf(l, k, f, q) = PacketsOf(l, k, f, b)
      /\ PacketsOf(l, k, 1, q) = PacketsOf(l, k, 1, b)
      /\ NoisesOf(l, k, f, q) = NoisesOf(l, k, f, b)
      /\ NoisesOf(l, k, 1, q) = NoisesOf(l, k, 1, b)
  BY <1>1, BucketGrows
<1>3. QED
  BY <1>2 DEF BucketEntry, Floors

LEMMA EntryPacket ==
  ASSUME NEW l \in Seq(EventSet), NEW p \in 1..Len(l), NEW b \in Nat, b <= Len(l), p <= b + 1,
         NEW q, q = Later(b, p), Exact => p = b + 1,
         NEW f \in 1..p, NEW k, NEW st, BucketEntry(l, st, k, f, b),
         IsPacket(l[p]), KeyOf(l[p]) = k
  PROVE  /\ BucketEntry(l, PacketIn(st, l[p]), k, f, q)
         /\ PacketIn(st, l[p]).dirty /\ PacketIn(st, l[p]).loaded = st.loaded
         /\ PacketIn(st, l[p]).floor = st.floor
<1> DEFINE e == l[p]
           new == PacketIn(st, e)
           inc == OfPacket(e)
           S == PacketsOf(l, k, f, b)
           W == PacketsOf(l, k, 1, b)
           V == PacketsOf(l, k, 1, q)
<1>1. /\ f \in Nat \ {0} /\ f <= p /\ 1 \in Nat \ {0} /\ 1 <= p /\ p \in Nat /\ q \in Nat
      /\ q <= Len(l) /\ b <= q
  BY DEF Later
<1>2. /\ PacketsOf(l, k, f, q) = S \cup {p} /\ V = W \cup {p}
      /\ NoisesOf(l, k, f, q) = NoisesOf(l, k, f, b)
      /\ NoisesOf(l, k, 1, q) = NoisesOf(l, k, 1, b)
  BY <1>1, BucketGrows DEF IsPacket
<1>3. V \in SUBSET PacketsAt(l, 1, Len(l)) /\ S \in SUBSET W
  <2>1. Len(l) \in Nat
    OBVIOUS
  <2>2. QED
    BY <1>1, <2>1, BucketPackets
<1>4. Exact => p \notin S
  BY DEF PacketsOf
<1>5. /\ DOMAIN st = BucketFields /\ st.loaded \in BOOLEAN
      /\ Totals(l, st, S, W) /\ Collects(l, st.hashes, S, W)
      /\ Floors(l, st.floor, k, f, b)
      /\ st.floorTS \in Nat /\ (st.floorTS # 0 => st.floor # None)
      /\ st.loaded => f = 1
  BY DEF BucketEntry
<1>6. /\ DOMAIN new = BucketFields
      /\ new.packets = st.packets + 1
      /\ new.hashes = IF Hashed(e) THEN st.hashes \cup {e.hash} ELSE st.hashes
      /\ new.flood = IF e.flood THEN st.flood + 1 ELSE st.flood
      /\ new.sum = IF e.rssi # None THEN st.sum + e.rssi ELSE st.sum
      /\ new.n = IF e.rssi # None THEN st.n + 1 ELSE st.n
      /\ new.min = OptMin(st.min, e.rssi) /\ new.max = OptMax(st.max, e.rssi)
      /\ new.floor = st.floor /\ new.floorTS = st.floorTS /\ new.loaded = st.loaded
      /\ new.dirty = TRUE
  BY <1>5 DEF PacketIn, BucketFields
<1>7. /\ inc.packets = 1 /\ inc.flood = IF e.flood THEN 1 ELSE 0
      /\ inc.sum = IF e.rssi # None THEN e.rssi ELSE 0
      /\ inc.n = IF e.rssi # None THEN 1 ELSE 0
      /\ inc.min = e.rssi /\ inc.max = e.rssi
  BY DEF OfPacket
<1> HIDE DEF S, W, V
<1>8. p \in V /\ S \in SUBSET V /\ {p} \in SUBSET V
  BY <1>2, <1>3
<1>9. Totals(l, st, S, V)
  <2>1. HeardIn(l, W) \subseteq HeardIn(l, V)
    BY <1>2 DEF HeardIn
  <2>2. QED
    BY <1>5, <2>1 DEF Totals, Least, Greatest
<1>10. Totals(l, inc, {p}, V)
  BY <1>3, <1>8, TotalsOfPacket
<1> HIDE DEF new, inc
<1>11. Totals(l, new, S \cup {p}, V)
  <2>1. st.flood \in Nat /\ st.n \in Nat /\ st.sum \in Int
    BY <1>5 DEF Totals, Counts, Weighs
  <2>2. /\ new.packets = st.packets + inc.packets /\ new.flood = st.flood + inc.flood
        /\ new.sum = st.sum + inc.sum /\ new.n = st.n + inc.n
        /\ new.min = OptMin(st.min, inc.min) /\ new.max = OptMax(st.max, inc.max)
    BY <1>6, <1>7, <2>1
  <2>3. Exact => S \cap {p} = {}
    BY <1>4
  <2>4. QED
    BY <1>3, <1>8, <1>9, <1>10, <2>2, <2>3, TotalsJoin
<1>12. Collects(l, new.hashes, S \cup {p}, V)
  <2>1. /\ HashesAt(l, S \cup {p}) = HashesAt(l, S) \cup {e.hash}
        /\ HashesAt(l, V) = HashesAt(l, W) \cup {e.hash}
    BY <1>2 DEF HashesAt
  <2>2. QED
    BY <1>5, <1>6, <2>1 DEF Collects, Hashed
<1>13. Floors(l, new.floor, k, f, q)
  BY <1>2, <1>5, <1>6 DEF Floors
<1>14. BucketEntry(l, new, k, f, q)
  BY <1>2, <1>5, <1>6, <1>11, <1>12, <1>13 DEF BucketEntry, V
<1>15. QED
  BY <1>6, <1>14 DEF new

LEMMA EntryNoise ==
  ASSUME NEW l \in Seq(EventSet), NEW p \in 1..Len(l), NEW b \in Nat, b <= Len(l), p <= b + 1,
         NEW q, q = Later(b, p),
         NEW f \in 1..p, NEW k, NEW st, BucketEntry(l, st, k, f, b),
         l[p].kind = "status", l[p].floor # None, KeyOf(l[p]) = k
  PROVE  /\ BucketEntry(l, NoiseIn(st, l[p]), k, f, q)
         /\ NoiseIn(st, l[p]).loaded = st.loaded
         /\ NoiseIn(st, l[p]) = st \/ NoiseIn(st, l[p]).dirty
         /\ st.floorTS = 0 => NoiseIn(st, l[p]).dirty
<1> DEFINE e == l[p]
           new == NoiseIn(st, e)
<1>1. /\ f \in Nat \ {0} /\ f <= p /\ 1 \in Nat \ {0} /\ 1 <= p /\ p \in Nat
      /\ l[p] \in EventSet
  OBVIOUS
<1>2. /\ PacketsOf(l, k, f, q) = PacketsOf(l, k, f, b)
      /\ PacketsOf(l, k, 1, q) = PacketsOf(l, k, 1, b)
      /\ NoisesOf(l, k, 1, q) = NoisesOf(l, k, 1, b) \cup {p}
  BY <1>1, BucketGrows DEF IsPacket
<1>3. /\ DOMAIN st = BucketFields /\ st.loaded \in BOOLEAN /\ st.dirty \in BOOLEAN
      /\ Totals(l, st, PacketsOf(l, k, f, b), PacketsOf(l, k, 1, b))
      /\ Collects(l, st.hashes, PacketsOf(l, k, f, b), PacketsOf(l, k, 1, b))
      /\ Floors(l, st.floor, k, f, b)
      /\ st.floorTS \in Nat /\ (st.floorTS # 0 => st.floor # None)
      /\ st.loaded => f = 1
  BY DEF BucketEntry
<1>4. e.ts \in Nat /\ e.ts # 0
  BY <1>1, EventsAssumption DEF ZeroTime
<1>5. CASE e.ts > st.floorTS
  <2>1. /\ DOMAIN new = BucketFields
        /\ new.floor = e.floor /\ new.floorTS = e.ts /\ new.dirty = TRUE
        /\ new.packets = st.packets /\ new.flood = st.flood /\ new.sum = st.sum
        /\ new.n = st.n /\ new.min = st.min /\ new.max = st.max
        /\ new.hashes = st.hashes /\ new.loaded = st.loaded
    BY <1>3, <1>5 DEF NoiseIn, BucketFields
  <2> HIDE DEF new
  <2>2. Floors(l, new.floor, k, f, q)
    BY <1>2, <2>1 DEF Floors
  <2>3. Totals(l, new, PacketsOf(l, k, f, b), PacketsOf(l, k, 1, b))
    BY <1>3, <2>1 DEF Totals
  <2>4. BucketEntry(l, new, k, f, q)
    BY <1>2, <1>3, <1>4, <2>1, <2>2, <2>3 DEF BucketEntry
  <2>5. QED
    BY <2>1, <2>4 DEF new
<1>6. CASE ~(e.ts > st.floorTS)
  <2>1. new = st
    BY <1>6 DEF NoiseIn
  <2>2. st.floorTS # 0
    BY <1>3, <1>4, <1>6
  <2>3. Floors(l, st.floor, k, f, q)
    BY <1>2, <1>3, <2>2 DEF Floors
  <2>4. BucketEntry(l, st, k, f, q)
    BY <1>2, <1>3, <2>3 DEF BucketEntry
  <2>5. QED
    BY <2>1, <2>2, <2>4
<1>7. QED
  BY <1>5, <1>6

LEMMA EntryFresh ==
  ASSUME NEW l, NEW k, NEW a \in Nat \ {0}, NEW b \in Nat, a <= b + 1,
         PacketsOf(l, k, a, b) = {}, NoisesOf(l, k, a, b) = {}
  PROVE  BucketEntry(l, FreshBucket, k, a, b)
<1> DEFINE st == FreshBucket
           W == PacketsOf(l, k, 1, b)
<1>1. /\ DOMAIN st = BucketFields /\ st.packets = 0 /\ st.hashes = {} /\ st.flood = 0 /\ st.sum = 0
      /\ st.n = 0 /\ st.min = None /\ st.max = None /\ st.floor = None /\ st.floorTS = 0
      /\ st.loaded \in BOOLEAN /\ st.dirty \in BOOLEAN /\ ~st.loaded
  BY DEF FreshBucket, BucketFields, ZeroTime
<1> HIDE DEF st, W
<1>2. Cardinality({}) = 0
  BY FS_EmptySet
<1>3. FloodIn(l, {}) = {} /\ HeardIn(l, {}) = {} /\ HashesAt(l, {}) = {}
  BY DEF FloodIn, HeardIn, HashesAt
<1>4. Totals(l, st, {}, W)
  <2>1. Counts(0, {})
    BY <1>2 DEF Counts
  <2>2. Least(l, None, {}, W) /\ Greatest(l, None, {}, W) /\ Weighs(0, 0, 0, None, None)
    BY <1>3 DEF Least, Greatest, Weighs
  <2>3. QED
    BY <1>1, <1>3, <2>1, <2>2 DEF Totals
<1>5. Collects(l, st.hashes, {}, W)
  BY <1>1, <1>3 DEF Collects
<1>6. Floors(l, st.floor, k, a, b)
  BY <1>1 DEF Floors
<1>7. /\ Totals(l, st, PacketsOf(l, k, a, b), PacketsOf(l, k, 1, b))
      /\ Collects(l, st.hashes, PacketsOf(l, k, a, b), PacketsOf(l, k, 1, b))
  BY <1>4, <1>5 DEF W
<1>8. BucketEntry(l, st, k, a, b)
  BY <1>1, <1>6, <1>7 DEF BucketEntry
<1>9. QED
  BY <1>8 DEF st
LEMMA RollupApplied ==
  ASSUME NEW l \in Seq(EventSet), NEW m, NEW a \in Nat \ {0}, NEW p \in 1..Len(l), NEW b \in Nat,
         NEW q, a <= p, p <= b + 1, b <= Len(l), q = Later(b, p), Exact => p = b + 1,
         BucketMemory(l, m, a, b)
  PROVE  /\ BucketMemory(l, RollupApply(m, l[p]), a, q)
         /\ Marked(l, m, a, p - 1) => Marked(l, RollupApply(m, l[p]), a, p)
         /\ \A t : Noticed(m, t) => Noticed(RollupApply(m, l[p]), t)
<1> DEFINE e == l[p]
           k == KeyOf(e)
           acc == Bucket(m, k)
           noise == e.kind = "status" /\ e.floor # None
           st == IF IsPacket(e) THEN PacketIn(acc, e) ELSE NoiseIn(acc, e)
           new == RollupApply(m, e)
<1>1. /\ p \in Nat \ {0} /\ a \in 1..p
      /\ \A i : i \in a..q <=> i \in a..b \/ i = p
      /\ \A i : i \in a..p <=> i \in a..(p - 1) \/ i = p
  BY DEF Later
<1>2. \A f \in 1..a : f \in 1..p
  BY <1>1
<1>3. ASSUME NEW x \in DOMAIN m, x # k \/ ~(IsPacket(e) \/ noise)
      PROVE  Kept(l, m[x], x, a, q)
  <2>1. PICK f \in 1..a : /\ BucketEntry(l, m[x], x, f, b)
                          /\ Exact => m[x].loaded \/ (f = a /\ m[x].dirty)
    BY DEF BucketMemory, Kept
  <2>2. BucketEntry(l, m[x], x, f, q)
    BY <1>1, <1>2, <1>3, <2>1, EntryPasses
  <2>3. QED
    BY <2>1, <2>2 DEF Kept
<1>4. CASE ~(IsPacket(e) \/ noise)
  <2>1. new = m
    BY <1>4 DEF RollupApply, IsPacket
  <2>2. \A i \in PacketsAt(l, a, q) \cup Noises(l, a, q) : KeyOf(l[i]) \in DOMAIN m
    <3>1. PacketsAt(l, a, q) = PacketsAt(l, a, b) /\ Noises(l, a, q) = Noises(l, a, b)
      BY <1>1, <1>4 DEF PacketsAt, Noises
    <3>2. QED
      BY <3>1 DEF BucketMemory
  <2>3. BucketMemory(l, m, a, q)
    BY <1>3, <1>4, <2>2 DEF BucketMemory
  <2>4. Marked(l, m, a, p - 1) => Marked(l, m, a, p)
    <3>1. PacketsAt(l, a, p) = PacketsAt(l, a, p - 1)
      BY <1>1, <1>4 DEF PacketsAt
    <3>2. QED
      BY <3>1 DEF Marked
  <2>5. QED
    BY <2>1, <2>3, <2>4
<1>5. CASE IsPacket(e) \/ noise
  <2>1. new = Put(m, k, st)
    BY <1>5 DEF RollupApply, ApplyPacket, ApplyStatus, PacketIn, NoiseIn, IsPacket
  <2>2. DOMAIN new = DOMAIN m \cup {k} /\ new[k] = st /\ \A x \in DOMAIN m \ {k} : new[x] = m[x]
    BY <2>1 DEF Put
  <2> HIDE DEF new
  <2>3. \E f \in 1..a :
          /\ BucketEntry(l, acc, k, f, b)
          /\ k \in DOMAIN m => acc = m[k] /\ (Exact => acc.loaded \/ (f = a /\ acc.dirty))
          /\ k \notin DOMAIN m => f = a /\ acc.floorTS = 0 /\ acc.floor = None
    <3>1. CASE k \in DOMAIN m
      <4>1. acc = m[k]
        BY <3>1 DEF Bucket
      <4>2. Kept(l, m[k], k, a, b)
        BY <3>1 DEF BucketMemory
      <4>3. QED
        BY <3>1, <4>1, <4>2 DEF Kept
    <3>2. CASE k \notin DOMAIN m
      <4>1. acc = FreshBucket /\ acc.floorTS = 0 /\ acc.floor = None
        BY <3>2 DEF Bucket, FreshBucket, ZeroTime
      <4>2. PacketsOf(l, k, a, b) = {} /\ NoisesOf(l, k, a, b) = {}
        BY <3>2 DEF BucketMemory, PacketsOf, NoisesOf, PacketsAt
      <4>3. a <= b + 1
        OBVIOUS
      <4>4. BucketEntry(l, acc, k, a, b)
        BY <4>1, <4>2, <4>3, EntryFresh
      <4>5. a \in 1..a
        OBVIOUS
      <4>6. QED
        BY <3>2, <4>1, <4>4, <4>5
    <3>3. QED
      BY <3>1, <3>2
  <2>4. PICK f \in 1..a :
          /\ BucketEntry(l, acc, k, f, b)
          /\ k \in DOMAIN m => acc = m[k] /\ (Exact => acc.loaded \/ (f = a /\ acc.dirty))
          /\ k \notin DOMAIN m => f = a /\ acc.floorTS = 0 /\ acc.floor = None
    BY <2>3
  <2> HIDE DEF acc
  <2>5. /\ BucketEntry(l, st, k, f, q)
        /\ st.loaded = acc.loaded
        /\ IsPacket(e) => st.dirty
        /\ st = acc \/ st.dirty
        /\ k \notin DOMAIN m => st.dirty
    <3>1. f \in 1..p
      BY <1>2
    <3>2. CASE IsPacket(e)
      <4>1. st = PacketIn(acc, e)
        BY <3>2
      <4>2. /\ BucketEntry(l, PacketIn(acc, e), k, f, q)
            /\ PacketIn(acc, e).dirty /\ PacketIn(acc, e).loaded = acc.loaded
        <5>1. IsPacket(l[p]) /\ KeyOf(l[p]) = k /\ BucketEntry(l, acc, k, f, b)
          BY <2>4, <3>2
        <5> HIDE DEF k
        <5>2. PacketIn(acc, l[p]).dirty
          BY <3>1, <5>1, EntryPacket
        <5>3. PacketIn(acc, l[p]).loaded = acc.loaded
          BY <3>1, <5>1, EntryPacket
        <5>4. BucketEntry(l, PacketIn(acc, l[p]), k, f, q)
          BY <3>1, <5>1, EntryPacket
        <5>5. QED
          BY <5>2, <5>3, <5>4
      <4>3. QED
        BY <4>1, <4>2
    <3>3. CASE ~IsPacket(e)
      <4>1. st = NoiseIn(acc, e) /\ e.kind = "status" /\ e.floor # None
        BY <1>5, <3>3
      <4>2. /\ BucketEntry(l, NoiseIn(acc, e), k, f, q)
            /\ NoiseIn(acc, e).loaded = acc.loaded
            /\ NoiseIn(acc, e) = acc \/ NoiseIn(acc, e).dirty
            /\ acc.floorTS = 0 => NoiseIn(acc, e).dirty
        BY <2>4, <3>1, <4>1, EntryNoise
      <4>3. QED
        BY <2>4, <3>3, <4>1, <4>2
    <3>4. QED
      BY <3>2, <3>3
  <2> HIDE DEF st
  <2>6. Kept(l, new[k], k, a, q)
    <3>1. Exact => st.loaded \/ (f = a /\ st.dirty)
      BY <2>4, <2>5
    <3>2. QED
      BY <2>2, <2>5, <3>1 DEF Kept
  <2>7. ASSUME NEW x \in DOMAIN new PROVE Kept(l, new[x], x, a, q)
    <3>1. CASE x = k
      BY <2>6, <3>1
    <3>2. CASE x # k
      BY <1>3, <2>2, <3>2
    <3>3. QED
      BY <3>1, <3>2
  <2>8. ASSUME NEW i \in PacketsAt(l, a, q) \cup Noises(l, a, q) PROVE KeyOf(l[i]) \in DOMAIN new
    <3>1. i = p \/ i \in PacketsAt(l, a, b) \cup Noises(l, a, b)
      BY <1>1 DEF PacketsAt, Noises
    <3>2. QED
      BY <2>2, <3>1 DEF BucketMemory
  <2>9. BucketMemory(l, new, a, q)
    BY <2>7, <2>8 DEF BucketMemory
  <2>10. ASSUME Marked(l, m, a, p - 1) PROVE Marked(l, new, a, p)
    <3>1. SUFFICES ASSUME NEW i \in PacketsAt(l, a, p)
                   PROVE  KeyOf(l[i]) \in DOMAIN new /\ new[KeyOf(l[i])].dirty
      BY DEF Marked
    <3>2. CASE i = p
      <4>1. IsPacket(e)
        BY <3>1, <3>2 DEF PacketsAt
      <4>2. QED
        BY <2>2, <2>5, <3>2, <4>1
    <3>3. CASE i # p
      <4>1. i \in PacketsAt(l, a, p - 1)
        BY <1>1, <3>1, <3>3 DEF PacketsAt
      <4>2. KeyOf(l[i]) \in DOMAIN m /\ m[KeyOf(l[i])].dirty
        BY <2>10, <4>1 DEF Marked
      <4>3. CASE KeyOf(l[i]) = k
        <5>1. st.dirty
          BY <2>4, <2>5, <4>2, <4>3
        <5>2. QED
          BY <2>2, <4>3, <5>1
      <4>4. CASE KeyOf(l[i]) # k
        BY <2>2, <4>2, <4>4
      <4>5. QED
        BY <4>3, <4>4
    <3>4. QED
      BY <3>2, <3>3
  <2>11. ASSUME NEW t, Noticed(m, t), NoFail, NEW x \in DOMAIN new, new[x].floor # None
         PROVE  new[x].dirty \/ HasFloor(t, x)
    <3>1. CASE x = k /\ st.dirty
      BY <2>2, <3>1
    <3>2. CASE x = k /\ ~st.dirty
      <4>1. k \in DOMAIN m /\ st = m[k]
        BY <2>4, <2>5, <3>2
      <4>2. QED
        BY <2>2, <2>11, <3>2, <4>1 DEF Noticed
    <3>3. CASE x # k
      BY <2>2, <2>11, <3>3 DEF Noticed
    <3>4. QED
      BY <3>1, <3>2, <3>3
  <2>12. \A t : Noticed(m, t) => Noticed(new, t)
    BY <2>11 DEF Noticed
  <2>13. QED
    BY <2>9, <2>10, <2>12 DEF new
<1>6. QED
  BY <1>4, <1>5
-----------------------------------------------------------------------------
(* Reading a bucket's row and hashes back, and writing it.                  *)
LEMMA HashesFound ==
  ASSUME NEW l, NEW o, NEW d \in Nat, Copies(l, o, PacketsAt(l, 1, d)), NEW k
  PROVE  HashesIn(o, k) = HashesAt(l, PacketsOf(l, k, 1, d)) \ {None}
<1>1. ASSUME NEW h \in HashesIn(o, k) PROVE h \in HashesAt(l, PacketsOf(l, k, 1, d)) \ {None}
  <2>1. PICK row \in RowsOf(o) : row.hash = h /\ h # None /\ KeyOf(row) = k
    BY DEF HashesIn
  <2>2. PICK i \in PacketsAt(l, 1, d) : row = l[i]
    BY DEF RowsOf, Copies
  <2>3. i \in PacketsOf(l, k, 1, d)
    BY <2>1, <2>2 DEF PacketsAt, PacketsOf
  <2>4. QED
    BY <2>1, <2>2, <2>3 DEF HashesAt
<1>2. ASSUME NEW h \in HashesAt(l, PacketsOf(l, k, 1, d)), h # None PROVE h \in HashesIn(o, k)
  <2>1. PICK i \in PacketsOf(l, k, 1, d) : h = l[i].hash
    BY DEF HashesAt
  <2>2. i \in PacketsAt(l, 1, d) /\ KeyOf(l[i]) = k
    BY DEF PacketsAt, PacketsOf
  <2>3. PICK g : Covers(g, l, o, PacketsAt(l, 1, d))
    BY DEF Copies
  <2>4. g[i] \in DOMAIN o /\ o[g[i]] = l[i]
    BY <2>2, <2>3 DEF Covers
  <2>5. l[i] \in RowsOf(o)
    BY <2>4 DEF RowsOf
  <2>6. QED
    BY <1>2, <2>1, <2>2, <2>5 DEF HashesIn
<1>3. QED
  BY <1>1, <1>2

(* What the log has of a bucket before and after the part memory knows.     *)
LEMMA BucketSplit ==
  ASSUME NEW l, NEW k, NEW d \in Nat, NEW u \in Nat, NEW f \in Nat \ {0}, f <= d + 1, d <= u
  PROVE  /\ PacketsOf(l, k, 1, u) = PacketsOf(l, k, 1, d) \cup PacketsOf(l, k, f, u)
         /\ NoisesOf(l, k, 1, u) = NoisesOf(l, k, 1, d) \cup NoisesOf(l, k, f, u)
         /\ f = d + 1 => PacketsOf(l, k, 1, d) \cap PacketsOf(l, k, f, u) = {}
<1>1. \A i : i \in 1..u <=> i \in 1..d \/ i \in f..u
  OBVIOUS
<1>2. f = d + 1 => \A i : ~(i \in 1..d /\ i \in f..u)
  OBVIOUS
<1>3. QED
  BY <1>1, <1>2 DEF PacketsOf, NoisesOf, Noises

(* The memory, the table and the observations that Flush finds: memory goes *)
(* back to position a and up to u, the tables are those of the log up to d. *)
RowsFound(l, m, t, o, a, d, u) ==
    /\ l \in Seq(EventSet) /\ a \in Nat \ {0} /\ d \in Nat /\ u \in Nat
    /\ a <= d + 1 /\ d <= u /\ u <= Len(l)
    /\ Exact => a = d + 1
    /\ BucketMemory(l, m, a, u)
    /\ BucketRows(l, t, d)
    /\ Noticed(m, t)
    /\ Copies(l, o, PacketsAt(l, 1, d))

(* A bucket with its row added: nothing is counted twice while counters are *)
(* exact, and every packet is known.                                        *)
LEMMA RowAdded ==
  ASSUME NEW l \in Seq(EventSet), NEW k, NEW st, NEW row, NEW d \in Nat, NEW u \in Nat,
         NEW f \in Nat \ {0}, f <= d + 1, d <= u, u <= Len(l), Exact => f = d + 1,
         BucketEntry(l, st, k, f, u), BucketRow(l, row, k, d),
         NEW new, new = WithRow(st, row)
  PROVE  /\ DOMAIN new = BucketFields
         /\ new.hashes = st.hashes /\ new.floorTS = st.floorTS
         /\ new.loaded = st.loaded /\ new.dirty = st.dirty
         /\ new.loaded \in BOOLEAN /\ new.dirty \in BOOLEAN
         /\ new.floor = Coalesce(st.floor, row.floor)
         /\ Totals(l, new, PacketsOf(l, k, 1, u), PacketsOf(l, k, 1, u))
<1> DEFINE S == PacketsOf(l, k, f, u)
           D == PacketsOf(l, k, 1, d)
           W == PacketsOf(l, k, 1, u)
           inc == OfRow(row)
<1>1. W = S \cup D /\ (Exact => S \cap D = {})
  BY BucketSplit
<1>2. W \in SUBSET PacketsAt(l, 1, Len(l))
  BY DEF PacketsOf, PacketsAt
<1>3. /\ DOMAIN st = BucketFields /\ st.loaded \in BOOLEAN /\ st.dirty \in BOOLEAN
      /\ Totals(l, st, S, W)
  BY DEF BucketEntry
<1>4. /\ DOMAIN new = BucketFields
      /\ new.packets = st.packets + row.packets
      /\ new.flood = st.flood + row.flood
      /\ new.sum = IF row.avg # None /\ row.packets > 0
                   THEN st.sum + SumOf(row.avg, row.packets) ELSE st.sum
      /\ new.n = IF row.avg # None /\ row.packets > 0 THEN st.n + row.packets ELSE st.n
      /\ new.min = OptMin(st.min, row.min) /\ new.max = OptMax(st.max, row.max)
      /\ new.floor = Coalesce(st.floor, row.floor)
      /\ new.hashes = st.hashes /\ new.floorTS = st.floorTS
      /\ new.loaded = st.loaded /\ new.dirty = st.dirty
  BY <1>3 DEF WithRow, BucketFields
<1>5. /\ inc.packets = row.packets /\ inc.flood = row.flood
      /\ inc.sum = IF row.avg # None /\ row.packets > 0 THEN SumOf(row.avg, row.packets) ELSE 0
      /\ inc.n = IF row.avg # None /\ row.packets > 0 THEN row.packets ELSE 0
      /\ inc.min = row.min /\ inc.max = row.max
  BY DEF OfRow
<1>6. Totals(l, inc, D, W)
  <2>1. D \in SUBSET W
    BY <1>1
  <2> HIDE DEF W, inc
  <2>2. QED
    BY <2>1, TotalsOfRow DEF inc
<1> HIDE DEF S, D, W, inc
<1>7. st.n \in Nat /\ st.sum \in Int
  BY <1>3 DEF Totals, Weighs
<1>8. /\ new.packets = st.packets + inc.packets /\ new.flood = st.flood + inc.flood
      /\ new.sum = st.sum + inc.sum /\ new.n = st.n + inc.n
      /\ new.min = OptMin(st.min, inc.min) /\ new.max = OptMax(st.max, inc.max)
  BY <1>4, <1>5, <1>7
<1>9. S \in SUBSET W /\ D \in SUBSET W
  BY <1>1
<1>10. Totals(l, new, S \cup D, W)
  BY <1>1, <1>2, <1>3, <1>6, <1>8, <1>9, TotalsJoin
<1>11. Totals(l, new, W, W)
  BY <1>1, <1>10
<1>12. QED
  BY <1>3, <1>4, <1>11 DEF W

LEMMA TotalsFewer ==
  ASSUME NEW l \in Seq(EventSet), NEW W \in SUBSET PacketsAt(l, 1, Len(l)), NEW S \in SUBSET W,
         NEW st, Totals(l, st, W, W), ~Exact
  PROVE  Totals(l, st, S, W)
<1>1. Counts(st.packets, S)
  BY PositionsFinite, CountsFewer DEF Totals
<1>2. Counts(st.flood, FloodIn(l, S))
  <2>1. FloodIn(l, S) \in SUBSET FloodIn(l, W)
    BY DEF FloodIn
  <2>2. QED
    BY <2>1, PositionsFinite, CountsFewer DEF Totals
<1>3. HeardIn(l, S) \subseteq HeardIn(l, W)
  BY DEF HeardIn
<1>4. Least(l, st.min, S, W) /\ Greatest(l, st.max, S, W)
  BY <1>3 DEF Totals, Least, Greatest
<1>5. QED
  BY <1>1, <1>2, <1>4 DEF Totals

LEMMA BucketRead ==
  ASSUME NEW l, NEW m, NEW t, NEW o, NEW a, NEW d, NEW u, RowsFound(l, m, t, o, a, d, u),
         NEW k \in RollupPending(m), NEW f \in 1..a, BucketEntry(l, m[k], k, f, u),
         Exact => f = a, NEW totals, NEW hashed,
         NEW new, new = RollupRead(m, t, o, totals, hashed)[k]
  PROVE  /\ DOMAIN new = BucketFields
         /\ new.hashes = m[k].hashes \cup IF k \in hashed THEN HashesIn(o, k) ELSE {}
         /\ new.floorTS = m[k].floorTS
         /\ new.loaded = m[k].loaded /\ new.dirty = m[k].dirty
         /\ new.loaded \in BOOLEAN /\ new.dirty \in BOOLEAN
         /\ new.floor = IF k \in totals \cap DOMAIN t THEN Coalesce(m[k].floor, t[k].floor)
                        ELSE m[k].floor
         /\ Totals(l, new, IF k \in totals THEN PacketsOf(l, k, 1, u) ELSE PacketsOf(l, k, f, u),
                   PacketsOf(l, k, 1, u))
<1> DEFINE S == PacketsOf(l, k, f, u)
           W == PacketsOf(l, k, 1, u)
           st == m[k]
           acc == IF k \in totals \cap DOMAIN t THEN WithRow(st, t[k]) ELSE st
           floor == IF k \in totals \cap DOMAIN t THEN Coalesce(st.floor, t[k].floor)
                    ELSE st.floor
<1>1. /\ l \in Seq(EventSet) /\ d \in Nat /\ u \in Nat /\ f \in Nat \ {0} /\ f <= d + 1
      /\ d <= u /\ u <= Len(l) /\ (Exact => f = d + 1) /\ BucketRows(l, t, d)
  BY DEF RowsFound
<1>2. k \in DOMAIN m
  BY DEF RollupPending
<1>3. new = IF k \notin hashed THEN acc ELSE [acc EXCEPT !.hashes = @ \cup HashesIn(o, k)]
  BY <1>2 DEF RollupRead
<1>4. /\ DOMAIN acc = BucketFields
      /\ acc.hashes = st.hashes /\ acc.floorTS = st.floorTS
      /\ acc.loaded = st.loaded /\ acc.dirty = st.dirty
      /\ acc.loaded \in BOOLEAN /\ acc.dirty \in BOOLEAN
      /\ acc.floor = floor
      /\ Totals(l, acc, IF k \in totals THEN W ELSE S, W)
  <2>1. CASE k \in totals \cap DOMAIN t
    <3> DEFINE row == t[k]
    <3>1. BucketRow(l, row, k, d) /\ acc = WithRow(st, row) /\ BucketEntry(l, st, k, f, u)
      BY <1>1, <2>1 DEF BucketRows
    <3>2. floor = Coalesce(st.floor, row.floor)
      BY <2>1
    <3> HIDE DEF row, acc, st, floor
    <3>3. /\ DOMAIN acc = BucketFields
          /\ acc.hashes = st.hashes /\ acc.floorTS = st.floorTS
          /\ acc.loaded = st.loaded /\ acc.dirty = st.dirty
          /\ acc.loaded \in BOOLEAN /\ acc.dirty \in BOOLEAN
          /\ acc.floor = Coalesce(st.floor, row.floor)
      BY <1>1, <3>1, RowAdded
    <3>4. Totals(l, acc, W, W)
      BY <1>1, <3>1, RowAdded
    <3>5. QED
      BY <2>1, <3>2, <3>3, <3>4
  <2>2. CASE k \notin totals \cap DOMAIN t
    <3>1. acc = st /\ floor = st.floor
      BY <2>2
    <3> HIDE DEF acc, st, floor
    <3>2. k \in totals => S = W
      <4>1. ASSUME k \in totals, NEW i \in PacketsOf(l, k, 1, d) PROVE FALSE
        BY <1>1, <2>2, <4>1 DEF BucketRows, PacketsOf, PacketsAt
      <4>2. W = PacketsOf(l, k, 1, d) \cup S
        BY <1>1, BucketSplit
      <4>3. QED
        BY <4>1, <4>2
    <3>3. BucketEntry(l, st, k, f, u)
      BY DEF st
    <3>4. Totals(l, st, S, W)
      BY <3>3 DEF BucketEntry
    <3>5. DOMAIN st = BucketFields /\ st.loaded \in BOOLEAN /\ st.dirty \in BOOLEAN
      BY <3>3 DEF BucketEntry
    <3>6. QED
      BY <3>1, <3>2, <3>4, <3>5
  <2>3. QED
    BY <2>1, <2>2
<1> HIDE DEF acc, st, floor, S, W
<1>5. CASE k \notin hashed
  <2>1. new = acc
    BY <1>3, <1>5
  <2>2. new.hashes = st.hashes \cup {}
    BY <1>4, <2>1
  <2>3. QED
    BY <1>4, <1>5, <2>1, <2>2 DEF st, floor, S, W
<1>6. CASE k \in hashed
  <2>1. new = [acc EXCEPT !.hashes = @ \cup HashesIn(o, k)]
    BY <1>3, <1>6
  <2>2. /\ DOMAIN new = BucketFields /\ new.hashes = acc.hashes \cup HashesIn(o, k)
        /\ new.packets = acc.packets /\ new.flood = acc.flood /\ new.sum = acc.sum
        /\ new.n = acc.n /\ new.min = acc.min /\ new.max = acc.max
        /\ new.floor = acc.floor /\ new.floorTS = acc.floorTS
        /\ new.loaded = acc.loaded /\ new.dirty = acc.dirty
    BY <1>4, <2>1 DEF BucketFields
  <2>3. Totals(l, new, IF k \in totals THEN W ELSE S, W)
    BY <1>4, <2>2 DEF Totals
  <2>4. QED
    BY <1>4, <1>6, <2>2, <2>3 DEF st, floor, S, W
<1>7. QED
  BY <1>5, <1>6

(* A noise floor that memory lacks and the row has.                         *)
LEMMA FloorRead ==
  ASSUME NEW l, NEW m, NEW t, NEW o, NEW a, NEW d, NEW u, RowsFound(l, m, t, o, a, d, u),
         NEW k, NEW f \in 1..a, NEW v, Floors(l, v, k, f, u),
         NEW w, w = IF k \in DOMAIN t THEN Coalesce(v, t[k].floor) ELSE v
  PROVE  Floors(l, w, k, 1, u) /\ (v # None => w = v)
<1>1. /\ d \in Nat /\ u \in Nat /\ f \in Nat \ {0} /\ f <= d + 1 /\ d <= u /\ BucketRows(l, t, d)
  BY DEF RowsFound
<1>2. NoisesOf(l, k, 1, u) = NoisesOf(l, k, 1, d) \cup NoisesOf(l, k, f, u)
  BY <1>1, BucketSplit
<1>3. k \in DOMAIN t => Floors(l, t[k].floor, k, 1, d)
  BY <1>1 DEF BucketRows, BucketRow
<1>4. w = None \/ \E i \in NoisesOf(l, k, 1, u) : w = l[i].floor
  BY <1>2, <1>3 DEF Floors, Coalesce
<1>5. ASSUME NoFail, NEW i \in NoisesOf(l, k, 1, u) PROVE w # None
  <2>1. CASE i \in NoisesOf(l, k, 1, d)
    <3>1. k \in DOMAIN t
      BY <1>1, <1>5, <2>1 DEF BucketRows, NoisesOf
    <3>2. t[k].floor # None
      BY <1>3, <1>5, <2>1, <3>1 DEF Floors
    <3>3. QED
      BY <3>1, <3>2 DEF Coalesce
  <2>2. CASE i \in NoisesOf(l, k, f, u)
    BY <1>5, <2>2 DEF Floors, Coalesce
  <2>3. QED
    BY <1>2, <2>1, <2>2
<1>6. QED
  BY <1>4, <1>5 DEF Floors, Coalesce

(* Read back in full, a bucket is that of the whole log up to u.            *)
LEMMA EntryLoaded ==
  ASSUME NEW l, NEW m, NEW t, NEW o, NEW a, NEW d, NEW u, RowsFound(l, m, t, o, a, d, u),
         NEW k \in RollupPending(m), NEW totals, NEW hashed, k \in totals, k \in hashed,
         NEW new, new = [RollupRead(m, t, o, totals, hashed)[k] EXCEPT !.loaded = TRUE]
  PROVE  BucketEntry(l, new, k, 1, u) /\ new.loaded /\ new.dirty
<1> DEFINE read == RollupRead(m, t, o, totals, hashed)[k]
           st == m[k]
<1>1. k \in DOMAIN m /\ st.dirty /\ ~st.loaded
  BY DEF RollupPending
<1>2. PICK f \in 1..a : /\ BucketEntry(l, st, k, f, u)
                        /\ Exact => st.loaded \/ (f = a /\ st.dirty)
  BY <1>1 DEF RowsFound, BucketMemory, Kept
<1>3. /\ DOMAIN read = BucketFields
      /\ read.hashes = st.hashes \cup HashesIn(o, k)
      /\ read.floorTS = st.floorTS
      /\ read.dirty = st.dirty /\ read.dirty \in BOOLEAN
      /\ read.floor = IF k \in DOMAIN t THEN Coalesce(st.floor, t[k].floor) ELSE st.floor
      /\ Totals(l, read, PacketsOf(l, k, 1, u), PacketsOf(l, k, 1, u))
  <2>1. (Exact => f = a) /\ BucketEntry(l, m[k], k, f, u)
    BY <1>1, <1>2
  <2>2. /\ DOMAIN read = BucketFields
        /\ read.hashes = m[k].hashes \cup IF k \in hashed THEN HashesIn(o, k) ELSE {}
        /\ read.floorTS = m[k].floorTS
        /\ read.dirty = m[k].dirty /\ read.dirty \in BOOLEAN
        /\ read.floor = IF k \in totals \cap DOMAIN t THEN Coalesce(m[k].floor, t[k].floor)
                        ELSE m[k].floor
        /\ Totals(l, read, IF k \in totals THEN PacketsOf(l, k, 1, u) ELSE PacketsOf(l, k, f, u),
                  PacketsOf(l, k, 1, u))
    BY <2>1, BucketRead
  <2> HIDE DEF read
  <2>3. QED
    BY <2>2
<1> HIDE DEF read, st
<1>4. /\ DOMAIN new = BucketFields /\ new.hashes = read.hashes
      /\ new.packets = read.packets /\ new.flood = read.flood /\ new.sum = read.sum
      /\ new.n = read.n /\ new.min = read.min /\ new.max = read.max
      /\ new.floor = read.floor /\ new.floorTS = read.floorTS
      /\ new.dirty = read.dirty /\ new.loaded /\ new.loaded \in BOOLEAN
  <2>1. new = [read EXCEPT !.loaded = TRUE]
    BY DEF read
  <2>2. QED
    BY <1>3, <2>1 DEF BucketFields
<1>5. /\ Floors(l, st.floor, k, f, u) /\ st.floorTS \in Nat /\ (st.floorTS # 0 => st.floor # None)
      /\ Collects(l, st.hashes, PacketsOf(l, k, f, u), PacketsOf(l, k, 1, u))
  BY <1>2 DEF BucketEntry
<1>6. Floors(l, new.floor, k, 1, u) /\ (st.floor # None => new.floor = st.floor)
  <2> DEFINE v == st.floor
             w == new.floor
  <2>1. w = IF k \in DOMAIN t THEN Coalesce(v, t[k].floor) ELSE v
    BY <1>3, <1>4
  <2>2. Floors(l, v, k, f, u) /\ f \in 1..a
    BY <1>2, <1>5
  <2> HIDE DEF v, w
  <2>3. Floors(l, w, k, 1, u) /\ (v # None => w = v)
    BY <2>1, <2>2, FloorRead
  <2>4. QED
    BY <2>3 DEF v, w
<1>7. Collects(l, new.hashes, PacketsOf(l, k, 1, u), PacketsOf(l, k, 1, u))
  <2> DEFINE S == PacketsOf(l, k, f, u)
             D == PacketsOf(l, k, 1, d)
             W == PacketsOf(l, k, 1, u)
  <2>1. /\ d \in Nat /\ u \in Nat /\ f \in Nat \ {0} /\ f <= d + 1 /\ d <= u
        /\ Copies(l, o, PacketsAt(l, 1, d))
    BY DEF RowsFound
  <2>2. HashesAt(l, W) = HashesAt(l, D) \cup HashesAt(l, S)
    <3>1. W = D \cup S
      BY <2>1, BucketSplit
    <3> HIDE DEF W, D, S
    <3>2. QED
      BY <3>1 DEF HashesAt
  <2>3. HashesIn(o, k) = HashesAt(l, D) \ {None}
    BY <2>1, HashesFound
  <2> HIDE DEF W, D, S
  <2>4. Collects(l, st.hashes, S, W) /\ new.hashes = st.hashes \cup HashesIn(o, k)
    BY <1>3, <1>4, <1>5 DEF S, W
  <2>5. Collects(l, new.hashes, W, W)
    BY <2>2, <2>3, <2>4 DEF Collects
  <2>6. QED
    BY <2>5 DEF W
<1>8. Totals(l, new, PacketsOf(l, k, 1, u), PacketsOf(l, k, 1, u))
  BY <1>3, <1>4 DEF Totals
<1>9. BucketEntry(l, new, k, 1, u)
  BY <1>3, <1>4, <1>5, <1>6, <1>7, <1>8 DEF BucketEntry
<1>10. QED
  BY <1>1, <1>3, <1>4, <1>9

(* Read back in part it claims no more than it did, and counts too much.    *)
LEMMA EntryInterrupted ==
  ASSUME NEW l, NEW m, NEW t, NEW o, NEW a, NEW d, NEW u, RowsFound(l, m, t, o, a, d, u), ~Exact,
         NEW k \in RollupPending(m), NEW totals, NEW hashed,
         NEW new, new = RollupRead(m, t, o, totals, hashed)[k]
  PROVE  Kept(l, new, k, a, u)
<1> DEFINE st == m[k]
<1>1. k \in DOMAIN m /\ ~st.loaded
  BY DEF RollupPending
<1>2. PICK f \in 1..a : BucketEntry(l, st, k, f, u)
  BY <1>1 DEF RowsFound, BucketMemory, Kept
<1> DEFINE S == PacketsOf(l, k, f, u)
           D == PacketsOf(l, k, 1, d)
           W == PacketsOf(l, k, 1, u)
<1>3. /\ l \in Seq(EventSet) /\ d \in Nat /\ u \in Nat /\ f \in Nat \ {0} /\ f <= d + 1
      /\ d <= u /\ u <= Len(l) /\ BucketRows(l, t, d) /\ Copies(l, o, PacketsAt(l, 1, d))
  BY DEF RowsFound
<1>4. /\ DOMAIN new = BucketFields
      /\ new.hashes = st.hashes \cup IF k \in hashed THEN HashesIn(o, k) ELSE {}
      /\ new.floorTS = st.floorTS
      /\ new.loaded = st.loaded /\ new.dirty = st.dirty
      /\ new.loaded \in BOOLEAN /\ new.dirty \in BOOLEAN
      /\ new.floor = IF k \in totals \cap DOMAIN t THEN Coalesce(st.floor, t[k].floor)
                     ELSE st.floor
      /\ Totals(l, new, IF k \in totals THEN W ELSE S, W)
  <2>1. (Exact => f = a) /\ BucketEntry(l, m[k], k, f, u)
    BY <1>2
  <2>2. QED
    BY <2>1, BucketRead
<1>5. /\ Floors(l, st.floor, k, f, u) /\ st.floorTS \in Nat /\ (st.floorTS # 0 => st.floor # None)
      /\ Collects(l, st.hashes, S, W)
  BY <1>2 DEF BucketEntry
<1>6. Floors(l, new.floor, k, f, u) /\ (st.floor # None => new.floor = st.floor)
  <2>1. CASE k \in totals
    <3>1. new.floor = IF k \in DOMAIN t THEN Coalesce(st.floor, t[k].floor) ELSE st.floor
      BY <1>4, <2>1
    <3>2. Floors(l, new.floor, k, 1, u) /\ (st.floor # None => new.floor = st.floor)
      BY <1>2, <1>5, <3>1, FloorRead
    <3>3. NoisesOf(l, k, f, u) \subseteq NoisesOf(l, k, 1, u)
      BY <1>3, BucketSplit
    <3>4. QED
      BY <3>2, <3>3 DEF Floors
  <2>2. CASE k \notin totals
    BY <1>4, <1>5, <2>2
  <2>3. QED
    BY <2>1, <2>2
<1>7. Collects(l, new.hashes, S, W)
  <2>1. HashesIn(o, k) \subseteq HashesAt(l, W) \ {None}
    <3>1. HashesIn(o, k) = HashesAt(l, D) \ {None}
      BY <1>3, HashesFound
    <3>2. D \subseteq W
      BY <1>3, BucketSplit
    <3>3. QED
      BY <3>1, <3>2 DEF HashesAt
  <2> HIDE DEF S, W
  <2>2. new.hashes \subseteq st.hashes \cup HashesIn(o, k) /\ st.hashes \subseteq new.hashes
    BY <1>4
  <2>3. QED
    BY <1>5, <2>1, <2>2 DEF Collects
<1>8. Totals(l, new, S, W)
  <2>1. W \in SUBSET PacketsAt(l, 1, Len(l)) /\ S \in SUBSET W
    BY <1>3, BucketSplit DEF PacketsOf, PacketsAt
  <2> HIDE DEF S, W
  <2>2. Totals(l, new, W, W) => Totals(l, new, S, W)
    BY <1>3, <2>1, TotalsFewer
  <2>3. QED
    BY <1>4, <2>2
<1> HIDE DEF st
<1>9. BucketEntry(l, new, k, f, u)
  <2>1. ~new.loaded
    BY <1>1, <1>4
  <2>2. QED
    BY <1>4, <1>5, <1>6, <1>7, <1>8, <2>1 DEF BucketEntry
<1>10. QED
  BY <1>9 DEF Kept

-----------------------------------------------------------------------------
(* Memory after a flush, or a part of one.                                  *)
LEMMA EntryCleared ==
  ASSUME NEW l, NEW st, NEW k, NEW f, NEW b, BucketEntry(l, st, k, f, b),
         NEW new, new = [st EXCEPT !.dirty = FALSE]
  PROVE  /\ BucketEntry(l, new, k, f, b)
         /\ new.loaded = st.loaded /\ new.floor = st.floor /\ ~new.dirty
<1>1. /\ DOMAIN st = BucketFields /\ st.loaded \in BOOLEAN
      /\ Totals(l, st, PacketsOf(l, k, f, b), PacketsOf(l, k, 1, b))
      /\ Collects(l, st.hashes, PacketsOf(l, k, f, b), PacketsOf(l, k, 1, b))
      /\ Floors(l, st.floor, k, f, b)
      /\ st.floorTS \in Nat /\ (st.floorTS # 0 => st.floor # None)
      /\ st.loaded => f = 1
  BY DEF BucketEntry
<1>2. /\ DOMAIN new = BucketFields /\ new.hashes = st.hashes
      /\ new.packets = st.packets /\ new.flood = st.flood /\ new.sum = st.sum
      /\ new.n = st.n /\ new.min = st.min /\ new.max = st.max
      /\ new.floor = st.floor /\ new.floorTS = st.floorTS
      /\ new.loaded = st.loaded /\ new.dirty \in BOOLEAN /\ ~new.dirty
  BY <1>1 DEF BucketFields
<1>3. Totals(l, new, PacketsOf(l, k, f, b), PacketsOf(l, k, 1, b))
  BY <1>1, <1>2 DEF Totals
<1>4. BucketEntry(l, new, k, f, b)
  BY <1>1, <1>2, <1>3 DEF BucketEntry
<1>5. QED
  BY <1>2, <1>4

(* What is marked is loaded after rehydrating, and everything is while      *)
(* counters are exact; what is not marked is as it was.                     *)
LEMMA RollupRehydrated ==
  ASSUME NEW l, NEW m, NEW t, NEW o, NEW a, NEW d, NEW u, RowsFound(l, m, t, o, a, d, u),
         NEW full, full = RollupRehydrate(m, t, o)
  PROVE  /\ DOMAIN full = DOMAIN m
         /\ \A k \in DOMAIN m : \E f \in 1..a : BucketEntry(l, full[k], k, f, u)
         /\ \A k \in DOMAIN m : Exact => full[k].loaded
         /\ \A k \in RollupDirty(m) : full[k].loaded
         /\ \A k \in DOMAIN m \ RollupDirty(m) : full[k] = m[k]
<1> DEFINE pending == RollupPending(m)
           read == RollupRead(m, t, o, pending, pending)
<1>1. 1 \in 1..a
  BY DEF RowsFound
<1>2. /\ DOMAIN full = DOMAIN m
      /\ \A k \in DOMAIN m : full[k] = IF k \in pending THEN [read[k] EXCEPT !.loaded = TRUE]
                                       ELSE m[k]
  BY DEF RollupRehydrate
<1>3. ASSUME NEW k \in pending PROVE BucketEntry(l, full[k], k, 1, u) /\ full[k].loaded
  <2> DEFINE new == [read[k] EXCEPT !.loaded = TRUE]
  <2>1. BucketEntry(l, new, k, 1, u) /\ new.loaded
    BY EntryLoaded
  <2>2. k \in DOMAIN m
    BY DEF RollupPending
  <2>3. full[k] = new
    BY <1>2, <2>2
  <2> HIDE DEF new
  <2>4. QED
    BY <2>1, <2>3
<1> HIDE DEF read
<1>4. ASSUME NEW k \in DOMAIN m, k \notin pending
      PROVE  /\ full[k] = m[k]
             /\ \E f \in 1..a : BucketEntry(l, full[k], k, f, u)
             /\ Exact => full[k].loaded
             /\ m[k].dirty => full[k].loaded
  <2>1. full[k] = m[k]
    BY <1>2, <1>4
  <2>2. PICK f \in 1..a : /\ BucketEntry(l, m[k], k, f, u)
                          /\ Exact => m[k].loaded \/ (f = a /\ m[k].dirty)
    BY DEF RowsFound, BucketMemory, Kept
  <2>3. m[k].dirty => m[k].loaded
    BY <1>4 DEF RollupPending
  <2>4. QED
    BY <2>1, <2>2, <2>3
<1>5. \A k \in pending : k \in RollupDirty(m)
  BY DEF RollupPending, RollupDirty
<1>6. ASSUME NEW k \in DOMAIN m
      PROVE  /\ \E f \in 1..a : BucketEntry(l, full[k], k, f, u)
             /\ Exact => full[k].loaded
             /\ k \in RollupDirty(m) => full[k].loaded
             /\ k \notin RollupDirty(m) => full[k] = m[k]
  <2>1. CASE k \in pending
    <3>1. BucketEntry(l, full[k], k, 1, u) /\ full[k].loaded
      BY <1>3, <2>1
    <3>2. QED
      BY <1>1, <1>5, <2>1, <3>1
  <2>2. CASE k \notin pending
    <3>1. k \in RollupDirty(m) => m[k].dirty
      BY DEF RollupDirty
    <3>2. QED
      BY <1>4, <2>2, <3>1
  <2>3. QED
    BY <2>1, <2>2
<1>7. RollupDirty(m) \subseteq DOMAIN m
  BY DEF RollupDirty
<1>8. QED
  BY <1>2, <1>6, <1>7

LEMMA RollupFlushes ==
  ASSUME NEW l, NEW m, NEW t, NEW o, NEW a, NEW d, NEW u, RowsFound(l, m, t, o, a, d, u)
  PROVE  /\ \A written : BucketMemory(l, RollupFlushMem(m, t, o, written), a, u)
         /\ ~Exact => \A left \in RollupInterrupted(m, t, o) : BucketMemory(l, left, a, u)
<1>1. \A i \in PacketsAt(l, a, u) \cup Noises(l, a, u) : KeyOf(l[i]) \in DOMAIN m
  BY DEF RowsFound, BucketMemory
<1>2. ASSUME NEW written PROVE BucketMemory(l, RollupFlushMem(m, t, o, written), a, u)
  <2> DEFINE full == RollupRehydrate(m, t, o)
             new == RollupFlushMem(m, t, o, written)
  <2>1. /\ DOMAIN new = DOMAIN m
        /\ \A k \in DOMAIN m : new[k] = IF k \in written THEN [full[k] EXCEPT !.dirty = FALSE]
                                        ELSE full[k]
    BY DEF RollupFlushMem
  <2> HIDE DEF full, new
  <2>2. ASSUME NEW k \in DOMAIN m PROVE Kept(l, new[k], k, a, u)
    <3> DEFINE st == full[k]
    <3>1. (\E f \in 1..a : BucketEntry(l, st, k, f, u)) /\ (Exact => st.loaded)
      BY RollupRehydrated DEF full
    <3>2. new[k] = IF k \in written THEN [st EXCEPT !.dirty = FALSE] ELSE st
      BY <2>1
    <3> HIDE DEF st
    <3>3. PICK f \in 1..a : BucketEntry(l, st, k, f, u)
      BY <3>1
    <3>4. CASE k \notin written
      BY <3>1, <3>2, <3>3, <3>4 DEF Kept
    <3>5. CASE k \in written
      <4>1. new[k] = [st EXCEPT !.dirty = FALSE]
        BY <3>2, <3>5
      <4>2. BucketEntry(l, new[k], k, f, u)
        BY <3>3, <4>1, EntryCleared
      <4>3. new[k].loaded = st.loaded
        BY <3>3, <4>1, EntryCleared
      <4>4. Exact => new[k].loaded
        BY <3>1, <4>3
      <4>5. QED
        BY <4>2, <4>4 DEF Kept
    <3>6. QED
      BY <3>4, <3>5
  <2>3. BucketMemory(l, new, a, u)
    BY <1>1, <2>1, <2>2 DEF BucketMemory
  <2>4. QED
    BY <2>3 DEF new
<1>3. ASSUME ~Exact, NEW totals \in SUBSET RollupPending(m), NEW hashed \in SUBSET RollupPending(m)
      PROVE  BucketMemory(l, RollupRead(m, t, o, totals, hashed), a, u)
  <2> DEFINE new == RollupRead(m, t, o, totals, hashed)
  <2>1. DOMAIN new = DOMAIN m
    BY DEF RollupRead
  <2>2. ASSUME NEW k \in RollupPending(m) PROVE Kept(l, new[k], k, a, u)
    BY <1>3, EntryInterrupted
  <2>3. ASSUME NEW k \in DOMAIN m, k \notin RollupPending(m) PROVE Kept(l, new[k], k, a, u)
    <3>1. new[k] = m[k]
      BY <2>3 DEF RollupRead
    <3>2. Kept(l, m[k], k, a, u)
      BY DEF RowsFound, BucketMemory
    <3>3. QED
      BY <3>1, <3>2
  <2> HIDE DEF new
  <2>4. BucketMemory(l, new, a, u)
    BY <1>1, <2>1, <2>2, <2>3 DEF BucketMemory
  <2>5. QED
    BY <2>4 DEF new
<1>4. QED
  BY <1>2, <1>3 DEF RollupInterrupted

(* The row that a bucket read back in full is written to.                   *)
LEMMA RowWritten ==
  ASSUME NEW l \in Seq(EventSet), NEW t, NEW k, NEW u \in Nat, u <= Len(l),
         NEW acc, BucketEntry(l, acc, k, 1, u),
         k \in DOMAIN t => \/ t[k].floor = None
                           \/ \E i \in NoisesOf(l, k, 1, u) : t[k].floor = l[i].floor
  PROVE  /\ BucketRow(l, RollupUpsert(t, k, acc), k, u)
         /\ acc.floor # None => RollupUpsert(t, k, acc).floor # None
<1> DEFINE row == RollupUpsert(t, k, acc)
           W == PacketsOf(l, k, 1, u)
           lower == HashesAt(l, W) \ {None, Blank}
           upper == HashesAt(l, W) \ {None}
<1>1. /\ Totals(l, acc, W, W) /\ Collects(l, acc.hashes, W, W) /\ Floors(l, acc.floor, k, 1, u)
  BY DEF BucketEntry
<1>2. /\ row.packets = acc.packets /\ row.flood = acc.flood
      /\ row.unique = Cardinality(acc.hashes) /\ row.avg = StoredAvg(acc.sum, acc.n)
      /\ row.min = acc.min /\ row.max = acc.max
      /\ row.floor = IF k \in DOMAIN t THEN Coalesce(acc.floor, t[k].floor) ELSE acc.floor
  BY DEF RollupUpsert
<1>3. IsFiniteSet(W)
  <2>1. W \in SUBSET PacketsAt(l, 1, Len(l))
    BY DEF PacketsOf, PacketsAt
  <2>2. QED
    BY <2>1, PositionsFinite
<1> HIDE DEF row, W
<1>4. IsFiniteSet(HashesAt(l, W))
  <2> DEFINE g == [i \in W |-> l[i].hash]
  <2>1. g \in Surjection(W, HashesAt(l, W))
    BY DEF Surjection, HashesAt
  <2> HIDE DEF g
  <2>2. QED
    BY <1>3, <2>1, FS_Surjection
<1>5. Cardinality(lower) <= row.unique /\ row.unique <= Cardinality(upper)
  <2>1. /\ lower \in SUBSET acc.hashes
        /\ acc.hashes \in SUBSET upper
        /\ upper \in SUBSET HashesAt(l, W)
    BY <1>1 DEF Collects
  <2> HIDE DEF lower, upper
  <2>2. IsFiniteSet(upper)
    BY <1>4, <2>1, FS_Subset
  <2>3. IsFiniteSet(acc.hashes) /\ Cardinality(acc.hashes) <= Cardinality(upper)
    BY <2>1, <2>2, FS_Subset
  <2>4. Cardinality(lower) <= Cardinality(acc.hashes)
    BY <2>1, <2>3, FS_Subset
  <2>5. QED
    BY <1>2, <2>3, <2>4
<1>6. Averages(row.packets, row.avg, row.min, row.max)
  <2>1. acc.packets \in Nat /\ Weighs(acc.packets, acc.sum, acc.n, acc.min, acc.max)
    BY <1>1 DEF Totals, Counts
  <2>2. QED
    BY <1>2, <2>1, WeighsStored
<1>7. Floors(l, row.floor, k, 1, u) /\ (acc.floor # None => row.floor # None)
  BY <1>1, <1>2 DEF Floors, Coalesce
<1>8. BucketRow(l, row, k, u)
  BY <1>1, <1>2, <1>5, <1>6, <1>7 DEF BucketRow, Totals, W
<1>9. QED
  BY <1>7, <1>8 DEF row

(* After a flush the rows are those of the log up to u, and nothing is left *)
(* to be written.                                                           *)
LEMMA RollupFlushed ==
  ASSUME NEW l, NEW m, NEW t, NEW o, NEW a, NEW d, NEW u, RowsFound(l, m, t, o, a, d, u),
         Marked(l, m, a, u)
  PROVE  /\ BucketRows(l, RollupFlushTable(m, t, o), u)
         /\ Written(RollupFlushMem(m, t, o, RollupDirty(m)), RollupFlushTable(m, t, o))
<1> DEFINE full == RollupRehydrate(m, t, o)
           rows == RollupFlushTable(m, t, o)
           dirty == RollupDirty(m)
<1>1. /\ l \in Seq(EventSet) /\ a \in Nat \ {0} /\ d \in Nat /\ u \in Nat
      /\ a <= d + 1 /\ d <= u /\ u <= Len(l)
      /\ BucketMemory(l, m, a, u) /\ BucketRows(l, t, d) /\ Noticed(m, t)
  BY DEF RowsFound
<1>2. /\ DOMAIN rows = DOMAIN t \cup dirty
      /\ \A k \in dirty : rows[k] = RollupUpsert(t, k, full[k])
      /\ \A k \in DOMAIN t \ dirty : rows[k] = t[k]
      /\ dirty \subseteq DOMAIN m
      /\ \A k \in DOMAIN m : m[k].dirty <=> k \in dirty
  BY DEF RollupFlushTable, RollupDirty
<1>3. /\ \A k \in dirty : \E f \in 1..a : BucketEntry(l, full[k], k, f, u)
      /\ \A k \in dirty : full[k].loaded
      /\ \A k \in DOMAIN m \ dirty : full[k] = m[k]
  BY <1>2, RollupRehydrated
<1> HIDE DEF full, rows, dirty
<1>4. \A i : i \in 1..u <=> i \in 1..d \/ i \in a..u
  BY <1>1
<1>5. ASSUME NEW k, k \notin dirty
      PROVE  PacketsOf(l, k, 1, u) = PacketsOf(l, k, 1, d)
  <2>1. ASSUME NEW i \in a..u, IsPacket(l[i]), KeyOf(l[i]) = k PROVE FALSE
    <3>1. i \in PacketsAt(l, a, u)
      BY <2>1 DEF PacketsAt
    <3>2. KeyOf(l[i]) \in DOMAIN m /\ m[KeyOf(l[i])].dirty
      BY <3>1 DEF Marked
    <3>3. QED
      BY <1>2, <1>5, <2>1, <3>2
  <2>2. QED
    BY <1>4, <2>1 DEF PacketsOf
(* A noise floor that memory has from this stretch is in a row already.     *)
<1>6. ASSUME NoFail, NEW i \in Noises(l, a, u), KeyOf(l[i]) \notin dirty
      PROVE  HasFloor(t, KeyOf(l[i]))
  <2> DEFINE k == KeyOf(l[i])
  <2>1. k \in DOMAIN m
    BY <1>1 DEF BucketMemory
  <2>2. PICK f \in 1..a : BucketEntry(l, m[k], k, f, u)
    BY <1>1, <2>1 DEF BucketMemory, Kept
  <2>3. i \in f..u
    BY <1>1, <2>2 DEF Noises
  <2>4. i \in NoisesOf(l, k, f, u)
    BY <2>3 DEF Noises, NoisesOf
  <2>5. Floors(l, m[k].floor, k, f, u)
    BY <2>2 DEF BucketEntry
  <2>6. m[k].floor # None
    BY <1>6, <2>4, <2>5 DEF Floors
  <2>7. QED
    BY <1>1, <1>2, <1>6, <2>1, <2>6 DEF Noticed
<1>7. ASSUME NEW k \in DOMAIN t
      PROVE  \/ t[k].floor = None
             \/ \E i \in NoisesOf(l, k, 1, u) : t[k].floor = l[i].floor
  <2>1. Floors(l, t[k].floor, k, 1, d)
    BY <1>1 DEF BucketRows, BucketRow
  <2>2. NoisesOf(l, k, 1, d) \subseteq NoisesOf(l, k, 1, u)
    BY <1>4 DEF NoisesOf, Noises
  <2>3. QED
    BY <2>1, <2>2 DEF Floors
<1>8. ASSUME NEW k \in dirty
      PROVE  /\ BucketRow(l, rows[k], k, u)
             /\ full[k].floor # None => rows[k].floor # None
  <2> DEFINE acc == full[k]
  <2>1. PICK f \in 1..a : BucketEntry(l, acc, k, f, u)
    BY <1>3
  <2>2. f = 1
    BY <1>3, <2>1 DEF BucketEntry
  <2>3. BucketEntry(l, acc, k, 1, u)
    BY <2>1, <2>2
  <2>4. rows[k] = RollupUpsert(t, k, acc)
    BY <1>2
  <2> HIDE DEF acc
  <2>5. k \in DOMAIN t => \/ t[k].floor = None
                          \/ \E i \in NoisesOf(l, k, 1, u) : t[k].floor = l[i].floor
    BY <1>7
  <2>6. /\ BucketRow(l, RollupUpsert(t, k, acc), k, u)
        /\ acc.floor # None => RollupUpsert(t, k, acc).floor # None
    BY <1>1, <2>3, <2>5, RowWritten
  <2>7. QED
    BY <2>4, <2>6 DEF acc
<1>9. ASSUME NEW k \in DOMAIN t, k \notin dirty PROVE BucketRow(l, rows[k], k, u)
  <2>1. rows[k] = t[k] /\ BucketRow(l, t[k], k, d)
    BY <1>1, <1>2, <1>9 DEF BucketRows
  <2>2. PacketsOf(l, k, 1, u) = PacketsOf(l, k, 1, d)
    BY <1>5, <1>9
  <2>3. Floors(l, t[k].floor, k, 1, u)
    <3>1. ASSUME NoFail, NEW i \in NoisesOf(l, k, 1, u) PROVE t[k].floor # None
      <4>1. CASE i \in 1..d
        <5>1. i \in NoisesOf(l, k, 1, d)
          BY <4>1 DEF NoisesOf, Noises
        <5>2. QED
          BY <2>1, <3>1, <5>1 DEF BucketRow, Floors
      <4>2. CASE i \in a..u
        <5>1. i \in Noises(l, a, u) /\ KeyOf(l[i]) = k
          BY <4>2 DEF NoisesOf, Noises
        <5>2. HasFloor(t, k)
          BY <1>6, <1>9, <3>1, <5>1
        <5>3. QED
          BY <5>2 DEF HasFloor
      <4>3. QED
        BY <1>4, <4>1, <4>2 DEF NoisesOf, Noises
    <3>2. QED
      BY <1>7, <3>1 DEF Floors
  <2>4. QED
    BY <2>1, <2>2, <2>3 DEF BucketRow
<1>10. ASSUME NEW i \in PacketsAt(l, 1, u) PROVE KeyOf(l[i]) \in DOMAIN rows
  <2>1. CASE i \in 1..d
    <3>1. i \in PacketsAt(l, 1, d)
      BY <2>1 DEF PacketsAt
    <3>2. QED
      BY <1>1, <1>2, <3>1 DEF BucketRows
  <2>2. CASE i \in a..u
    <3>1. i \in PacketsAt(l, a, u)
      BY <2>2 DEF PacketsAt
    <3>2. QED
      BY <1>2, <3>1 DEF Marked
  <2>3. QED
    BY <1>4, <2>1, <2>2 DEF PacketsAt
<1>11. ASSUME NoFail, NEW i \in Noises(l, 1, u) PROVE KeyOf(l[i]) \in DOMAIN rows
  <2>1. CASE i \in 1..d
    <3>1. i \in Noises(l, 1, d)
      BY <2>1 DEF Noises
    <3>2. QED
      BY <1>1, <1>2, <1>11, <3>1 DEF BucketRows
  <2>2. CASE i \in a..u
    <3>1. i \in Noises(l, a, u)
      BY <2>2 DEF Noises
    <3>2. QED
      BY <1>2, <1>6, <1>11, <3>1 DEF HasFloor
  <2>3. QED
    BY <1>4, <2>1, <2>2 DEF Noises
<1>12. BucketRows(l, rows, u)
  BY <1>2, <1>8, <1>9, <1>10, <1>11 DEF BucketRows
<1> DEFINE left == RollupFlushMem(m, t, o, dirty)
<1>13. /\ DOMAIN left = DOMAIN m
       /\ \A k \in dirty : left[k] = [full[k] EXCEPT !.dirty = FALSE]
       /\ \A k \in DOMAIN m \ dirty : left[k] = full[k]
  BY <1>2 DEF RollupFlushMem, full
<1> HIDE DEF left
<1>14. ASSUME NEW k \in dirty
       PROVE  ~left[k].dirty /\ left[k].floor = full[k].floor
  <2> DEFINE acc == full[k]
  <2>1. PICK f \in 1..a : BucketEntry(l, acc, k, f, u)
    BY <1>3
  <2>2. left[k] = [acc EXCEPT !.dirty = FALSE]
    BY <1>13
  <2> HIDE DEF acc
  <2>3. ~left[k].dirty
    BY <2>1, <2>2, EntryCleared
  <2>4. left[k].floor = acc.floor
    BY <2>1, <2>2, EntryCleared
  <2>5. QED
    BY <2>3, <2>4 DEF acc
<1>15. ASSUME NEW k \in DOMAIN m, k \notin dirty
       PROVE  ~left[k].dirty /\ (NoFail /\ left[k].floor # None => HasFloor(rows, k))
  <2>1. left[k] = m[k] /\ ~m[k].dirty
    BY <1>2, <1>3, <1>13, <1>15
  <2>2. HasFloor(t, k) => HasFloor(rows, k)
    BY <1>2, <1>15 DEF HasFloor
  <2>3. QED
    BY <1>1, <2>1, <2>2 DEF Noticed
<1>16. ASSUME NEW k \in dirty, left[k].floor # None PROVE HasFloor(rows, k)
  BY <1>2, <1>8, <1>14, <1>16 DEF HasFloor
<1>17. Written(left, rows)
  BY <1>13, <1>14, <1>15, <1>16 DEF Written
<1>18. QED
  BY <1>12, <1>17 DEF left, rows, dirty

(* The next batch starts behind this one; evicting takes whole buckets and  *)
(* drops marks.                                                             *)
LEMMA RollupMoves ==
  ASSUME NEW l, NEW m, NEW a \in Nat \ {0}, NEW b \in Nat, a <= b + 1, BucketMemory(l, m, a, b),
         NEW t, Written(m, t)
  PROVE  /\ BucketMemory(l, m, b + 1, b)
         /\ \A time : BucketMemory(l, RollupEvict(m, time), b + 1, b)
         /\ \A time : Written(RollupEvict(m, time), t)
<1>1. ASSUME NEW k \in DOMAIN m
      PROVE  \E f \in 1..(b + 1) : BucketEntry(l, m[k], k, f, b) /\ (Exact => m[k].loaded)
  <2>1. PICK f \in 1..a : /\ BucketEntry(l, m[k], k, f, b)
                          /\ Exact => m[k].loaded \/ (f = a /\ m[k].dirty)
    BY DEF BucketMemory, Kept
  <2>2. f \in 1..(b + 1)
    OBVIOUS
  <2>3. Exact => ~m[k].dirty
    BY DEF Written
  <2>4. QED
    BY <2>1, <2>2, <2>3
<1>2. PacketsAt(l, b + 1, b) = {} /\ Noises(l, b + 1, b) = {}
  BY DEF PacketsAt, Noises
<1>3. BucketMemory(l, m, b + 1, b)
  BY <1>1, <1>2 DEF BucketMemory, Kept
<1>4. ASSUME NEW time
      PROVE  BucketMemory(l, RollupEvict(m, time), b + 1, b) /\ Written(RollupEvict(m, time), t)
  <2> DEFINE new == RollupEvict(m, time)
  <2>1. /\ DOMAIN new \subseteq DOMAIN m
        /\ \A k \in DOMAIN new : new[k] = [m[k] EXCEPT !.dirty = FALSE]
    BY DEF RollupEvict, Keeping
  <2> HIDE DEF new
  <2>2. ASSUME NEW k \in DOMAIN new
        PROVE  Kept(l, new[k], k, b + 1, b) /\ new[k].floor = m[k].floor /\ ~new[k].dirty
    <3> DEFINE st == m[k]
    <3>1. PICK f \in 1..(b + 1) : BucketEntry(l, st, k, f, b) /\ (Exact => st.loaded)
      BY <1>1, <2>1
    <3>2. new[k] = [st EXCEPT !.dirty = FALSE]
      BY <2>1
    <3> HIDE DEF st
    <3>3. BucketEntry(l, new[k], k, f, b)
      BY <3>1, <3>2, EntryCleared
    <3>4. new[k].loaded = st.loaded
      BY <3>1, <3>2, EntryCleared
    <3>5. new[k].floor = st.floor
      BY <3>1, <3>2, EntryCleared
    <3>6. ~new[k].dirty
      BY <3>1, <3>2, EntryCleared
    <3>7. Exact => new[k].loaded
      BY <3>1, <3>4
    <3>8. Kept(l, new[k], k, b + 1, b)
      BY <3>3, <3>7 DEF Kept
    <3>9. QED
      BY <3>5, <3>6, <3>8 DEF st
  <2>3. BucketMemory(l, new, b + 1, b)
    BY <1>2, <2>2 DEF BucketMemory
  <2>4. Written(new, t)
    BY <2>1, <2>2 DEF Written
  <2>5. QED
    BY <2>3, <2>4 DEF new
<1>5. QED
  BY <1>3, <1>4

(* All this is said of a part of the log that is only ever added to. *)
LEMMA RollupKept ==
  ASSUME NEW l, NEW l2, NEW b \in Nat, \A i \in 1..b : l2[i] = l[i]
  PROVE  /\ \A m : \A a \in Nat \ {0} : BucketMemory(l, m, a, b) => BucketMemory(l2, m, a, b)
         /\ \A m : \A a \in Nat \ {0} : \A at \in 0..b : Marked(l, m, a, at) => Marked(l2, m, a, at)
         /\ \A t : BucketRows(l, t, b) => BucketRows(l2, t, b)
<1>1. ASSUME NEW a \in Nat \ {0}, NEW at \in 0..b
      PROVE  /\ PacketsAt(l2, a, at) = PacketsAt(l, a, at) /\ Noises(l2, a, at) = Noises(l, a, at)
             /\ \A k : PacketsOf(l2, k, a, at) = PacketsOf(l, k, a, at)
             /\ \A k : NoisesOf(l2, k, a, at) = NoisesOf(l, k, a, at)
             /\ \A i \in PacketsAt(l, a, at) \cup Noises(l, a, at) : l2[i] = l[i]
  <2>1. \A i \in a..at : l2[i] = l[i]
    OBVIOUS
  <2>2. PacketsAt(l2, a, at) = PacketsAt(l, a, at) /\ Noises(l2, a, at) = Noises(l, a, at)
    BY <2>1 DEF PacketsAt, Noises
  <2>3. \A i \in PacketsAt(l, a, at) \cup Noises(l, a, at) : l2[i] = l[i]
    BY <2>1 DEF PacketsAt, Noises
  <2>4. \A k : PacketsOf(l2, k, a, at) = PacketsOf(l, k, a, at)
    BY <2>1 DEF PacketsOf
  <2>5. \A k : NoisesOf(l2, k, a, at) = NoisesOf(l, k, a, at)
    BY <2>2, <2>3 DEF NoisesOf
  <2>6. QED
    BY <2>2, <2>3, <2>4, <2>5
<1>2. ASSUME NEW k, NEW f \in Nat \ {0}, NEW S \in SUBSET PacketsOf(l, k, f, b)
      PROVE  /\ FloodIn(l2, S) = FloodIn(l, S) /\ HeardIn(l2, S) = HeardIn(l, S)
             /\ HashesAt(l2, S) = HashesAt(l, S) /\ \A i \in S : l2[i] = l[i]
  <2>1. \A i \in S : l2[i] = l[i]
    BY DEF PacketsOf
  <2>2. QED
    BY <2>1 DEF FloodIn, HeardIn, HashesAt
<1>3. ASSUME NEW k, NEW f \in Nat \ {0}
      PROVE  /\ \A st : Totals(l, st, PacketsOf(l, k, f, b), PacketsOf(l, k, 1, b)) =>
                        Totals(l2, st, PacketsOf(l2, k, f, b), PacketsOf(l2, k, 1, b))
             /\ \A H : Collects(l, H, PacketsOf(l, k, f, b), PacketsOf(l, k, 1, b)) =>
                       Collects(l2, H, PacketsOf(l2, k, f, b), PacketsOf(l2, k, 1, b))
             /\ \A v : Floors(l, v, k, f, b) => Floors(l2, v, k, f, b)
             /\ PacketsOf(l2, k, f, b) = PacketsOf(l, k, f, b)
             /\ FloodIn(l2, PacketsOf(l, k, f, b)) = FloodIn(l, PacketsOf(l, k, f, b))
             /\ HashesAt(l2, PacketsOf(l, k, f, b)) = HashesAt(l, PacketsOf(l, k, f, b))
             /\ \A v : Least(l, v, PacketsOf(l, k, f, b), PacketsOf(l, k, f, b)) =>
                       Least(l2, v, PacketsOf(l, k, f, b), PacketsOf(l, k, f, b))
             /\ \A v : Greatest(l, v, PacketsOf(l, k, f, b), PacketsOf(l, k, f, b)) =>
                       Greatest(l2, v, PacketsOf(l, k, f, b), PacketsOf(l, k, f, b))
  <2> DEFINE S == PacketsOf(l, k, f, b)
             W == PacketsOf(l, k, 1, b)
  <2>1. /\ PacketsOf(l2, k, f, b) = S /\ PacketsOf(l2, k, 1, b) = W
        /\ NoisesOf(l2, k, f, b) = NoisesOf(l, k, f, b)
        /\ NoisesOf(l2, k, 1, b) = NoisesOf(l, k, 1, b)
    <3>1. b \in 0..b /\ 1 \in Nat \ {0}
      OBVIOUS
    <3>2. QED
      BY <1>1, <3>1
  <2>2. /\ FloodIn(l2, S) = FloodIn(l, S) /\ HeardIn(l2, S) = HeardIn(l, S)
        /\ HashesAt(l2, S) = HashesAt(l, S) /\ \A i \in S : l2[i] = l[i]
    BY <1>2
  <2>3. /\ HeardIn(l2, W) = HeardIn(l, W) /\ HashesAt(l2, W) = HashesAt(l, W)
        /\ \A i \in W : l2[i] = l[i]
    BY <1>2
  <2>4. \A i \in NoisesOf(l, k, 1, b) : l2[i] = l[i]
    BY DEF NoisesOf, Noises
  <2> HIDE DEF S, W
  <2>5. ASSUME NEW v, NEW V, V = S \/ V = W, Least(l, v, S, V) PROVE Least(l2, v, S, V)
    BY <2>2, <2>3, <2>5 DEF Least, HeardIn
  <2>6. ASSUME NEW v, NEW V, V = S \/ V = W, Greatest(l, v, S, V) PROVE Greatest(l2, v, S, V)
    BY <2>2, <2>3, <2>6 DEF Greatest, HeardIn
  <2>7. \A st : Totals(l, st, S, W) => Totals(l2, st, S, W)
    BY <2>2, <2>5, <2>6 DEF Totals
  <2>8. \A H : Collects(l, H, S, W) => Collects(l2, H, S, W)
    BY <2>2, <2>3 DEF Collects
  <2>9. \A v : Floors(l, v, k, f, b) => Floors(l2, v, k, f, b)
    BY <2>1, <2>4 DEF Floors
  <2>10. QED
    BY <2>1, <2>2, <2>5, <2>6, <2>7, <2>8, <2>9 DEF S, W
<1>4. ASSUME NEW m, NEW a \in Nat \ {0}, BucketMemory(l, m, a, b) PROVE BucketMemory(l2, m, a, b)
  <2>1. ASSUME NEW k \in DOMAIN m PROVE Kept(l2, m[k], k, a, b)
    <3>1. PICK f \in 1..a : /\ BucketEntry(l, m[k], k, f, b)
                            /\ Exact => m[k].loaded \/ (f = a /\ m[k].dirty)
      BY <1>4 DEF BucketMemory, Kept
    <3>2. f \in Nat \ {0}
      OBVIOUS
    <3>3. BucketEntry(l2, m[k], k, f, b)
      BY <1>3, <3>1, <3>2 DEF BucketEntry
    <3>4. QED
      BY <3>1, <3>3 DEF Kept
  <2>2. b \in 0..b
    OBVIOUS
  <2>3. /\ PacketsAt(l2, a, b) = PacketsAt(l, a, b) /\ Noises(l2, a, b) = Noises(l, a, b)
        /\ \A i \in PacketsAt(l, a, b) \cup Noises(l, a, b) : l2[i] = l[i]
    BY <1>1, <2>2
  <2>4. QED
    BY <1>4, <2>1, <2>3 DEF BucketMemory
<1>5. ASSUME NEW m, NEW a \in Nat \ {0}, NEW at \in 0..b, Marked(l, m, a, at)
      PROVE  Marked(l2, m, a, at)
  BY <1>1, <1>5 DEF Marked
<1>6. ASSUME NEW t, BucketRows(l, t, b) PROVE BucketRows(l2, t, b)
  <2>1. 1 \in Nat \ {0} /\ b \in 0..b
    OBVIOUS
  <2>2. ASSUME NEW k \in DOMAIN t PROVE BucketRow(l2, t[k], k, b)
    <3>1. BucketRow(l, t[k], k, b)
      BY <1>6 DEF BucketRows
    <3>2. QED
      BY <1>3, <2>1, <3>1 DEF BucketRow
  <2>3. /\ PacketsAt(l2, 1, b) = PacketsAt(l, 1, b) /\ Noises(l2, 1, b) = Noises(l, 1, b)
        /\ \A i \in PacketsAt(l, 1, b) \cup Noises(l, 1, b) : l2[i] = l[i]
    BY <1>1, <2>1
  <2>4. QED
    BY <1>6, <2>2, <2>3 DEF BucketRows
<1>7. QED
  BY <1>4, <1>5, <1>6

-----------------------------------------------------------------------------
(* While every batch is committed and known to be, the cursors agree but    *)
(* between the commit and the settling, and memory was given each event     *)
(* once.                                                                    *)
InStep == Exact /\ ppc \in {"idle", "apply", "flush"} => dbCursor = cursor
Once(r) ==
    Exact => /\ ppc = "idle" => r = cursor
             /\ ppc = "apply" => r = pos - 1

RollupInv ==
    /\ InStep
    /\ \E r : /\ Reached(r) /\ Once(r)
              /\ BucketMemory(log, mem["rollup_observer"], cursor + 1, r)
              /\ ppc \in {"apply", "flush"} =>
                    \/ ppc = "flush" /\ Flushed("rollup_observer")
                    \/ Marked(log, mem["rollup_observer"], cursor + 1, Pass(r))
    /\ BucketRows(log, tables["rollup_observer"], dbCursor)
    /\ ppc = "flush" /\ Flushed("rollup_observer") =>
          /\ BucketRows(log, tx["rollup_observer"], upto)
          /\ Written(mem["rollup_observer"], tx["rollup_observer"])
    /\ ~(ppc = "flush" /\ Flushed("rollup_observer")) =>
          Noticed(mem["rollup_observer"], tables["rollup_observer"])
    /\ ppc = "settle" => Written(mem["rollup_observer"], tables["rollup_observer"])

(* What the steps of the loop do to its place and the cursors.              *)
LEMMA LoopMoves ==
  ASSUME Loop, [Next]_vars
  PROVE  /\ InStep => InStep'
         /\ Exact /\ ppc' = "idle" => \/ ppc = "idle" /\ cursor' = cursor
                                      \/ ppc = "down"
                                      \/ ppc = "settle" /\ cursor' = upto
         /\ ppc' = "apply" => \/ ppc = "idle" /\ pos' = cursor + 1 /\ cursor' = cursor
                              \/ ppc = "apply" /\ pos' \in {pos, pos + 1}
         /\ ppc = "flush" /\ ppc' \notin {"flush", "settle"} =>
              \/ "fail" \in Faults
              \/ turn > Len(Stages) /\ tables' = tx
              \/ ppc' = "down" /\ mem' = [s \in StageSet |-> EmptyMemory(s)]
<1> USE DEF InStep, loopVars
<1>1. CASE UNCHANGED vars
  BY <1>1 DEF vars
<1>2. CASE \E e \in EventSet : LogGrows(e)
  BY <1>2 DEF LogGrows
<1>3. CASE Start \/ Reset
  BY <1>3 DEF Start, Reset, Loop
<1>4. CASE Fetch
  BY <1>4 DEF Fetch
<1>5. CASE ApplyEvent \/ Begin \/ FlushStage
  BY <1>5 DEF ApplyEvent, Begin, FlushStage
<1>6. CASE Commit
  BY <1>6 DEF Commit, CommitTables
<1>7. CASE Settle
  BY <1>7 DEF Settle, EndBatch, Loop
<1>8. CASE BeginFails \/ FlushFails \/ CommitFails
  BY <1>8 DEF BeginFails, FlushFails, CommitFails, Abandon, Fault, EndBatch, Exact
<1>9. CASE CommitUnacked
  BY <1>9 DEF CommitUnacked, CommitTables, Fault, EndBatch, Exact
<1>10. CASE Crash
  BY <1>10 DEF Crash, EndBatch
<1>11. QED
  BY <1>1, <1>2, <1>3, <1>4, <1>5, <1>6, <1>7, <1>8, <1>9, <1>10 DEF Next, ProcessBatch

(* Nothing is left to be written of memory that is empty; what was written  *)
(* is in the rows.                                                          *)
LEMMA RollupEmpty ==
  ASSUME NEW l, NEW c \in Nat
  PROVE  /\ BucketMemory(l, EmptyMap, c + 1, c)
         /\ \A t : Noticed(EmptyMap, t)
         /\ BucketRows(l, EmptyMap, 0)
<1>1. PacketsAt(l, c + 1, c) = {} /\ Noises(l, c + 1, c) = {}
  BY DEF PacketsAt, Noises
<1>2. PacketsAt(l, 1, 0) = {} /\ Noises(l, 1, 0) = {}
  BY DEF PacketsAt, Noises
<1>3. QED
  BY <1>1, <1>2 DEF BucketMemory, Noticed, BucketRows, EmptyMap

LEMMA WrittenNoticed ==
  ASSUME NEW m, NEW t, Written(m, t)
  PROVE  Noticed(m, t)
  BY DEF Written, Noticed

LEMMA RollupInit ==
  ASSUME "rollup_observer" \in StageSet, Init
  PROVE  RollupInv
<1> DEFINE s == "rollup_observer"
<1>1. /\ mem[s] = EmptyMap /\ tables[s] = EmptyMap
      /\ cursor = 0 /\ dbCursor = 0 /\ ppc = "down" /\ log = <<>>
  BY DEF Init, EmptyMemory, EmptyTable
<1>2. Reached(0) /\ Once(0) /\ InStep
  BY <1>1 DEF Reached, Once, InStep
<1>3. /\ BucketMemory(log, mem[s], 0 + 1, 0)
      /\ Noticed(mem[s], tables[s])
      /\ BucketRows(log, tables[s], 0)
  BY <1>1, RollupEmpty
<1>4. QED
  BY <1>1, <1>2, <1>3 DEF RollupInv

(* In its turn the stage finds packet_observations as it was committed: the *)
(* stage that adds to it comes later.                                       *)
LEMMA RollupFound ==
  ASSUME Loop, Batch, ShareInv("packet_observations"), InTurn("rollup_observer"), InStep,
         NEW r, Reached(r),
         BucketMemory(log, mem["rollup_observer"], cursor + 1, r),
         BucketRows(log, tables["rollup_observer"], dbCursor),
         Noticed(mem["rollup_observer"], tables["rollup_observer"])
  PROVE  RowsFound(log, mem["rollup_observer"], tx["rollup_observer"], tx["packet_observations"],
                   cursor + 1, dbCursor, r)
<1>1. ppc = "flush" /\ tx["rollup_observer"] = tables["rollup_observer"]
  BY DEF InTurn
<1>2. ASSUME NEW i \in DOMAIN Stages, i < turn, Stages[i] = "packet_observations" PROVE FALSE
  <2>1. turn \in DOMAIN Stages /\ Stages[turn] = "rollup_observer"
    BY DEF InTurn
  <2>2. StageOrder[Stages[i]] < StageOrder[Stages[turn]]
    BY <1>2, <2>1
  <2>3. StageOrder["packet_observations"] = 8 /\ StageOrder["rollup_observer"] = 5
    BY DEF StageOrder
  <2>4. QED
    BY <1>2, <2>1, <2>2, <2>3
<1>3. tx["packet_observations"] = tables["packet_observations"]
  <2>1. ~Flushed("packet_observations")
    BY <1>2 DEF Flushed
  <2>2. QED
    BY <1>1, <2>1, Listed DEF Batch
<1>4. Copies(log, tx["packet_observations"], PacketsAt(log, 1, dbCursor))
  BY <1>3 DEF ShareInv, TableSays
<1>5. /\ log \in Seq(EventSet) /\ cursor + 1 \in Nat \ {0} /\ dbCursor \in Nat /\ r \in Nat
      /\ cursor + 1 <= dbCursor + 1 /\ dbCursor <= r /\ r <= Len(log)
      /\ Exact => cursor + 1 = dbCursor + 1
  BY <1>1 DEF Loop, Reached, InStep
<1>6. QED
  BY <1>1, <1>4, <1>5 DEF RowsFound

LEMMA RollupStep ==
  ASSUME Loop, Batch, [Next]_vars, "rollup_observer" \in StageSet,
         ShareInv("packet_observations"), RollupInv
  PROVE  RollupInv'
<1> DEFINE s == "rollup_observer"
<1>1. PICK r : /\ Reached(r) /\ Once(r)
               /\ BucketMemory(log, mem[s], cursor + 1, r)
               /\ ppc \in {"apply", "flush"} =>
                     \/ ppc = "flush" /\ Flushed(s)
                     \/ Marked(log, mem[s], cursor + 1, Pass(r))
  BY DEF RollupInv
<1>2. /\ InStep
      /\ BucketRows(log, tables[s], dbCursor)
      /\ ppc = "flush" /\ Flushed(s) => BucketRows(log, tx[s], upto) /\ Written(mem[s], tx[s])
      /\ ~(ppc = "flush" /\ Flushed(s)) => Noticed(mem[s], tables[s])
      /\ ppc = "settle" => Written(mem[s], tables[s])
  BY DEF RollupInv
<1>3. /\ log \in Seq(EventSet) /\ Len(log) \in Nat
      /\ cursor \in Nat /\ dbCursor \in Nat /\ upto \in Nat /\ cursor + 1 \in Nat \ {0}
      /\ cursor <= dbCursor /\ dbCursor <= Len(log)
      /\ r \in Nat /\ cursor <= r /\ r <= Len(log)
      /\ ppc = "flush" => dbCursor <= upto /\ upto <= Len(log) /\ r = upto
  BY <1>1 DEF Loop, Reached
<1>4. Pass(r) \in 0..r
  BY <1>1, <1>3 DEF Pass, Reached, Batch
<1>5. ASSUME NEW t, NEW b \in Nat, b <= Len(log), BucketRows(log, t, b)
      PROVE  BucketRows(log', t, b)
  <2>1. \A i \in 1..b : log'[i] = log[i]
    BY <1>3, <1>5, LogKept
  <2>2. QED
    BY <1>5, <2>1, RollupKept
<1>6. InStep'
  BY <1>2, LoopMoves
<1>7. CASE Quiet(s, r)
  <2>1. /\ mem'[s] = mem[s] /\ tables'[s] = tables[s] /\ UNCHANGED <<dbCursor, cursor>>
        /\ Reached(r)'
        /\ Pass(r)' = Pass(r) \/ (Pass(r) = r /\ Pass(r)' = cursor)
        /\ ppc' = "apply" => ppc = "apply" \/ Pass(r)' = cursor
        /\ ppc' = "flush" => ppc = "apply" \/ (ppc = "flush" /\ (Flushed(s)' <=> Flushed(s)))
        /\ ppc' = "flush" /\ Flushed(s)' =>
             ppc = "flush" /\ Flushed(s) /\ tx'[s] = tx[s] /\ upto' = upto
        /\ ppc' # "settle" \/ ppc = "settle"
    BY <1>7 DEF Quiet
  <2>2. Pass(r)' \in 0..r
    BY <1>3, <1>4, <2>1
  <2>3. \A i \in 1..r : log'[i] = log[i]
    BY <1>3, LogKept
  <2>4. BucketMemory(log', mem'[s], cursor' + 1, r)
    BY <1>1, <1>3, <2>1, <2>3, RollupKept
  <2>5. BucketRows(log', tables'[s], dbCursor')
    BY <1>2, <1>3, <1>5, <2>1
  <2>6. ppc' = "flush" /\ Flushed(s)' => BucketRows(log', tx'[s], upto') /\ Written(mem'[s], tx'[s])
    BY <1>2, <1>3, <1>5, <2>1
  <2>7. ASSUME ppc' \in {"apply", "flush"}, ~(ppc' = "flush" /\ Flushed(s)')
        PROVE  Marked(log', mem'[s], cursor' + 1, Pass(r)')
    <3>1. Marked(log, mem[s], cursor + 1, Pass(r)')
      <4>1. CASE Pass(r)' = cursor
        <5>1. PacketsAt(log, cursor + 1, Pass(r)') = {}
          BY <1>3, <4>1 DEF PacketsAt
        <5>2. QED
          BY <5>1 DEF Marked
      <4>2. CASE Pass(r)' # cursor
        <5>1. Pass(r)' = Pass(r) /\ Marked(log, mem[s], cursor + 1, Pass(r))
          BY <1>1, <2>1, <2>7, <4>2
        <5>2. QED
          BY <5>1
      <4>3. QED
        BY <4>1, <4>2
    <3>2. QED
      BY <1>3, <2>1, <2>2, <2>3, <3>1, RollupKept
  <2>8. Once(r)'
    <3>1. ASSUME Exact, ppc' = "idle" PROVE r = cursor'
      <4>1. ppc = "down" => r = 0 /\ cursor = 0
        BY <1>1 DEF Reached, Loop
      <4>2. ppc = "idle" => r = cursor
        BY <1>1, <3>1 DEF Once
      <4>3. ppc = "settle" => r = upto
        BY <1>1 DEF Reached
      <4>4. QED
        BY <2>1, <3>1, <4>1, <4>2, <4>3, LoopMoves
    <3>2. ASSUME Exact, ppc' = "apply" PROVE r = pos' - 1
      <4>1. CASE ppc = "idle"
        <5>1. r = cursor /\ pos' = cursor + 1
          BY <1>1, <3>2, <4>1, LoopMoves DEF Once
        <5>2. QED
          BY <1>3, <5>1
      <4>2. CASE ppc = "apply"
        <5>1. r = pos - 1 /\ pos \in Nat /\ cursor < pos /\ pos' \in {pos, pos + 1}
          BY <1>1, <3>2, <4>2, LoopMoves DEF Once, Batch
        <5>2. Pass(r) = pos - 1 /\ Pass(r)' = pos' - 1
          BY <3>2, <4>2 DEF Pass
        <5>3. pos' = pos
          BY <1>3, <2>1, <5>1, <5>2
        <5>4. QED
          BY <5>1, <5>3
      <4>3. QED
        BY <3>2, <4>1, <4>2, LoopMoves
    <3>3. QED
      BY <3>1, <3>2 DEF Once, Exact
  <2>9. ASSUME ~(ppc' = "flush" /\ Flushed(s)') PROVE Noticed(mem'[s], tables'[s])
    <3>1. CASE ~(ppc = "flush" /\ Flushed(s))
      BY <1>2, <2>1, <3>1
    <3>2. CASE ppc = "flush" /\ Flushed(s)
      <4>1. ppc' \notin {"flush", "settle"}
        BY <2>1, <2>9, <3>2
      <4>2. CASE "fail" \in Faults
        BY <4>2 DEF Noticed, NoFail
      <4>3. CASE tables' = tx
        BY <1>2, <2>1, <3>2, <4>3, WrittenNoticed
      <4>4. CASE mem' = [q \in StageSet |-> EmptyMemory(q)]
        <5>1. mem'[s] = EmptyMap
          BY <4>4 DEF EmptyMemory
        <5>2. QED
          BY <1>3, <5>1, RollupEmpty
      <4>5. QED
        BY <3>2, <4>1, <4>2, <4>3, <4>4, LoopMoves
    <3>3. QED
      BY <3>1, <3>2
  <2>10. ppc' = "settle" => Written(mem'[s], tables'[s])
    BY <1>2, <2>1
  <2>11. QED
    BY <1>6, <2>1, <2>4, <2>5, <2>6, <2>7, <2>8, <2>9, <2>10 DEF RollupInv
<1>8. CASE Takes(s, r)
  <2>1. PICK q \in {Later(r, pos)} : Reached(q)'
    BY <1>8 DEF Takes
  <2>2. /\ ppc = "apply" /\ ppc' = "apply" /\ pos' = pos + 1
        /\ cursor < pos /\ pos \in 1..Len(log) /\ pos <= r + 1
        /\ UNCHANGED <<log, tables, dbCursor, cursor>>
    BY <1>8 DEF Takes
  <2>3. Pass(r) = pos - 1 /\ Pass(q)' = pos
    BY <2>2 DEF Pass
  <2>4. Exact => pos = r + 1 /\ q = pos
    <3>1. Exact => r = pos - 1
      BY <1>1, <2>2 DEF Once
    <3>2. QED
      BY <1>3, <2>1, <2>2, <3>1 DEF Later
  <2> DEFINE m == mem[s]
  <2>5. /\ BucketMemory(log, RollupApply(m, log[pos]), cursor + 1, q)
        /\ Marked(log, m, cursor + 1, pos - 1) =>
             Marked(log, RollupApply(m, log[pos]), cursor + 1, pos)
        /\ Noticed(m, tables[s]) => Noticed(RollupApply(m, log[pos]), tables[s])
    <3>1. BucketMemory(log, m, cursor + 1, r)
      BY <1>1
    <3>2. cursor + 1 <= pos /\ q = Later(r, pos)
      BY <1>3, <2>1, <2>2
    <3> HIDE DEF m
    <3>3. QED
      BY <1>3, <2>2, <2>4, <3>1, <3>2, RollupApplied
  <2>6. mem'[s] = RollupApply(m, log[pos])
    <3>1. log[pos].kind = "dropped" => RollupApply(m, log[pos]) = m
      BY DEF RollupApply
    <3>2. Apply(s, m, log[pos]) = RollupApply(m, log[pos])
      BY DEF Apply
    <3>3. QED
      BY <1>8, <3>1, <3>2 DEF Takes
  <2>7. Marked(log, m, cursor + 1, pos - 1) /\ Noticed(m, tables[s])
    BY <1>1, <1>2, <2>2, <2>3
  <2>8. BucketMemory(log', mem'[s], cursor' + 1, q)
    BY <2>2, <2>5, <2>6
  <2>9. Marked(log', mem'[s], cursor' + 1, Pass(q)') /\ Noticed(mem'[s], tables'[s])
    BY <2>2, <2>3, <2>5, <2>6, <2>7
  <2>10. Once(q)'
    BY <1>3, <2>2, <2>4 DEF Once, Exact
  <2>11. QED
    BY <1>2, <1>6, <2>1, <2>2, <2>8, <2>9, <2>10 DEF RollupInv
<1>9. CASE InTurn(s) /\ (Writes(s, r) \/ Breaks(s, r))
  <2>1. ppc = "flush" /\ turn \in DOMAIN Stages /\ ~Flushed(s) /\ Pass(r) = r /\ r = upto
    BY <1>3, <1>9 DEF InTurn, Pass
  <2> DEFINE m == mem[s]
             t == tx[s]
             o == tx["packet_observations"]
  <2>2. /\ RowsFound(log, m, t, o, cursor + 1, dbCursor, r)
        /\ Marked(log, m, cursor + 1, r)
    BY <1>1, <1>2, <1>9, <2>1, RollupFound
  <2>3. /\ \A written : FlushMem(s, m, written) = RollupFlushMem(m, t, o, written)
        /\ FlushTable(s, m) = RollupFlushTable(m, t, o)
        /\ Interrupted(s, m) = RollupInterrupted(m, t, o)
        /\ Dirty(s, m) = RollupDirty(m)
    BY DEF FlushMem, FlushTable, Interrupted, Dirty
  <2>4. CASE Writes(s, r)
    <3>1. /\ BucketRows(log, RollupFlushTable(m, t, o), r)
          /\ Written(RollupFlushMem(m, t, o, RollupDirty(m)), RollupFlushTable(m, t, o))
      <4> HIDE DEF m, t, o
      <4>1. QED
        BY <2>2, RollupFlushed
    <3>2. BucketMemory(log, RollupFlushMem(m, t, o, RollupDirty(m)), cursor + 1, r)
      <4> HIDE DEF m, t, o
      <4>1. QED
        BY <2>2, RollupFlushes
    <3>3. /\ UNCHANGED <<log, tables, dbCursor, cursor, upto>> /\ Reached(r)'
          /\ ppc' = "flush" /\ Flushed(s)'
          /\ mem'[s] = FlushMem(s, m, Dirty(s, m))
          /\ tx'[s] = FlushTable(s, m)
      BY <2>4 DEF Writes
    <3>4. /\ mem'[s] = RollupFlushMem(m, t, o, RollupDirty(m))
          /\ tx'[s] = RollupFlushTable(m, t, o)
      BY <2>3, <3>3
    <3>5. Once(r)'
      BY <3>3 DEF Once
    <3>6. BucketMemory(log', mem'[s], cursor' + 1, r)
      BY <3>2, <3>3, <3>4
    <3>7. BucketRows(log', tx'[s], upto') /\ Written(mem'[s], tx'[s])
      BY <2>1, <3>1, <3>3, <3>4
    <3>8. QED
      BY <1>2, <1>6, <3>3, <3>5, <3>6, <3>7 DEF RollupInv
  <2>5. CASE Breaks(s, r)
    <3>1. /\ UNCHANGED <<log, tables, dbCursor, cursor>> /\ Reached(r)' /\ ppc' = "idle"
          /\ mem'[s] \in LeftBehind(s, m)
      BY <2>5 DEF Breaks
    <3>2. "fail" \in Faults
      <4>1. ~(turn > Len(Stages))
        BY <2>1
      <4>2. QED
        BY <2>1, <3>1, <4>1, LoopMoves
    <3>3. ~Exact /\ ~NoFail
      BY <3>2 DEF Exact, NoFail
    <3>4. \A left \in LeftBehind(s, m) : BucketMemory(log, left, cursor + 1, r)
      <4>1. \A written : BucketMemory(log, RollupFlushMem(m, t, o, written), cursor + 1, r)
        <5> HIDE DEF m, t, o
        <5>1. QED
          BY <2>2, RollupFlushes
      <4>2. \A left \in RollupInterrupted(m, t, o) : BucketMemory(log, left, cursor + 1, r)
        <5> HIDE DEF m, t, o
        <5>1. QED
          BY <2>2, <3>3, RollupFlushes
      <4>3. QED
        BY <2>3, <4>1, <4>2 DEF LeftBehind
    <3>5. BucketMemory(log', mem'[s], cursor' + 1, r)
      BY <3>1, <3>4
    <3>6. Once(r)'
      BY <3>3 DEF Once, Exact
    <3>7. Noticed(mem'[s], tables'[s])
      BY <3>3 DEF Noticed
    <3>8. QED
      BY <1>2, <1>6, <3>1, <3>5, <3>6, <3>7 DEF RollupInv
  <2>6. QED
    BY <1>9, <2>4, <2>5
<1>10. CASE Commits(s, r)
  <2>1. /\ ppc = "flush" /\ Flushed(s) /\ ppc' \in {"idle", "settle"}
        /\ tables'[s] = tx[s] /\ dbCursor' = upto
        /\ mem'[s] = mem[s] /\ UNCHANGED <<log, cursor>> /\ Reached(r)'
    BY <1>10 DEF Commits
  <2>2. Once(r)'
    <3>1. ppc' = "idle" => ~Exact
      BY <2>1, LoopMoves
    <3>2. QED
      BY <2>1, <3>1 DEF Once, Exact
  <2>3. Written(mem'[s], tables'[s]) /\ Noticed(mem'[s], tables'[s])
    BY <1>2, <2>1, WrittenNoticed
  <2>4. BucketMemory(log', mem'[s], cursor' + 1, r) /\ BucketRows(log', tables'[s], dbCursor')
    BY <1>1, <1>2, <2>1
  <2>5. QED
    BY <1>6, <2>1, <2>2, <2>3, <2>4 DEF RollupInv
<1>11. CASE Settles(s, r)
  <2>1. /\ ppc = "settle" /\ ppc' = "idle" /\ cursor' = r /\ Reached(r)'
        /\ UNCHANGED <<log, tables, dbCursor>>
        /\ mem'[s] = IF hwm = ZeroTime THEN AfterNotify(s, mem[s])
                     ELSE Evict(s, AfterNotify(s, mem[s]), hwm)
    BY <1>11 DEF Settles
  <2>2. AfterNotify(s, mem[s]) = mem[s] /\ Evict(s, mem[s], hwm) = RollupEvict(mem[s], hwm)
    BY DEF AfterNotify, Evict
  <2>3. cursor + 1 <= r + 1 /\ Written(mem[s], tables[s])
    BY <1>2, <1>3, <2>1
  <2> DEFINE m == mem[s]
             t == tables[s]
  <2>4. BucketMemory(log, mem'[s], r + 1, r) /\ Written(mem'[s], tables[s])
    <3>1. BucketMemory(log, m, cursor + 1, r) /\ Written(m, t)
      BY <1>1, <2>3
    <3>2. mem'[s] = m \/ mem'[s] = RollupEvict(m, hwm)
      BY <2>1, <2>2
    <3> HIDE DEF m, t
    <3>3. /\ BucketMemory(log, m, r + 1, r)
          /\ \A time : BucketMemory(log, RollupEvict(m, time), r + 1, r)
          /\ \A time : Written(RollupEvict(m, time), t)
      BY <1>3, <2>3, <3>1, RollupMoves
    <3>4. QED
      BY <3>1, <3>2, <3>3 DEF t
  <2>5. Noticed(mem'[s], tables'[s])
    BY <2>1, <2>4, WrittenNoticed
  <2>6. Once(r)'
    BY <2>1 DEF Once
  <2>7. QED
    BY <1>2, <1>6, <2>1, <2>4, <2>5, <2>6 DEF RollupInv
<1>12. CASE Restarts(s)
  <2>1. PICK q \in {cursor'} : Reached(q)'
    BY <1>12 DEF Restarts
  <2>2. /\ mem'[s] = EmptyMap /\ ppc' \in {"down", "idle"} /\ log' = log
        /\ \/ tables'[s] = tables[s] /\ dbCursor' = dbCursor
           \/ tables'[s] = EmptyMap /\ dbCursor' = 0
    BY <1>12 DEF Restarts, EmptyMemory, EmptyTable
  <2>3. q = cursor' /\ q \in Nat
    BY <2>1 DEF Reached
  <2>4. /\ BucketMemory(log', mem'[s], q + 1, q) /\ Noticed(mem'[s], tables'[s])
        /\ BucketRows(log, EmptyMap, 0)
    BY <2>2, <2>3, RollupEmpty
  <2>5. BucketRows(log', tables'[s], dbCursor')
    BY <1>2, <2>2, <2>4
  <2>6. Once(q)'
    BY <2>2, <2>3 DEF Once
  <2>7. QED
    BY <1>6, <2>1, <2>2, <2>3, <2>4, <2>5, <2>6 DEF RollupInv
<1>13. QED
  BY <1>1, <1>7, <1>8, <1>9, <1>10, <1>11, <1>12, StageSteps DEF Writes, Breaks

LEMMA RollupHolds ==
  ASSUME "rollup_observer" \in StageSet
  PROVE  Spec => [](Loop /\ RollupInv)
<1> DEFINE Inv == Loop /\ Batch /\ SharesInv
<1>1. Init => RollupInv
  BY RollupInit
<1>2. ASSUME Inv, RollupInv, [Next]_vars PROVE RollupInv'
  <2>1. ShareInv("packet_observations")
    BY <1>2, Listed DEF SharesInv, ShareStages
  <2>2. QED
    BY <1>2, <2>1, RollupStep
<1>3. Inv => Loop
  OBVIOUS
<1>4. Spec => []Inv
  BY SharesHold
<1> HIDE DEF Inv
<1>5. QED
  BY <1>1, <1>2, <1>3, <1>4, PTL DEF Spec

-----------------------------------------------------------------------------
(* What the committed rows say, at the places the properties speak of.      *)
LEMMA RollupSays ==
  ASSUME Loop, RollupInv
  PROVE  /\ BucketRows(log, Rollup, dbCursor)
         /\ \A k : InBucket(k) = PacketsOf(log, k, 1, dbCursor)
         /\ PacketBuckets \subseteq DOMAIN Rollup
         /\ \A k : Rssis(k) = {log[i].rssi : i \in HeardIn(log, InBucket(k))}
         /\ \A k : Rssis(k) \in SUBSET Int
<1>1. BucketRows(log, Rollup, dbCursor)
  BY DEF RollupInv, Rollup
<1>2. \A k : InBucket(k) = PacketsOf(log, k, 1, dbCursor)
  BY DEF InBucket, PacketsWith, Projected, PacketsOf
<1>3. ASSUME NEW k \in PacketBuckets PROVE k \in DOMAIN Rollup
  <2>1. PICK i \in PacketsAt(log, 1, dbCursor) : k = KeyOf(log[i])
    BY DEF PacketBuckets, PacketsWith, Projected, PacketsAt
  <2>2. QED
    BY <1>1, <2>1 DEF BucketRows
<1>4. \A k : Rssis(k) = {log[i].rssi : i \in HeardIn(log, InBucket(k))}
  BY DEF Rssis, HeardIn
<1>5. ASSUME NEW k, NEW v \in Rssis(k) PROVE v \in Int
  <2>1. PICK i \in HeardIn(log, InBucket(k)) : v = log[i].rssi
    BY <1>4
  <2>2. i \in 1..dbCursor /\ IsPacket(log[i]) /\ log[i].rssi # None
    BY <1>2, <2>1 DEF HeardIn, PacketsOf
  <2>3. log[i] \in EventSet
    BY <2>2 DEF Loop
  <2>4. QED
    BY <2>1, <2>2, <2>3, EventsAssumption
<1>6. QED
  BY <1>1, <1>2, <1>3, <1>4, <1>5

LEMMA LeastIsMin ==
  ASSUME NEW S \in SUBSET Int, NEW v \in S
  PROVE  /\ (\A x \in S : v <= x) => Min(S) = v
         /\ (\A x \in S : x <= v) => Max(S) = v
<1>1. ASSUME \A x \in S : v <= x, NEW w \in S, \A y \in S : w =< y PROVE w = v
  <2>1. w \in Int /\ v \in Int /\ w <= v /\ v <= w
    BY <1>1
  <2>2. QED
    BY <2>1
<1>2. ASSUME \A x \in S : x <= v, NEW w \in S, \A y \in S : w >= y PROVE w = v
  <2>1. w \in Int /\ v \in Int /\ w <= v /\ v <= w
    BY <1>2
  <2>2. QED
    BY <2>1
<1>3. ASSUME \A x \in S : x <= v PROVE \A x \in S : v >= x
  BY <1>3
<1>4. QED
  BY <1>1, <1>2, <1>3 DEF Min, Max

(* The bounds of a bucket are those of the RSSIs of its packets.            *)
LEMMA RollupBounds ==
  ASSUME Loop, RollupInv, NEW k \in DOMAIN Rollup
  PROVE  /\ Rssis(k) = {} => Rollup[k].min = None /\ Rollup[k].max = None
         /\ Rssis(k) # {} => /\ Rollup[k].min \in Int /\ Rollup[k].min = Min(Rssis(k))
                             /\ Rollup[k].max \in Int /\ Rollup[k].max = Max(Rssis(k))
<1> DEFINE R == Rssis(k)
           row == Rollup[k]
           H == HeardIn(log, InBucket(k))
<1>1. /\ BucketRow(log, row, k, dbCursor) /\ InBucket(k) = PacketsOf(log, k, 1, dbCursor)
      /\ R = {log[i].rssi : i \in H} /\ R \in SUBSET Int
  BY RollupSays DEF BucketRows
<1>2. /\ \/ row.min = None /\ H = {}
         \/ (\E i \in H : row.min = log[i].rssi) /\ \A i \in H : row.min <= log[i].rssi
      /\ \/ row.max = None /\ H = {}
         \/ (\E i \in H : row.max = log[i].rssi) /\ \A i \in H : log[i].rssi <= row.max
  BY <1>1 DEF BucketRow, Least, Greatest
<1> HIDE DEF R, row, H
<1>3. /\ R = {} => row.min = None /\ row.max = None
      /\ R # {} => /\ row.min \in R /\ \A x \in R : row.min <= x
                   /\ row.max \in R /\ \A x \in R : x <= row.max
  BY <1>1, <1>2
<1>4. R # {} => /\ row.min \in Int /\ row.min = Min(R)
                /\ row.max \in Int /\ row.max = Max(R)
  BY <1>1, <1>3, LeastIsMin
<1>5. QED
  BY <1>3, <1>4 DEF R, row

(* unique_pkts, min_rssi and max_rssi of a bucket are those of its packets, *)
(* under every fault: a batch that is applied to the same memory again adds *)
(* nothing to sets and bounds, and a reload reads back what eviction, a     *)
(* restart or a half-finished flush lost.                                   *)
THEOREM RollupSetsExactHolds ==
  ASSUME "rollup_observer" \in StageSet
  PROVE  Spec => []RollupSetsExact
<1>1. Loop /\ RollupInv => RollupSetsExact
  <2> SUFFICES ASSUME Loop, RollupInv, NEW k \in DOMAIN Rollup
               PROVE  LET hashes == {log[i].hash : i \in InBucket(k)} \ {None}
                      IN  /\ Cardinality(hashes \ {Blank}) <= Rollup[k].unique
                          /\ Rollup[k].unique <= Cardinality(hashes)
                          /\ Rollup[k].min = IF Rssis(k) = {} THEN None ELSE Min(Rssis(k))
                          /\ Rollup[k].max = IF Rssis(k) = {} THEN None ELSE Max(Rssis(k))
    BY DEF RollupSetsExact
  <2> DEFINE hashes == {log[i].hash : i \in InBucket(k)} \ {None}
             H == HashesAt(log, PacketsOf(log, k, 1, dbCursor))
  <2>1. hashes = H \ {None} /\ hashes \ {Blank} = H \ {None, Blank}
    <3>1. {log[i].hash : i \in InBucket(k)} = H
      BY RollupSays DEF HashesAt
    <3> HIDE DEF H
    <3>2. QED
      BY <3>1
  <2>2. BucketRow(log, Rollup[k], k, dbCursor)
    BY RollupSays DEF BucketRows
  <2>3. /\ Cardinality(H \ {None, Blank}) <= Rollup[k].unique
        /\ Rollup[k].unique <= Cardinality(H \ {None})
    BY <2>2 DEF BucketRow
  <2>4. /\ Rollup[k].min = IF Rssis(k) = {} THEN None ELSE Min(Rssis(k))
        /\ Rollup[k].max = IF Rssis(k) = {} THEN None ELSE Max(Rssis(k))
    BY RollupBounds
  <2> HIDE DEF hashes, H
  <2>5. Cardinality(hashes \ {Blank}) <= Rollup[k].unique /\ Rollup[k].unique <= Cardinality(hashes)
    BY <2>1, <2>3
  <2>6. QED
    BY <2>4, <2>5 DEF hashes
<1>2. QED
  BY <1>1, RollupHolds, PTL

(* packets and flood_pkts never fall short, whatever batches fail: what is  *)
(* applied again or read back may count twice, nothing is forgotten.        *)
THEOREM RollupCountsEnoughHolds ==
  ASSUME "rollup_observer" \in StageSet
  PROVE  Spec => []RollupCountsEnough
<1>1. Loop /\ RollupInv => RollupCountsEnough
  <2> SUFFICES ASSUME Loop, RollupInv, NEW k \in PacketBuckets
               PROVE  /\ k \in DOMAIN Rollup
                      /\ Rollup[k].packets >= Cardinality(InBucket(k))
                      /\ Rollup[k].flood >= Cardinality({i \in InBucket(k) : log[i].flood})
    BY DEF RollupCountsEnough
  <2> DEFINE S == InBucket(k)
             F == {i \in InBucket(k) : log[i].flood}
  <2>1. k \in DOMAIN Rollup /\ S = PacketsOf(log, k, 1, dbCursor) /\ F = FloodIn(log, S)
    BY RollupSays DEF FloodIn
  <2>2. BucketRow(log, Rollup[k], k, dbCursor)
    BY <2>1, RollupSays DEF BucketRows
  <2> HIDE DEF S, F
  <2>3. /\ Rollup[k].packets \in Nat /\ Cardinality(S) <= Rollup[k].packets
        /\ Rollup[k].flood \in Nat /\ Cardinality(F) <= Rollup[k].flood
    BY <2>1, <2>2 DEF BucketRow, Counts
  <2>4. Cardinality(S) \in Nat /\ Cardinality(F) \in Nat
    <3>1. log \in Seq(EventSet) /\ S \in SUBSET PacketsAt(log, 1, Len(log))
      BY <2>1 DEF Loop, PacketsOf, PacketsAt
    <3>2. IsFiniteSet(S) /\ IsFiniteSet(F)
      BY <2>1, <3>1, PositionsFinite
    <3>3. QED
      BY <3>2, FS_CardinalityType
  <2>5. Rollup[k].packets >= Cardinality(S) /\ Rollup[k].flood >= Cardinality(F)
    BY <2>3, <2>4
  <2>6. QED
    BY <2>1, <2>5 DEF S, F
<1>2. QED
  BY <1>1, RollupHolds, PTL

(* packets and flood_pkts are exact as long as every batch is committed and *)
(* known to be: a restart, a reset, an eviction and a straggler behind it   *)
(* neither lose nor repeat a packet.                                        *)
THEOREM RollupCountsExactHolds ==
  ASSUME "rollup_observer" \in StageSet, Faults \cap {"fail", "lostAck"} = {}
  PROVE  Spec => []RollupCountsExact
<1>1. Loop /\ RollupInv => RollupCountsExact
  <2> SUFFICES ASSUME Loop, RollupInv, NEW k \in PacketBuckets
               PROVE  /\ k \in DOMAIN Rollup
                      /\ Rollup[k].packets = Cardinality(InBucket(k))
                      /\ Rollup[k].flood = Cardinality({i \in InBucket(k) : log[i].flood})
    BY DEF RollupCountsExact
  <2> DEFINE S == InBucket(k)
             F == {i \in InBucket(k) : log[i].flood}
  <2>1. k \in DOMAIN Rollup /\ S = PacketsOf(log, k, 1, dbCursor) /\ F = FloodIn(log, S)
    BY RollupSays DEF FloodIn
  <2>2. BucketRow(log, Rollup[k], k, dbCursor)
    BY <2>1, RollupSays DEF BucketRows
  <2> HIDE DEF S, F
  <2>3. Rollup[k].packets = Cardinality(S) /\ Rollup[k].flood = Cardinality(F)
    BY <2>1, <2>2 DEF BucketRow, Counts, Exact
  <2>4. QED
    BY <2>1, <2>3 DEF S, F
<1>2. QED
  BY <1>1, RollupHolds, PTL

(* avg_rssi stays between the bucket's smallest and largest RSSI, although  *)
(* a reload truncates what a rounded average stood for and weighs it with   *)
(* packets that carry no RSSI.                                              *)
THEOREM AvgWithinBoundsHolds ==
  ASSUME "rollup_observer" \in StageSet
  PROVE  Spec => []AvgWithinBounds
<1>1. Loop /\ RollupInv => AvgWithinBounds
  <2> SUFFICES ASSUME Loop, RollupInv, NEW k \in DOMAIN Rollup, Rssis(k) # {}
               PROVE  /\ Rollup[k].avg # None
                      /\ 100 * Min(Rssis(k)) <= Rollup[k].avg
                      /\ Rollup[k].avg <= 100 * Max(Rssis(k))
    BY DEF AvgWithinBounds
  <2> DEFINE row == Rollup[k]
             least == Min(Rssis(k))
             greatest == Max(Rssis(k))
  <2>1. row.min \in Int /\ row.min = least /\ row.max \in Int /\ row.max = greatest
    BY RollupBounds
  <2>2. Averages(row.packets, row.avg, row.min, row.max)
    BY RollupSays DEF BucketRows, BucketRow
  <2> HIDE DEF row, least, greatest
  <2>3. row.min # None
    BY <2>1, NoneAssumption
  <2>4. row.avg \in Int /\ 100 * row.min <= row.avg /\ row.avg <= 100 * row.max
    BY <2>2, <2>3 DEF Averages
  <2>5. row.avg # None
    BY <2>4, NoneAssumption
  <2>6. QED
    BY <2>1, <2>4, <2>5 DEF row, least, greatest
<1>2. QED
  BY <1>1, RollupHolds, PTL

(* noise_floor is there, and that of a status of the bucket, as soon as one *)
(* was projected, as long as no batch fails: neither a status that has none *)
(* nor one that comes after its bucket was evicted takes it away, and a     *)
(* commit that is not acknowledged, and is therefore projected again, does  *)
(* not either.                                                              *)
THEOREM FloorFromBucketHolds ==
  ASSUME "rollup_observer" \in StageSet, "fail" \notin Faults
  PROVE  Spec => []FloorFromBucket
<1>1. Loop /\ RollupInv => FloorFromBucket
  <2> SUFFICES ASSUME Loop, RollupInv, NEW j \in Noises(log, 1, dbCursor)
               PROVE  LET k == KeyOf(log[j])
                      IN  /\ k \in DOMAIN Rollup
                          /\ Rollup[k].floor
                             \in {log[i].floor : i \in NoisesOf(log, k, 1, dbCursor)}
    BY DEF FloorFromBucket, Projected, Noises, NoisesOf
  <2> DEFINE k == KeyOf(log[j])
  <2>1. k \in DOMAIN Rollup
    BY RollupSays DEF BucketRows, NoFail
  <2>2. Floors(log, Rollup[k].floor, k, 1, dbCursor)
    BY <2>1, RollupSays DEF BucketRows, BucketRow
  <2>3. j \in NoisesOf(log, k, 1, dbCursor)
    BY DEF NoisesOf
  <2>4. Rollup[k].floor \in {log[i].floor : i \in NoisesOf(log, k, 1, dbCursor)}
    BY <2>2, <2>3 DEF Floors, NoFail
  <2>5. QED
    BY <2>1, <2>4
<1>2. QED
  BY <1>1, RollupHolds, PTL
-----------------------------------------------------------------------------
(* The steps of the loop keep to it that memory was given each event once.  *)
LEMMA OnceKept ==
  ASSUME Loop, Batch, [Next]_vars, NEW s \in StageSet, NEW r, Reached(r), Once(r)
  PROVE  /\ Quiet(s, r) => Once(r)'
         /\ Takes(s, r) => \E q \in {Later(r, pos)} :
                              Reached(q)' /\ Once(q)' /\ (Exact => pos = r + 1 /\ q = pos)
         /\ Writes(s, r) => Once(r)'
         /\ Breaks(s, r) => ~Exact /\ ~NoFail /\ Once(r)'
         /\ Commits(s, r) => Once(r)'
         /\ Settles(s, r) => Once(r)'
         /\ Restarts(s) => \E q \in {cursor'} : Reached(q)' /\ Once(q)'
<1>1. /\ cursor \in Nat /\ dbCursor \in Nat /\ upto \in Nat /\ r \in Nat /\ cursor <= r
      /\ ppc = "apply" => pos \in Nat
  BY DEF Loop, Batch, Reached
<1>2. ASSUME Quiet(s, r) PROVE Once(r)'
  <2>1. /\ cursor' = cursor
        /\ Pass(r)' = Pass(r) \/ (Pass(r) = r /\ Pass(r)' = cursor)
    BY <1>2 DEF Quiet
  <2>2. ASSUME Exact, ppc' = "idle" PROVE r = cursor'
    <3>1. ppc = "down" => r = 0 /\ cursor = 0
      BY DEF Reached, Loop
    <3>2. ppc = "idle" => r = cursor
      BY <2>2 DEF Once
    <3>3. ppc = "settle" => r = upto
      BY DEF Reached
    <3>4. QED
      BY <2>1, <2>2, <3>1, <3>2, <3>3, LoopMoves
  <2>3. ASSUME Exact, ppc' = "apply" PROVE r = pos' - 1
    <3>1. CASE ppc = "idle"
      <4>1. r = cursor /\ pos' = cursor + 1
        BY <2>3, <3>1, LoopMoves DEF Once
      <4>2. QED
        BY <1>1, <4>1
    <3>2. CASE ppc = "apply"
      <4>1. r = pos - 1 /\ cursor < pos /\ pos' \in {pos, pos + 1}
        BY <2>3, <3>2, LoopMoves DEF Once, Batch
      <4>2. Pass(r) = pos - 1 /\ Pass(r)' = pos' - 1
        BY <2>3, <3>2 DEF Pass
      <4>3. pos' = pos
        BY <1>1, <2>1, <3>2, <4>1, <4>2
      <4>4. QED
        BY <4>1, <4>3
    <3>3. QED
      BY <2>3, <3>1, <3>2, LoopMoves
  <2>4. QED
    BY <2>2, <2>3 DEF Once, Exact
<1>3. ASSUME Takes(s, r)
      PROVE  \E q \in {Later(r, pos)} :
                Reached(q)' /\ Once(q)' /\ (Exact => pos = r + 1 /\ q = pos)
  <2>1. PICK q \in {Later(r, pos)} : Reached(q)'
    BY <1>3 DEF Takes
  <2>2. ppc = "apply" /\ ppc' = "apply" /\ pos' = pos + 1 /\ cursor' = cursor
    BY <1>3 DEF Takes
  <2>3. Exact => pos = r + 1 /\ q = pos
    <3>1. Exact => r = pos - 1
      BY <2>2 DEF Once
    <3>2. QED
      BY <1>1, <2>1, <2>2, <3>1 DEF Later
  <2>4. Once(q)'
    BY <1>1, <2>2, <2>3 DEF Once, Exact
  <2>5. QED
    BY <2>1, <2>3, <2>4
<1>4. Writes(s, r) => Once(r)'
  BY DEF Writes, Once
<1>5. ASSUME Breaks(s, r) PROVE ~Exact /\ ~NoFail /\ Once(r)'
  <2>1. ppc = "flush" /\ turn \in DOMAIN Stages /\ ppc' = "idle" /\ tables' = tables
    BY <1>5 DEF Breaks, InTurn
  <2>2. Exact => FALSE
    BY <2>1, LoopMoves
  <2>3. ~NoFail
    <3>1. ~(turn > Len(Stages))
      BY <2>1
    <3>2. QED
      BY <2>1, <3>1, LoopMoves DEF NoFail
  <2>4. QED
    BY <2>2, <2>3 DEF Once, Exact
<1>6. ASSUME Commits(s, r) PROVE Once(r)'
  <2>1. ppc = "flush" /\ ppc' \in {"idle", "settle"}
    BY <1>6 DEF Commits
  <2>2. ppc' = "idle" => ~Exact
    BY <2>1, LoopMoves
  <2>3. QED
    BY <2>1, <2>2 DEF Once, Exact
<1>7. Settles(s, r) => Once(r)'
  BY DEF Settles, Once
<1>8. ASSUME Restarts(s) PROVE \E q \in {cursor'} : Reached(q)' /\ Once(q)'
  <2>1. PICK q \in {cursor'} : Reached(q)'
    BY <1>8 DEF Restarts
  <2>2. ppc' \in {"down", "idle"} /\ q = cursor'
    BY <1>8 DEF Restarts
  <2>3. Once(q)'
    BY <2>2 DEF Once
  <2>4. QED
    BY <2>1, <2>3
<1>9. QED
  BY <1>2, <1>3, <1>4, <1>5, <1>6, <1>7, <1>8

-----------------------------------------------------------------------------
(* advert_count, first_seen and last_seen of a node, which Apply and the    *)
(* upsert add and merge: what adverts at the positions S make of them.      *)
AdvertRow(l, row, S) ==
    Counts(row.count, S) /\ Lowest(l, row.first, S) /\ Highest(l, row.last, S)

AdvertRows(l, rows, a, b) ==
    /\ \A key : key \in DOMAIN rows <=> HeardOf(l, key, a, b) # {}
    /\ \A key \in DOMAIN rows : AdvertRow(l, rows[key], HeardOf(l, key, a, b))

LEMMA AdvertsJoin ==
  ASSUME NEW l \in Seq(EventSet), NEW S \in SUBSET (1..Len(l)), NEW T \in SUBSET (1..Len(l)),
         Exact => S \cap T = {},
         NEW old, AdvertRow(l, old, S), NEW row, AdvertRow(l, row, T),
         NEW new, new.count = old.count + row.count,
         new.first = Earlier(old.first, row.first), new.last = Later(old.last, row.last)
  PROVE  AdvertRow(l, new, S \cup T)
<1>1. IsFiniteSet(1..Len(l))
  <2>1. 1 \in Int /\ Len(l) \in Int
    OBVIOUS
  <2>2. QED
    BY <2>1, FS_Interval
<1>2. IsFiniteSet(S) /\ IsFiniteSet(T)
  BY <1>1, FS_Subset
<1>3. Counts(new.count, S \cup T)
  <2>1. Counts(old.count, S) /\ Counts(row.count, T)
    BY DEF AdvertRow
  <2>2. QED
    BY <1>2, <2>1, CountsJoin
<1>4. Lowest(l, new.first, S \cup T) /\ Highest(l, new.last, S \cup T)
  BY LowestJoins, HighestJoins DEF AdvertRow
<1>5. QED
  BY <1>3, <1>4 DEF AdvertRow

LEMMA AdvertsApplied ==
  ASSUME NEW l \in Seq(EventSet), NEW m, NEW a \in Nat \ {0}, NEW p \in 1..Len(l), NEW b \in Nat,
         NEW q, a <= p, p <= b + 1, b <= Len(l), q = Later(b, p), Exact => p = b + 1,
         AdvertRows(l, m, a, b)
  PROVE  AdvertRows(l, NodesApply(m, l[p]), a, q)
<1> DEFINE e == l[p]
           key == e.advert.key
           S == HeardOf(l, key, a, b)
<1>1. \A i : i \in a..q <=> i \in a..b \/ i = p
  BY DEF Later
<1>2. CASE ~IsPacket(e) \/ e.advert = None
  <2>1. ASSUME NEW k PROVE HeardOf(l, k, a, q) = HeardOf(l, k, a, b)
    BY <1>1, <1>2 DEF HeardOf
  <2>2. NodesApply(m, e) = m
    BY <1>2 DEF NodesApply
  <2>3. QED
    BY <2>1, <2>2 DEF AdvertRows
<1>3. CASE IsPacket(e) /\ e.advert # None
  <2> DEFINE old == IF key \in DOMAIN m THEN m[key] ELSE FreshNode(e)
             new == Heard(old, e)
  <2>1. NodesApply(m, e) = Put(m, key, new)
    BY <1>3 DEF NodesApply
  <2>2. HeardOf(l, key, a, q) = S \cup {p}
    BY <1>1, <1>3 DEF HeardOf
  <2>3. ASSUME NEW k, k # key PROVE HeardOf(l, k, a, q) = HeardOf(l, k, a, b)
    BY <1>1, <2>3 DEF HeardOf
  <2>4. S \in SUBSET (1..Len(l)) /\ {p} \in SUBSET (1..Len(l)) /\ (Exact => S \cap {p} = {})
    BY DEF HeardOf
  <2>5. /\ new.first = Earlier(old.first, e.ts)
        /\ new.last = Later(old.last, e.ts)
        /\ new.count = old.count + 1
    <3> HIDE DEF old
    <3>1. QED
      BY DEF Heard
  <2>6. AdvertRow(l, new, S \cup {p})
    <3> DEFINE one == [first |-> e.ts, last |-> e.ts, count |-> 1]
    <3>1. one.first = e.ts /\ one.last = e.ts /\ one.count = 1
      OBVIOUS
    <3> HIDE DEF one
    <3>2. AdvertRow(l, one, {p})
      <4>1. Lowest(l, e.ts, {p}) /\ Highest(l, e.ts, {p})
        BY BoundsOfOne
      <4>2. Counts(1, {p})
        <5>1. Cardinality({p}) = 1
          BY FS_Singleton
        <5>2. QED
          BY <5>1 DEF Counts
      <4>3. QED
        BY <3>1, <4>1, <4>2 DEF AdvertRow
    <3>3. CASE key \in DOMAIN m
      <4>1. AdvertRow(l, old, S)
        BY <3>3 DEF AdvertRows
      <4>2. /\ new.first = Earlier(old.first, one.first)
            /\ new.last = Later(old.last, one.last)
            /\ new.count = old.count + one.count
        BY <2>5, <3>1
      <4> HIDE DEF S, old, new
      <4>3. QED
        BY <2>4, <3>2, <4>1, <4>2, AdvertsJoin
    <3>4. CASE key \notin DOMAIN m
      <4>1. S = {} /\ old.first = e.ts /\ old.last = e.ts /\ old.count = 0
        BY <3>4 DEF AdvertRows, FreshNode
      <4>2. new.first = one.first /\ new.last = one.last /\ new.count = one.count
        <5> HIDE DEF old, new
        <5>1. QED
          BY <2>5, <3>1, <4>1 DEF Earlier, Later
      <4>3. S \cup {p} = {p}
        BY <4>1
      <4> HIDE DEF S, new
      <4>4. QED
        BY <3>2, <4>2, <4>3 DEF AdvertRow
    <3>5. QED
      BY <3>3, <3>4
  <2> HIDE DEF new
  <2>7. /\ DOMAIN Put(m, key, new) = DOMAIN m \cup {key}
        /\ Put(m, key, new)[key] = new
        /\ \A k \in DOMAIN m \ {key} : Put(m, key, new)[k] = m[k]
    BY DEF Put
  <2>8. ASSUME NEW k PROVE k \in DOMAIN Put(m, key, new) <=> HeardOf(l, k, a, q) # {}
    BY <2>2, <2>3, <2>7 DEF AdvertRows
  <2>9. ASSUME NEW k \in DOMAIN Put(m, key, new)
        PROVE  AdvertRow(l, Put(m, key, new)[k], HeardOf(l, k, a, q))
    BY <2>2, <2>3, <2>6, <2>7 DEF AdvertRows
  <2>10. QED
    BY <2>1, <2>8, <2>9 DEF AdvertRows
<1>4. QED
  BY <1>2, <1>3

LEMMA AdvertsFlushed ==
  ASSUME NEW l \in Seq(EventSet), NEW t, NEW m, NEW a \in Nat \ {0}, NEW d \in Nat, NEW u \in Nat,
         a <= d + 1, d <= u, u <= Len(l), Exact => a = d + 1,
         AdvertRows(l, t, 1, d), AdvertRows(l, m, a, u)
  PROVE  AdvertRows(l, NodesFlushTable(m, t), 1, u)
<1> DEFINE rows == NodesFlushTable(m, t)
<1>1. \A i : i \in 1..u <=> i \in 1..d \/ i \in a..u
  OBVIOUS
<1>2. ASSUME NEW key
      PROVE  /\ HeardOf(l, key, 1, u) = HeardOf(l, key, 1, d) \cup HeardOf(l, key, a, u)
             /\ Exact => HeardOf(l, key, 1, d) \cap HeardOf(l, key, a, u) = {}
             /\ HeardOf(l, key, 1, d) \in SUBSET (1..Len(l))
             /\ HeardOf(l, key, a, u) \in SUBSET (1..Len(l))
  BY <1>1 DEF HeardOf
<1>3. DOMAIN rows = DOMAIN t \cup DOMAIN m
  BY DEF NodesFlushTable
<1>4. ASSUME NEW key PROVE key \in DOMAIN rows <=> HeardOf(l, key, 1, u) # {}
  BY <1>2, <1>3 DEF AdvertRows
<1>5. ASSUME NEW key \in DOMAIN t, key \notin DOMAIN m
      PROVE  AdvertRow(l, rows[key], HeardOf(l, key, 1, u))
  <2>1. rows[key] = t[key]
    BY <1>5 DEF NodesFlushTable
  <2>2. HeardOf(l, key, 1, u) = HeardOf(l, key, 1, d)
    BY <1>2, <1>5 DEF AdvertRows
  <2>3. QED
    BY <2>1, <2>2 DEF AdvertRows
<1>6. ASSUME NEW key \in DOMAIN m, key \notin DOMAIN t
      PROVE  AdvertRow(l, rows[key], HeardOf(l, key, 1, u))
  <2>1. rows[key] = m[key]
    BY <1>6 DEF NodesFlushTable
  <2>2. HeardOf(l, key, 1, u) = HeardOf(l, key, a, u)
    BY <1>2, <1>6 DEF AdvertRows
  <2>3. QED
    BY <2>1, <2>2 DEF AdvertRows
<1>7. ASSUME NEW key \in DOMAIN t \cap DOMAIN m
      PROVE  AdvertRow(l, rows[key], HeardOf(l, key, 1, u))
  <2> DEFINE S == HeardOf(l, key, 1, d)
             T == HeardOf(l, key, a, u)
             old == t[key]
             row == m[key]
             new == rows[key]
  <2>1. new = NodesUpsert(old, row)
    BY DEF NodesFlushTable
  <2>2. /\ new.count = old.count + row.count
        /\ new.first = Earlier(old.first, row.first)
        /\ new.last = Later(old.last, row.last)
    <3> HIDE DEF old, row, new
    <3>1. QED
      BY <2>1 DEF NodesUpsert
  <2>3. AdvertRow(l, old, S) /\ AdvertRow(l, row, T)
    BY DEF AdvertRows
  <2>4. S \in SUBSET (1..Len(l)) /\ T \in SUBSET (1..Len(l)) /\ (Exact => S \cap T = {})
    BY <1>2
  <2> HIDE DEF S, T, old, row, new
  <2>5. AdvertRow(l, new, S \cup T)
    BY <2>2, <2>3, <2>4, AdvertsJoin
  <2>6. QED
    BY <1>2, <2>5 DEF S, T, new
<1>8. QED
  BY <1>3, <1>4, <1>5, <1>6, <1>7 DEF AdvertRows

LEMMA AdvertsKept ==
  ASSUME NEW l, NEW l2, NEW m, NEW a \in Nat \ {0}, NEW b \in Nat,
         \A i \in 1..b : l2[i] = l[i],
         AdvertRows(l, m, a, b)
  PROVE  AdvertRows(l2, m, a, b)
<1>1. ASSUME NEW key
      PROVE  /\ HeardOf(l2, key, a, b) = HeardOf(l, key, a, b)
             /\ \A i \in HeardOf(l, key, a, b) : l2[i] = l[i]
  BY DEF HeardOf
<1>2. ASSUME NEW key \in DOMAIN m PROVE AdvertRow(l2, m[key], HeardOf(l, key, a, b))
  <2> DEFINE S == HeardOf(l, key, a, b)
  <2>1. AdvertRow(l, m[key], S) /\ \A i \in S : l2[i] = l[i]
    BY <1>1 DEF AdvertRows
  <2> HIDE DEF S
  <2>2. AdvertRow(l2, m[key], S)
    BY <2>1 DEF AdvertRow, Lowest, Highest
  <2>3. QED
    BY <2>2 DEF S
<1>3. QED
  BY <1>1, <1>2 DEF AdvertRows

LEMMA AdvertsNone ==
  ASSUME NEW l, NEW a \in Nat, NEW b \in Nat,
         \A i \in a..b : l[i].kind = "dropped"
  PROVE  /\ AdvertRows(l, EmptyMap, a, b)
         /\ \A m : AdvertRows(l, m, a, b) => \A c \in Nat : AdvertRows(l, m, c + 1, c)
<1>1. ASSUME NEW key PROVE HeardOf(l, key, a, b) = {}
  BY DEF HeardOf, IsPacket
<1>2. ASSUME NEW c \in Nat, NEW key PROVE HeardOf(l, key, c + 1, c) = {}
  BY DEF HeardOf
<1>3. QED
  BY <1>1, <1>2 DEF AdvertRows, EmptyMap

LEMMA AdvertsFresh ==
  ASSUME NEW l, NEW c \in Nat
  PROVE  AdvertRows(l, EmptyMap, c + 1, c)
<1>1. \A i \in (c + 1)..c : l[i].kind = "dropped"
  OBVIOUS
<1>2. c + 1 \in Nat
  OBVIOUS
<1>3. QED
  BY <1>1, <1>2, AdvertsNone

AdvertsInv ==
    /\ InStep
    /\ \E r : Reached(r) /\ Once(r) /\ AdvertRows(log, mem["nodes"], cursor + 1, r)
    /\ AdvertRows(log, tables["nodes"], 1, dbCursor)
    /\ ppc = "flush" /\ Flushed("nodes") => AdvertRows(log, tx["nodes"], 1, upto)

LEMMA AdvertsInit == ASSUME "nodes" \in StageSet, Init PROVE AdvertsInv
<1>1. /\ mem["nodes"] = EmptyMap /\ tables["nodes"] = EmptyMap
      /\ cursor = 0 /\ dbCursor = 0 /\ ppc = "down" /\ log = <<>>
  BY DEF Init, EmptyMemory, EmptyTable
<1>2. Reached(0) /\ Once(0) /\ InStep
  BY <1>1 DEF Reached, Once, InStep
<1>3. AdvertRows(log, EmptyMap, 0 + 1, 0)
  BY AdvertsFresh
<1>4. AdvertRows(log, EmptyMap, 1, 0)
  BY <1>3
<1>5. QED
  BY <1>1, <1>2, <1>3, <1>4 DEF AdvertsInv

LEMMA AdvertsStep ==
  ASSUME Loop, Batch, [Next]_vars, "nodes" \in StageSet, AdvertsInv
  PROVE  AdvertsInv'
<1> DEFINE s == "nodes"
<1>1. PICK r : Reached(r) /\ Once(r) /\ AdvertRows(log, mem[s], cursor + 1, r)
  BY DEF AdvertsInv
<1>2. /\ InStep
      /\ AdvertRows(log, tables[s], 1, dbCursor)
      /\ ppc = "flush" /\ Flushed(s) => AdvertRows(log, tx[s], 1, upto)
  BY DEF AdvertsInv
<1>3. /\ log \in Seq(EventSet) /\ Len(log) \in Nat
      /\ cursor \in Nat /\ dbCursor \in Nat /\ upto \in Nat /\ cursor + 1 \in Nat \ {0}
      /\ cursor <= dbCursor /\ dbCursor <= Len(log)
      /\ r \in Nat /\ cursor <= r /\ r <= Len(log)
      /\ ppc = "flush" => dbCursor <= upto /\ upto <= Len(log) /\ r = upto
  BY <1>1 DEF Loop, Reached
<1>4. InStep'
  BY <1>2, LoopMoves
<1>5. ASSUME NEW t, NEW a \in Nat \ {0}, NEW b \in Nat, b <= Len(log), AdvertRows(log, t, a, b)
      PROVE  AdvertRows(log', t, a, b)
  <2>1. \A i \in 1..b : log'[i] = log[i]
    BY <1>3, <1>5, LogKept
  <2>2. QED
    BY <1>5, <2>1, AdvertsKept
<1>6. CASE Quiet(s, r)
  <2>1. /\ mem'[s] = mem[s] /\ tables'[s] = tables[s] /\ UNCHANGED <<dbCursor, cursor>>
        /\ Reached(r)'
        /\ ppc' = "flush" /\ Flushed(s)' =>
             ppc = "flush" /\ Flushed(s) /\ tx'[s] = tx[s] /\ upto' = upto
    BY <1>6 DEF Quiet
  <2>2. Once(r)'
    BY <1>1, <1>6, OnceKept
  <2>3. AdvertRows(log', mem'[s], cursor' + 1, r) /\ AdvertRows(log', tables'[s], 1, dbCursor')
    BY <1>1, <1>2, <1>3, <1>5, <2>1
  <2>4. ppc' = "flush" /\ Flushed(s)' => AdvertRows(log', tx'[s], 1, upto')
    BY <1>2, <1>3, <1>5, <2>1
  <2>5. QED
    BY <1>4, <2>1, <2>2, <2>3, <2>4 DEF AdvertsInv
<1>7. CASE Takes(s, r)
  <2>1. PICK q \in {Later(r, pos)} : Reached(q)' /\ Once(q)' /\ (Exact => pos = r + 1 /\ q = pos)
    BY <1>1, <1>7, OnceKept
  <2>2. /\ ppc' = "apply" /\ cursor < pos /\ pos \in 1..Len(log) /\ pos <= r + 1
        /\ UNCHANGED <<log, tables, dbCursor, cursor>>
    BY <1>7 DEF Takes
  <2>3. mem'[s] = NodesApply(mem[s], log[pos])
    <3>1. log[pos].kind = "dropped" => NodesApply(mem[s], log[pos]) = mem[s]
      BY DEF NodesApply, IsPacket
    <3>2. Apply(s, mem[s], log[pos]) = NodesApply(mem[s], log[pos])
      BY DEF Apply
    <3>3. QED
      BY <1>7, <3>1, <3>2 DEF Takes
  <2>4. AdvertRows(log, NodesApply(mem[s], log[pos]), cursor + 1, q)
    <3>1. cursor + 1 <= pos /\ q = Later(r, pos)
      BY <1>3, <2>1, <2>2
    <3>2. QED
      BY <1>1, <1>3, <2>1, <2>2, <3>1, AdvertsApplied
  <2>5. QED
    BY <1>2, <1>4, <2>1, <2>2, <2>3, <2>4 DEF AdvertsInv
<1>8. CASE InTurn(s) /\ (Writes(s, r) \/ Breaks(s, r))
  <2>1. ppc = "flush" /\ tx[s] = tables[s]
    BY <1>8 DEF InTurn
  <2>2. /\ FlushTable(s, mem[s]) = NodesFlushTable(mem[s], tx[s])
        /\ FlushMem(s, mem[s], Dirty(s, mem[s])) = mem[s]
        /\ LeftBehind(s, mem[s]) = {mem[s]}
    <3>1. Interrupted(s, mem[s]) = {mem[s]} /\ Dirty(s, mem[s]) = {}
      BY DEF Interrupted, Dirty
    <3>2. (SUBSET {}) \ {{}} = {}
      OBVIOUS
    <3>3. QED
      BY <3>1, <3>2 DEF LeftBehind, FlushTable, FlushMem, NodesFlushMem
  <2>3. AdvertRows(log, NodesFlushTable(mem[s], tx[s]), 1, upto)
    <3>1. /\ AdvertRows(log, tx[s], 1, dbCursor) /\ AdvertRows(log, mem[s], cursor + 1, upto)
          /\ cursor + 1 <= dbCursor + 1 /\ dbCursor <= upto /\ upto <= Len(log)
          /\ Exact => cursor + 1 = dbCursor + 1
      BY <1>1, <1>2, <1>3, <2>1 DEF InStep
    <3>2. QED
      BY <1>3, <3>1, AdvertsFlushed
  <2>4. /\ UNCHANGED <<log, tables, dbCursor, cursor>> /\ Reached(r)' /\ mem'[s] = mem[s]
        /\ ppc' \in {"flush", "idle"}
        /\ ppc' = "flush" => tx'[s] = FlushTable(s, mem[s]) /\ upto' = upto
    BY <1>8, <2>2 DEF Writes, Breaks
  <2>5. Once(r)'
    BY <1>1, <1>8, OnceKept
  <2>6. QED
    BY <1>1, <1>2, <1>4, <2>2, <2>3, <2>4, <2>5 DEF AdvertsInv
<1>9. CASE Commits(s, r)
  <2>1. /\ ppc = "flush" /\ Flushed(s) /\ ppc' \in {"idle", "settle"}
        /\ tables'[s] = tx[s] /\ dbCursor' = upto
        /\ mem'[s] = mem[s] /\ UNCHANGED <<log, cursor>> /\ Reached(r)'
    BY <1>9 DEF Commits
  <2>2. Once(r)'
    BY <1>1, <1>9, OnceKept
  <2>3. QED
    BY <1>1, <1>2, <1>4, <2>1, <2>2 DEF AdvertsInv
<1>10. CASE Settles(s, r)
  <2>1. /\ ppc' = "idle" /\ cursor' = r /\ Reached(r)' /\ UNCHANGED <<log, tables, dbCursor>>
        /\ mem'[s] = IF hwm = ZeroTime THEN AfterNotify(s, mem[s])
                     ELSE Evict(s, AfterNotify(s, mem[s]), hwm)
        /\ hwm = ZeroTime => \A i \in (cursor + 1)..r : log[i].kind = "dropped"
    BY <1>10 DEF Settles
  <2>2. AfterNotify(s, mem[s]) = mem[s] /\ Evict(s, mem[s], hwm) = EmptyMap
    BY DEF AfterNotify, Evict, NodesEvict
  <2>3. AdvertRows(log, mem'[s], r + 1, r)
    <3>1. CASE hwm = ZeroTime
      BY <1>1, <1>3, <2>1, <2>2, <3>1, AdvertsNone
    <3>2. CASE hwm # ZeroTime
      BY <1>3, <2>1, <2>2, <3>2, AdvertsFresh
    <3>3. QED
      BY <3>1, <3>2
  <2>4. Once(r)'
    BY <1>1, <1>10, OnceKept
  <2>5. QED
    BY <1>2, <1>4, <2>1, <2>3, <2>4 DEF AdvertsInv
<1>11. CASE Restarts(s)
  <2>1. PICK q \in {cursor'} : Reached(q)' /\ Once(q)'
    BY <1>1, <1>11, OnceKept
  <2>2. /\ mem'[s] = EmptyMap /\ ppc' \in {"down", "idle"} /\ log' = log
        /\ \/ tables'[s] = tables[s] /\ dbCursor' = dbCursor
           \/ tables'[s] = EmptyMap /\ dbCursor' = 0
    BY <1>11 DEF Restarts, EmptyMemory, EmptyTable
  <2>3. q = cursor' /\ q \in Nat
    BY <2>1 DEF Reached
  <2>4. AdvertRows(log', mem'[s], q + 1, q)
    BY <2>2, <2>3, AdvertsFresh
  <2>5. AdvertRows(log', tables'[s], 1, dbCursor')
    <3>1. AdvertRows(log, EmptyMap, 0 + 1, 0)
      BY AdvertsFresh
    <3>2. AdvertRows(log, EmptyMap, 1, 0)
      BY <3>1
    <3>3. QED
      BY <1>2, <2>2, <3>2
  <2>6. QED
    BY <1>4, <2>1, <2>2, <2>3, <2>4, <2>5 DEF AdvertsInv
<1>12. QED
  BY <1>1, <1>6, <1>7, <1>8, <1>9, <1>10, <1>11, StageSteps DEF Writes, Breaks

(* advert_count, first_seen and last_seen are those of the adverts logged,  *)
(* as long as every batch is committed and known to be: stragglers, crashes *)
(* between any two steps and a rebuild make no difference.                  *)
THEOREM AdvertsCountedHolds ==
  ASSUME "nodes" \in StageSet, Faults \cap {"fail", "lostAck"} = {}
  PROVE  Spec => []AdvertsCounted
<1>1. Loop /\ AdvertsInv => AdvertsCounted
  <2> SUFFICES ASSUME Loop, AdvertsInv PROVE AdvertsCounted
    OBVIOUS
  <2>1. log \in Seq(EventSet) /\ dbCursor \in Nat /\ dbCursor <= Len(log) /\ Len(log) \in Nat
    BY DEF Loop
  <2>2. \A key : AdvertsOf(key) = HeardOf(log, key, 1, dbCursor)
    BY DEF AdvertsOf, Adverts, PacketsWith, Projected, HeardOf
  <2>3. AdvertRows(log, NodeRows, 1, dbCursor)
    BY DEF AdvertsInv, NodeRows
  <2>4. \A key : key \in NodeKeys <=> AdvertsOf(key) # {}
    BY DEF NodeKeys, AdvertsOf
  <2>5. NodeKeys = DOMAIN NodeRows
    BY <2>2, <2>3, <2>4 DEF AdvertRows
  <2>6. ASSUME NEW key \in NodeKeys
        PROVE  /\ NodeRows[key].count = Cardinality(AdvertsOf(key))
               /\ NodeRows[key].first = Min({log[i].ts : i \in AdvertsOf(key)})
               /\ NodeRows[key].last = Max({log[i].ts : i \in AdvertsOf(key)})
    <3> DEFINE S == AdvertsOf(key)
               row == NodeRows[key]
    <3>1. AdvertRow(log, row, S)
      BY <2>2, <2>3, <2>5 DEF AdvertRows
    <3>2. S \in SUBSET (1..Len(log))
      BY <2>1, <2>2 DEF HeardOf
    <3> HIDE DEF S, row
    <3>3. row.count = Cardinality(S)
      BY <3>1 DEF AdvertRow, Counts, Exact
    <3>4. row.first = Min({log[i].ts : i \in S}) /\ row.last = Max({log[i].ts : i \in S})
      BY <2>1, <3>1, <3>2, LowestIsMin, HighestIsMax DEF AdvertRow
    <3>5. QED
      BY <3>3, <3>4 DEF S, row
  <2>7. QED
    BY <2>5, <2>6 DEF AdvertsCounted
<1>2. Init => AdvertsInv
  BY AdvertsInit
<1>3. ASSUME Loop /\ Batch /\ SharesInv, AdvertsInv, [Next]_vars PROVE AdvertsInv'
  BY <1>3, AdvertsStep
<1>4. QED
  BY <1>1, <1>2, <1>3, SharesHold, PTL DEF Spec

-----------------------------------------------------------------------------
(* The neighbor rollup, while every batch is committed and known to be.  A  *)
(* neighbor in memory is loaded and complete, or has the packets of this    *)
(* batch only and is still to be read back and written.                     *)
PacketsFrom(l, k, a, b) ==
    {i \in a..b : IsPacket(l[i]) /\ l[i].src # None /\ NeighborKey(l[i]) = k}

NeighborFields == {"packets", "sum", "n", "min", "max", "loaded", "dirty"}

NeighborTotals(l, st, S) ==
    Counts(st.packets, S) /\ Least(l, st.min, S, S) /\ Greatest(l, st.max, S, S)

NeighborEntry(l, st, k, a, b) ==
    /\ DOMAIN st = NeighborFields /\ st.loaded \in BOOLEAN /\ st.dirty \in BOOLEAN
    /\ PacketsFrom(l, k, 1, b) # {}
    /\ st.loaded \/ st.dirty
    /\ NeighborTotals(l, st, PacketsFrom(l, k, IF st.loaded THEN 1 ELSE a, b))

NeighborMemory(l, m, a, b) == \A k \in DOMAIN m : NeighborEntry(l, m[k], k, a, b)
NeighborMarked(l, m, a, b) ==
    \A i \in a..b : IsPacket(l[i]) /\ l[i].src # None =>
        NeighborKey(l[i]) \in DOMAIN m /\ m[NeighborKey(l[i])].dirty
NeighborLoaded(m) == \A k \in DOMAIN m : m[k].loaded

NeighborRows(l, t, b) ==
    /\ \A k : k \in DOMAIN t <=> PacketsFrom(l, k, 1, b) # {}
    /\ \A k \in DOMAIN t : NeighborTotals(l, t[k], PacketsFrom(l, k, 1, b))

LEMMA NeighborPackets ==
  ASSUME NEW l, NEW k, NEW a \in Nat \ {0}, NEW b \in Nat, NEW n \in Nat, b <= n
  PROVE  /\ PacketsFrom(l, k, a, b) \in SUBSET PacketsAt(l, 1, n)
         /\ PacketsFrom(l, k, a, b) \in SUBSET PacketsFrom(l, k, 1, b)
  BY DEF PacketsFrom, PacketsAt

LEMMA NeighborJoin ==
  ASSUME NEW l \in Seq(EventSet), NEW S \in SUBSET PacketsAt(l, 1, Len(l)),
         NEW T \in SUBSET PacketsAt(l, 1, Len(l)), S \cap T = {},
         NEW st, NeighborTotals(l, st, S), NEW inc, NeighborTotals(l, inc, T),
         NEW new, new.packets = st.packets + inc.packets,
         new.min = OptMin(st.min, inc.min), new.max = OptMax(st.max, inc.max)
  PROVE  NeighborTotals(l, new, S \cup T)
<1> DEFINE W == S \cup T
<1>1. W \in SUBSET PacketsAt(l, 1, Len(l)) /\ S \in SUBSET W /\ T \in SUBSET W
      /\ S \in SUBSET S /\ T \in SUBSET T
  OBVIOUS
<1> HIDE DEF W
<1>2. Counts(new.packets, S \cup T)
  <2>1. IsFiniteSet(S) /\ IsFiniteSet(T)
    BY PositionsFinite
  <2>2. Counts(st.packets, S) /\ Counts(inc.packets, T)
    BY DEF NeighborTotals
  <2>3. QED
    BY <2>1, <2>2, CountsJoin
<1>3. /\ Least(l, st.min, S, S) /\ Greatest(l, st.max, S, S)
      /\ Least(l, inc.min, T, T) /\ Greatest(l, inc.max, T, T)
  BY DEF NeighborTotals
<1>4. Least(l, st.min, S, W) /\ Greatest(l, st.max, S, W)
  BY <1>1, <1>3, BoundsMoved
<1>5. Least(l, inc.min, T, W) /\ Greatest(l, inc.max, T, W)
  BY <1>1, <1>3, BoundsMoved
<1>6. Least(l, new.min, S \cup T, W) /\ Greatest(l, new.max, S \cup T, W)
  <2>1. /\ Least(l, OptMin(st.min, inc.min), S \cup T, W)
        /\ Greatest(l, OptMax(st.max, inc.max), S \cup T, W)
    <3> DEFINE lo == st.min
               hi == st.max
               low == inc.min
               high == inc.max
    <3>1. /\ Least(l, lo, S, W) /\ Greatest(l, hi, S, W)
          /\ Least(l, low, T, W) /\ Greatest(l, high, T, W)
      BY <1>4, <1>5
    <3> HIDE DEF lo, hi, low, high
    <3>2. Least(l, OptMin(lo, low), S \cup T, W)
      BY <1>1, <3>1, BoundsJoin
    <3>3. Greatest(l, OptMax(hi, high), S \cup T, W)
      BY <1>1, <3>1, BoundsJoin
    <3>4. QED
      BY <3>2, <3>3 DEF lo, hi, low, high
  <2>2. QED
    BY <2>1
<1>7. Least(l, new.min, S \cup T, S \cup T) /\ Greatest(l, new.max, S \cup T, S \cup T)
  BY <1>6 DEF W
<1>8. QED
  BY <1>2, <1>7 DEF NeighborTotals

LEMMA NeighborOfOne ==
  ASSUME NEW l \in Seq(EventSet), NEW p \in PacketsAt(l, 1, Len(l)),
         NEW inc, inc.packets = 1, inc.min = l[p].rssi, inc.max = l[p].rssi
  PROVE  NeighborTotals(l, inc, {p})
<1>1. Counts(1, {p})
  <2>1. Cardinality({p}) = 1
    BY FS_Singleton
  <2>2. QED
    BY <2>1 DEF Counts
<1>2. Least(l, inc.min, {p}, {p}) /\ Greatest(l, inc.max, {p}, {p})
  <2>1. CASE l[p].rssi = None
    <3>1. HeardIn(l, {p}) = {}
      BY <2>1 DEF HeardIn
    <3>2. QED
      BY <2>1, <3>1 DEF Least, Greatest
  <2>2. CASE l[p].rssi # None
    <3>1. HeardIn(l, {p}) = {p}
      BY <2>2 DEF HeardIn
    <3>2. l[p].rssi \in Int
      <4>1. {p} \in SUBSET PacketsAt(l, 1, Len(l))
        OBVIOUS
      <4>2. QED
        BY <3>1, <4>1, Rssi
    <3>3. l[p].rssi <= l[p].rssi
      BY <3>2
    <3>4. QED
      BY <3>1, <3>3 DEF Least, Greatest
  <2>3. QED
    BY <2>1, <2>2
<1>3. QED
  BY <1>1, <1>2 DEF NeighborTotals

LEMMA NeighborOfNone ==
  ASSUME NEW l, NEW st, st.packets = 0, st.min = None, st.max = None
  PROVE  NeighborTotals(l, st, {})
<1>1. Counts(0, {})
  <2>1. Cardinality({}) = 0
    BY FS_EmptySet
  <2>2. QED
    BY <2>1 DEF Counts
<1>2. HeardIn(l, {}) = {}
  BY DEF HeardIn
<1>3. QED
  BY <1>1, <1>2 DEF NeighborTotals, Least, Greatest

(* The memory after one more event. *)
LEMMA NeighborApplied ==
  ASSUME NEW l \in Seq(EventSet), NEW m, NEW a \in Nat \ {0}, NEW b \in Nat, NEW p,
         p = b + 1, p <= Len(l), a <= p,
         NeighborMemory(l, m, a, b), NeighborMarked(l, m, a, b)
  PROVE  NeighborMemory(l, NeighborApply(m, l[p]), a, p) /\
         NeighborMarked(l, NeighborApply(m, l[p]), a, p)
<1> DEFINE e == l[p]
           k == NeighborKey(e)
<1>1. p \in 1..Len(l) /\ b < p /\ p \in Nat /\ b <= Len(l) /\ Len(l) \in Nat
  OBVIOUS
<1>2. \A f \in 1..p : \A i : i \in f..p <=> i \in f..b \/ i = p
  BY <1>1
<1>3. ASSUME NEW x, NEW f \in 1..p, ~(IsPacket(e) /\ e.src # None /\ x = k)
      PROVE  PacketsFrom(l, x, f, p) = PacketsFrom(l, x, f, b)
  BY <1>2, <1>3 DEF PacketsFrom
<1>4. ASSUME NEW x, NEW st, NeighborEntry(l, st, x, a, b), ~(IsPacket(e) /\ e.src # None /\ x = k)
      PROVE  NeighborEntry(l, st, x, a, p)
  <2>1. (IF st.loaded THEN 1 ELSE a) \in 1..p /\ 1 \in 1..p
    BY <1>1
  <2>2. QED
    BY <1>3, <1>4, <2>1 DEF NeighborEntry
<1>5. CASE ~(IsPacket(e) /\ e.src # None)
  <2>1. NeighborApply(m, e) = m
    BY <1>5 DEF NeighborApply
  <2>2. NeighborMemory(l, m, a, p)
    BY <1>4, <1>5 DEF NeighborMemory
  <2>3. NeighborMarked(l, m, a, p)
    <3>1. a \in 1..p
      BY <1>1
    <3>2. QED
      BY <1>2, <1>5, <3>1 DEF NeighborMarked
  <2>4. QED
    BY <2>1, <2>2, <2>3
<1>6. CASE IsPacket(e) /\ e.src # None
  <2> DEFINE acc == IF k \in DOMAIN m THEN m[k] ELSE FreshNeighbor
             heard == e.rssi # None
             new == [acc EXCEPT !.packets = @ + 1,
                                !.sum = IF heard THEN @ + e.rssi ELSE @,
                                !.n = IF heard THEN @ + 1 ELSE @,
                                !.min = OptMin(@, e.rssi),
                                !.max = OptMax(@, e.rssi),
                                !.dirty = TRUE]
             f == IF acc.loaded THEN 1 ELSE a
             S == PacketsFrom(l, k, f, b)
  <2>1. NeighborApply(m, e) = Put(m, k, new)
    BY <1>6 DEF NeighborApply
  <2>2. DOMAIN acc = NeighborFields /\ acc.loaded \in BOOLEAN /\ NeighborTotals(l, acc, S)
    <3>1. CASE k \in DOMAIN m
      BY <3>1 DEF NeighborMemory, NeighborEntry
    <3>2. CASE k \notin DOMAIN m
      <4>1. acc = FreshNeighbor
        BY <3>2
      <4>2. /\ DOMAIN acc = NeighborFields /\ acc.loaded = FALSE
            /\ acc.packets = 0 /\ acc.min = None /\ acc.max = None
        BY <4>1 DEF FreshNeighbor, NeighborFields
      <4>3. S = {}
        BY <3>2, <4>2 DEF PacketsFrom, NeighborMarked
      <4> HIDE DEF acc, S
      <4>4. NeighborTotals(l, acc, {})
        BY <4>2, NeighborOfNone
      <4>5. QED
        BY <4>2, <4>3, <4>4
    <3>3. QED
      BY <3>1, <3>2
  <2>3. f \in 1..p
    BY <1>1
  <2>4. PacketsFrom(l, k, f, p) = S \cup {p} /\ S \cap {p} = {}
        /\ S \in SUBSET PacketsAt(l, 1, Len(l)) /\ p \in PacketsAt(l, 1, Len(l))
    BY <1>1, <1>2, <1>6, <2>3 DEF PacketsFrom, PacketsAt
  <2>5. p \in PacketsFrom(l, k, 1, p)
    BY <1>1, <1>6 DEF PacketsFrom
  <2> HIDE DEF acc
  <2>6. /\ new.packets = acc.packets + 1
        /\ new.min = OptMin(acc.min, e.rssi) /\ new.max = OptMax(acc.max, e.rssi)
        /\ new.dirty = TRUE /\ new.loaded = acc.loaded /\ DOMAIN new = NeighborFields
    BY <2>2 DEF NeighborFields
  <2> HIDE DEF new
  <2>7. NeighborTotals(l, new, PacketsFrom(l, k, f, p))
    <3> DEFINE one == [packets |-> 1, min |-> e.rssi, max |-> e.rssi]
    <3>1. one.packets = 1 /\ one.min = e.rssi /\ one.max = e.rssi
      OBVIOUS
    <3> HIDE DEF one
    <3>2. NeighborTotals(l, one, {p})
      BY <2>4, <3>1, NeighborOfOne
    <3>3. {p} \in SUBSET PacketsAt(l, 1, Len(l))
      BY <2>4
    <3>4. /\ new.packets = acc.packets + one.packets
          /\ new.min = OptMin(acc.min, one.min) /\ new.max = OptMax(acc.max, one.max)
      BY <2>6, <3>1
    <3> HIDE DEF S, f
    <3>5. NeighborTotals(l, new, S \cup {p})
      BY <2>2, <2>4, <3>2, <3>3, <3>4, NeighborJoin
    <3>6. QED
      BY <2>4, <3>5
  <2>8. NeighborEntry(l, new, k, a, p)
    BY <2>2, <2>5, <2>6, <2>7 DEF NeighborEntry
  <2>9. /\ DOMAIN Put(m, k, new) = DOMAIN m \cup {k}
        /\ Put(m, k, new)[k] = new
        /\ \A x \in DOMAIN m \ {k} : Put(m, k, new)[x] = m[x]
    BY DEF Put
  <2>10. NeighborMemory(l, Put(m, k, new), a, p)
    <3>1. ASSUME NEW x \in DOMAIN m \ {k} PROVE NeighborEntry(l, m[x], x, a, p)
      BY <1>4 DEF NeighborMemory
    <3>2. QED
      BY <2>8, <2>9, <3>1 DEF NeighborMemory
  <2>11. NeighborMarked(l, Put(m, k, new), a, p)
    <3>1. ASSUME NEW i \in a..p, IsPacket(l[i]), l[i].src # None
          PROVE  /\ NeighborKey(l[i]) \in DOMAIN Put(m, k, new)
                 /\ Put(m, k, new)[NeighborKey(l[i])].dirty
      <4>1. CASE NeighborKey(l[i]) = k
        BY <2>6, <2>9, <4>1
      <4>2. CASE NeighborKey(l[i]) # k
        <5>1. i \in a..b
          BY <1>1, <4>2
        <5>2. NeighborKey(l[i]) \in DOMAIN m /\ m[NeighborKey(l[i])].dirty
          BY <3>1, <5>1 DEF NeighborMarked
        <5>3. QED
          BY <2>9, <4>2, <5>2
      <4>3. QED
        BY <4>1, <4>2
    <3>2. QED
      BY <3>1 DEF NeighborMarked
  <2>12. QED
    BY <2>1, <2>10, <2>11
<1>7. QED
  BY <1>5, <1>6

(* A neighbor read back has the packets of the whole log. *)
LEMMA NeighborRead1 ==
  ASSUME NEW l \in Seq(EventSet), NEW m, NEW t, NEW d \in Nat, NEW u \in Nat, d <= u, u <= Len(l),
         NeighborMemory(l, m, d + 1, u), NeighborRows(l, t, d),
         NEW k \in DOMAIN m,
         NEW full, full = NeighborRehydrate(m, t)[k]
  PROVE  /\ NeighborEntry(l, full, k, d + 1, u)
         /\ full.loaded /\ full.dirty = m[k].dirty
<1> DEFINE st == m[k]
<1>1. NeighborEntry(l, st, k, d + 1, u)
  BY DEF NeighborMemory
<1>2. CASE st.loaded
  <2>1. full = st
    BY <1>2 DEF NeighborRehydrate, NeighborPending
  <2>2. QED
    BY <1>1, <1>2, <2>1
<1>3. CASE ~st.loaded
  <2>1. st.dirty /\ st.loaded = FALSE
    BY <1>1, <1>3 DEF NeighborEntry
  <2> DEFINE read == IF k \in DOMAIN t THEN WithNeighborRow(st, t[k]) ELSE st
             S == PacketsFrom(l, k, d + 1, u)
             T == PacketsFrom(l, k, 1, d)
  <2>2. full = [read EXCEPT !.loaded = TRUE]
    BY <1>3, <2>1 DEF NeighborRehydrate, NeighborPending, NeighborRead
  <2>3. /\ S \in SUBSET PacketsAt(l, 1, Len(l)) /\ T \in SUBSET PacketsAt(l, 1, Len(l))
        /\ S \cap T = {} /\ PacketsFrom(l, k, 1, u) = S \cup T
    <3>1. \A i : i \in 1..u <=> i \in (d + 1)..u \/ i \in 1..d
      OBVIOUS
    <3>2. \A i : ~(i \in (d + 1)..u /\ i \in 1..d)
      OBVIOUS
    <3>3. \A i \in 1..u : i \in 1..Len(l)
      OBVIOUS
    <3>4. QED
      BY <3>1, <3>2, <3>3 DEF PacketsFrom, PacketsAt
  <2>4. NeighborTotals(l, st, S) /\ DOMAIN st = NeighborFields
    BY <1>1, <2>1 DEF NeighborEntry
  <2>5. DOMAIN read = NeighborFields /\ read.loaded = st.loaded /\ read.dirty = st.dirty
    <3> HIDE DEF st
    <3>1. QED
      BY <2>4 DEF WithNeighborRow, NeighborFields
  <2>6. NeighborTotals(l, read, S \cup T)
    <3>1. CASE k \in DOMAIN t
      <4> DEFINE row == t[k]
      <4>1. NeighborTotals(l, row, T)
        BY <3>1 DEF NeighborRows
      <4>2. read = WithNeighborRow(st, row)
        BY <3>1
      <4> HIDE DEF row, st, read
      <4>3. /\ read.packets = st.packets + row.packets
            /\ read.min = OptMin(st.min, row.min) /\ read.max = OptMax(st.max, row.max)
        BY <2>4, <4>2 DEF WithNeighborRow, NeighborFields
      <4> HIDE DEF S, T
      <4>4. QED
        BY <2>3, <2>4, <4>1, <4>3, NeighborJoin
    <3>2. CASE k \notin DOMAIN t
      <4>1. read = st /\ T = {}
        BY <3>2 DEF NeighborRows
      <4>2. S \cup T = S
        BY <4>1
      <4>3. QED
        BY <2>4, <4>1, <4>2
    <3>3. QED
      BY <3>1, <3>2
  <2> HIDE DEF read, S, T
  <2>7. /\ DOMAIN full = NeighborFields /\ full.loaded = TRUE /\ full.dirty = read.dirty
        /\ full.packets = read.packets /\ full.min = read.min /\ full.max = read.max
    BY <2>2, <2>5 DEF NeighborFields
  <2>8. NeighborTotals(l, full, PacketsFrom(l, k, 1, u))
    BY <2>3, <2>6, <2>7 DEF NeighborTotals
  <2>9. PacketsFrom(l, k, 1, u) # {} /\ full.dirty \in BOOLEAN
    BY <1>1, <2>5, <2>7 DEF NeighborEntry
  <2>10. NeighborEntry(l, full, k, d + 1, u)
    BY <2>7, <2>8, <2>9 DEF NeighborEntry
  <2>11. QED
    BY <2>5, <2>7, <2>10
<1>4. QED
  BY <1>2, <1>3

(* After a flush the rows are those of the log up to u, and all of memory   *)
(* is loaded.                                                               *)
LEMMA NeighborFlushed ==
  ASSUME NEW l \in Seq(EventSet), NEW m, NEW t, NEW d \in Nat, NEW u \in Nat, d <= u, u <= Len(l),
         NeighborMemory(l, m, d + 1, u), NeighborMarked(l, m, d + 1, u), NeighborRows(l, t, d)
  PROVE  /\ NeighborRows(l, NeighborFlushTable(m, t), u)
         /\ NeighborMemory(l, NeighborFlushMem(m, t, NeighborDirty(m)), d + 1, u)
         /\ NeighborLoaded(NeighborFlushMem(m, t, NeighborDirty(m)))
<1> DEFINE full == NeighborRehydrate(m, t)
           rows == NeighborFlushTable(m, t)
           new == NeighborFlushMem(m, t, NeighborDirty(m))
           dirty == NeighborDirty(m)
<1>1. ASSUME NEW k \in DOMAIN m
      PROVE  /\ NeighborEntry(l, full[k], k, d + 1, u)
             /\ full[k].loaded /\ full[k].dirty = m[k].dirty
  BY NeighborRead1
<1>2. /\ DOMAIN rows = DOMAIN t \cup dirty
      /\ \A k \in dirty : rows[k] = NeighborRow(full[k])
      /\ \A k \in DOMAIN t \ dirty : rows[k] = t[k]
      /\ \A k : k \in dirty <=> k \in DOMAIN m /\ m[k].dirty
  BY DEF NeighborFlushTable, NeighborDirty
<1>3. /\ DOMAIN new = DOMAIN m
      /\ \A k \in DOMAIN m : new[k] = IF k \in dirty THEN [full[k] EXCEPT !.dirty = FALSE]
                                                     ELSE full[k]
  BY DEF NeighborFlushMem
<1> HIDE DEF full, rows, new, dirty
<1>4. ASSUME NEW k, k \notin dirty PROVE PacketsFrom(l, k, 1, u) = PacketsFrom(l, k, 1, d)
  <2>1. \A i : i \in 1..u <=> i \in (d + 1)..u \/ i \in 1..d
    OBVIOUS
  <2>2. ASSUME NEW i \in (d + 1)..u, IsPacket(l[i]), l[i].src # None, NeighborKey(l[i]) = k
        PROVE  FALSE
    BY <1>2, <1>4, <2>2 DEF NeighborMarked
  <2>3. QED
    BY <2>1, <2>2 DEF PacketsFrom
<1>5. ASSUME NEW k PROVE k \in DOMAIN rows <=> PacketsFrom(l, k, 1, u) # {}
  <2>1. CASE k \in dirty
    BY <1>1, <1>2, <2>1 DEF NeighborEntry
  <2>2. CASE k \notin dirty
    BY <1>2, <1>4, <2>2 DEF NeighborRows
  <2>3. QED
    BY <2>1, <2>2
<1>6. ASSUME NEW k \in DOMAIN rows PROVE NeighborTotals(l, rows[k], PacketsFrom(l, k, 1, u))
  <2>1. CASE k \in dirty
    <3> DEFINE st == full[k]
    <3>1. NeighborTotals(l, st, PacketsFrom(l, k, 1, u))
      BY <1>1, <1>2, <2>1 DEF NeighborEntry
    <3>2. rows[k] = NeighborRow(st)
      BY <1>2, <2>1
    <3> HIDE DEF st
    <3>3. rows[k].packets = st.packets /\ rows[k].min = st.min /\ rows[k].max = st.max
      BY <3>2 DEF NeighborRow
    <3>4. QED
      BY <3>1, <3>3 DEF NeighborTotals
  <2>2. CASE k \notin dirty
    BY <1>2, <1>4, <2>2 DEF NeighborRows
  <2>3. QED
    BY <2>1, <2>2
<1>7. ASSUME NEW k \in DOMAIN m PROVE NeighborEntry(l, new[k], k, d + 1, u) /\ new[k].loaded
  <2> DEFINE st == full[k]
             cleared == [st EXCEPT !.dirty = FALSE]
  <2>1. NeighborEntry(l, st, k, d + 1, u) /\ st.loaded /\ new[k] \in {st, cleared}
    BY <1>1, <1>3
  <2> HIDE DEF st
  <2>2. /\ DOMAIN cleared = NeighborFields /\ cleared.loaded = st.loaded
        /\ cleared.dirty = FALSE /\ cleared.packets = st.packets
        /\ cleared.min = st.min /\ cleared.max = st.max
    BY <2>1 DEF NeighborEntry, NeighborFields
  <2> HIDE DEF cleared
  <2>3. NeighborEntry(l, cleared, k, d + 1, u) /\ cleared.loaded
    BY <2>1, <2>2 DEF NeighborEntry, NeighborTotals
  <2>4. QED
    BY <2>1, <2>3
<1>8. QED
  BY <1>3, <1>5, <1>6, <1>7 DEF NeighborRows, NeighborMemory, NeighborLoaded, rows, new

(* What is loaded is complete without the batch, also where Evict leaves it. *)
LEMMA NeighborMoves ==
  ASSUME NEW l, NEW m, NEW a, NEW b \in Nat, NeighborMemory(l, m, a, b), NeighborLoaded(m)
  PROVE  /\ NeighborMemory(l, m, b + 1, b)
         /\ \A time : NeighborMemory(l, NeighborEvict(m, time), b + 1, b)
<1>1. ASSUME NEW k \in DOMAIN m PROVE NeighborEntry(l, m[k], k, b + 1, b) /\ m[k].loaded
  BY DEF NeighborMemory, NeighborEntry, NeighborLoaded
<1>2. ASSUME NEW time PROVE NeighborMemory(l, NeighborEvict(m, time), b + 1, b)
  <2> DEFINE new == NeighborEvict(m, time)
  <2>1. /\ DOMAIN new \subseteq DOMAIN m
        /\ \A k \in DOMAIN new : new[k] = [m[k] EXCEPT !.dirty = FALSE]
    BY DEF NeighborEvict, Keeping
  <2> HIDE DEF new
  <2>2. ASSUME NEW k \in DOMAIN new PROVE NeighborEntry(l, new[k], k, b + 1, b)
    <3> DEFINE st == m[k]
    <3>1. NeighborEntry(l, st, k, b + 1, b) /\ st.loaded /\ new[k] = [st EXCEPT !.dirty = FALSE]
      BY <1>1, <2>1
    <3> HIDE DEF st
    <3>2. /\ DOMAIN new[k] = NeighborFields /\ new[k].loaded = st.loaded
          /\ new[k].dirty = FALSE /\ new[k].packets = st.packets
          /\ new[k].min = st.min /\ new[k].max = st.max
      BY <3>1 DEF NeighborEntry, NeighborFields
    <3>3. QED
      BY <3>1, <3>2 DEF NeighborEntry, NeighborTotals
  <2>3. QED
    BY <2>2 DEF NeighborMemory, new
<1>3. QED
  BY <1>1, <1>2 DEF NeighborMemory

(* All this is said of a part of the log that is only ever added to. *)
LEMMA NeighborKept ==
  ASSUME NEW l, NEW l2, NEW b \in Nat, \A i \in 1..b : l2[i] = l[i]
  PROVE  /\ \A m : \A a \in Nat \ {0} : NeighborMemory(l, m, a, b) => NeighborMemory(l2, m, a, b)
         /\ \A m : \A a \in Nat \ {0} : NeighborMarked(l, m, a, b) => NeighborMarked(l2, m, a, b)
         /\ \A t : NeighborRows(l, t, b) => NeighborRows(l2, t, b)
<1>1. ASSUME NEW k, NEW a \in Nat \ {0}
      PROVE  /\ PacketsFrom(l2, k, a, b) = PacketsFrom(l, k, a, b)
             /\ \A i \in PacketsFrom(l, k, a, b) : l2[i] = l[i]
  BY DEF PacketsFrom
<1>2. ASSUME NEW st, NEW S, \A i \in S : l2[i] = l[i], NeighborTotals(l, st, S)
      PROVE  NeighborTotals(l2, st, S)
  <2>1. HeardIn(l2, S) = HeardIn(l, S) /\ \A i \in HeardIn(l, S) : l2[i] = l[i]
    BY <1>2 DEF HeardIn
  <2>2. QED
    BY <1>2, <2>1 DEF NeighborTotals, Least, Greatest
<1>3. ASSUME NEW m, NEW a \in Nat \ {0}, NeighborMemory(l, m, a, b), NEW k \in DOMAIN m
      PROVE  NeighborEntry(l2, m[k], k, a, b)
  <2> DEFINE st == m[k]
             f == IF st.loaded THEN 1 ELSE a
  <2>1. NeighborEntry(l, st, k, a, b)
    BY <1>3 DEF NeighborMemory
  <2>2. f \in Nat \ {0} /\ 1 \in Nat \ {0}
    OBVIOUS
  <2>3. NeighborTotals(l2, st, PacketsFrom(l, k, f, b))
    BY <1>1, <1>2, <2>1, <2>2 DEF NeighborEntry
  <2>4. QED
    BY <1>1, <2>1, <2>2, <2>3 DEF NeighborEntry
<1>4. ASSUME NEW m, NEW a \in Nat \ {0}, NeighborMarked(l, m, a, b)
      PROVE  NeighborMarked(l2, m, a, b)
  BY <1>4 DEF NeighborMarked
<1>5. ASSUME NEW t, NeighborRows(l, t, b) PROVE NeighborRows(l2, t, b)
  <2>1. 1 \in Nat \ {0}
    OBVIOUS
  <2>2. ASSUME NEW k \in DOMAIN t PROVE NeighborTotals(l2, t[k], PacketsFrom(l, k, 1, b))
    BY <1>1, <1>2, <1>5, <2>1 DEF NeighborRows
  <2>3. QED
    BY <1>1, <1>5, <2>1, <2>2 DEF NeighborRows
<1>6. QED
  BY <1>3, <1>4, <1>5 DEF NeighborMemory

LEMMA NeighborEmpty ==
  ASSUME NEW l, NEW c \in Nat
  PROVE  /\ NeighborMemory(l, EmptyMap, c + 1, c) /\ NeighborLoaded(EmptyMap)
         /\ NeighborRows(l, EmptyMap, 0)
         /\ \A m : NeighborMarked(l, m, c + 1, c)
  BY DEF NeighborMemory, NeighborLoaded, NeighborRows, NeighborMarked, PacketsFrom, EmptyMap

NeighborDone == (ppc = "flush" /\ Flushed("rollup_neighbor")) \/ ppc = "settle"

NeighborInv ==
    /\ InStep
    /\ \E r : /\ Reached(r) /\ Once(r)
              /\ NeighborMemory(log, mem["rollup_neighbor"], cursor + 1, r)
              /\ IF NeighborDone
                 THEN NeighborLoaded(mem["rollup_neighbor"])
                 ELSE NeighborMarked(log, mem["rollup_neighbor"], cursor + 1, r)
    /\ NeighborRows(log, tables["rollup_neighbor"], dbCursor)
    /\ ppc = "flush" /\ Flushed("rollup_neighbor") =>
          NeighborRows(log, tx["rollup_neighbor"], upto)

LEMMA NeighborInit == ASSUME "rollup_neighbor" \in StageSet, Init PROVE NeighborInv
<1>1. /\ mem["rollup_neighbor"] = EmptyMap /\ tables["rollup_neighbor"] = EmptyMap
      /\ cursor = 0 /\ dbCursor = 0 /\ ppc = "down" /\ log = <<>>
  BY DEF Init, EmptyMemory, EmptyTable
<1>2. Reached(0) /\ Once(0) /\ InStep /\ ~NeighborDone
  BY <1>1 DEF Reached, Once, InStep, NeighborDone
<1>3. /\ NeighborMemory(log, EmptyMap, 0 + 1, 0)
      /\ NeighborMarked(log, EmptyMap, 0 + 1, 0) /\ NeighborRows(log, EmptyMap, 0)
  BY NeighborEmpty
<1>4. QED
  BY <1>1, <1>2, <1>3 DEF NeighborInv

LEMMA NeighborStep ==
  ASSUME Exact, Loop, Batch, [Next]_vars, "rollup_neighbor" \in StageSet, NeighborInv
  PROVE  NeighborInv'
<1> DEFINE s == "rollup_neighbor"
<1>1. PICK r : /\ Reached(r) /\ Once(r) /\ NeighborMemory(log, mem[s], cursor + 1, r)
               /\ NeighborDone => NeighborLoaded(mem[s])
               /\ ~NeighborDone => NeighborMarked(log, mem[s], cursor + 1, r)
  BY DEF NeighborInv
<1>2. /\ InStep
      /\ NeighborRows(log, tables[s], dbCursor)
      /\ ppc = "flush" /\ Flushed(s) => NeighborRows(log, tx[s], upto)
  BY DEF NeighborInv
<1>3. /\ log \in Seq(EventSet) /\ Len(log) \in Nat
      /\ cursor \in Nat /\ dbCursor \in Nat /\ upto \in Nat /\ cursor + 1 \in Nat \ {0}
      /\ dbCursor <= Len(log) /\ r \in Nat /\ cursor <= r /\ r <= Len(log)
      /\ ppc = "flush" => dbCursor <= upto /\ upto <= Len(log) /\ r = upto
  BY <1>1 DEF Loop, Reached
<1>4. InStep'
  BY <1>2, LoopMoves
<1>5. /\ \A m : NeighborMemory(log, m, cursor + 1, r) => NeighborMemory(log', m, cursor + 1, r)
      /\ \A m : NeighborMarked(log, m, cursor + 1, r) => NeighborMarked(log', m, cursor + 1, r)
      /\ \A t : NeighborRows(log, t, dbCursor) => NeighborRows(log', t, dbCursor)
      /\ ppc = "flush" => \A t : NeighborRows(log, t, upto) => NeighborRows(log', t, upto)
  <2>1. ASSUME NEW b \in Nat, b <= Len(log) PROVE \A i \in 1..b : log'[i] = log[i]
    BY <1>3, <2>1, LogKept
  <2>2. QED
    BY <1>3, <2>1, NeighborKept
<1>6. CASE Quiet(s, r)
  <2>1. /\ mem'[s] = mem[s] /\ tables'[s] = tables[s] /\ UNCHANGED <<dbCursor, cursor>>
        /\ Reached(r)'
        /\ ppc' = "flush" /\ Flushed(s)' =>
             ppc = "flush" /\ Flushed(s) /\ tx'[s] = tx[s] /\ upto' = upto
        /\ ppc' = "flush" => ppc = "apply" \/ (ppc = "flush" /\ (Flushed(s)' <=> Flushed(s)))
        /\ ppc' = "settle" => ppc = "settle"
    BY <1>6 DEF Quiet
  <2>2. Once(r)'
    BY <1>1, <1>6, OnceKept
  <2>3. NeighborMemory(log', mem'[s], cursor' + 1, r) /\ NeighborRows(log', tables'[s], dbCursor')
    BY <1>1, <1>2, <1>5, <2>1
  <2>4. ppc' = "flush" /\ Flushed(s)' => NeighborRows(log', tx'[s], upto')
    BY <1>2, <1>5, <2>1
  <2>5. NeighborDone' => NeighborLoaded(mem'[s])
    BY <1>1, <2>1 DEF NeighborDone
  <2>6. ~NeighborDone' => NeighborMarked(log', mem'[s], cursor' + 1, r)
    <3>1. CASE ~NeighborDone
      BY <1>1, <1>5, <2>1, <3>1
    <3>2. CASE NeighborDone
      <4>1. SUFFICES ASSUME ~NeighborDone' PROVE NeighborMarked(log', mem'[s], cursor' + 1, r)
        OBVIOUS
      <4>2. ppc' \in {"idle", "down"}
        <5>1. ppc \in {"flush", "settle"} /\ ppc' # "settle" /\ ppc' # "flush"
          BY <2>1, <3>2, <4>1 DEF NeighborDone
        <5>2. ppc' # "apply"
          BY <5>1, LoopMoves
        <5>3. ppc' \in {"down", "idle", "apply", "flush", "settle"}
          BY LoopStep DEF Loop
        <5>4. QED
          BY <5>1, <5>2, <5>3
      <4>3. r <= cursor'
        BY <1>3, <2>1, <2>2, <4>2 DEF Once, Reached, Exact
      <4>4. \A i \in (cursor' + 1)..r : FALSE
        BY <1>3, <2>1, <4>3
      <4>5. QED
        BY <4>4 DEF NeighborMarked
    <3>3. QED
      BY <3>1, <3>2
  <2>7. QED
    BY <1>4, <2>1, <2>2, <2>3, <2>4, <2>5, <2>6 DEF NeighborInv
<1>7. CASE Takes(s, r)
  <2>1. PICK q \in {Later(r, pos)} : Reached(q)' /\ Once(q)' /\ (Exact => pos = r + 1 /\ q = pos)
    BY <1>1, <1>7, OnceKept
  <2>2. /\ ppc = "apply" /\ ppc' = "apply" /\ cursor < pos /\ pos \in 1..Len(log)
        /\ UNCHANGED <<log, tables, dbCursor, cursor>>
    BY <1>7 DEF Takes
  <2>3. mem'[s] = NeighborApply(mem[s], log[pos])
    <3>1. log[pos].kind = "dropped" => NeighborApply(mem[s], log[pos]) = mem[s]
      BY DEF NeighborApply, IsPacket
    <3>2. Apply(s, mem[s], log[pos]) = NeighborApply(mem[s], log[pos])
      BY DEF Apply
    <3>3. QED
      BY <1>7, <3>1, <3>2 DEF Takes
  <2>4. ~NeighborDone /\ ~NeighborDone'
    BY <2>2 DEF NeighborDone
  <2>5. /\ NeighborMemory(log, NeighborApply(mem[s], log[pos]), cursor + 1, q)
        /\ NeighborMarked(log, NeighborApply(mem[s], log[pos]), cursor + 1, q)
    <3>1. cursor + 1 <= pos /\ pos <= Len(log) /\ pos = r + 1 /\ q = pos
      BY <1>3, <2>1, <2>2
    <3>2. QED
      BY <1>1, <1>3, <2>4, <3>1, NeighborApplied
  <2>6. QED
    BY <1>2, <1>4, <2>1, <2>2, <2>3, <2>4, <2>5 DEF NeighborInv
<1>8. CASE Writes(s, r)
  <2>1. ppc = "flush" /\ ~Flushed(s) /\ tx[s] = tables[s] /\ ~NeighborDone
    BY <1>8 DEF Writes, InTurn, NeighborDone
  <2>2. /\ mem'[s] = NeighborFlushMem(mem[s], tables[s], NeighborDirty(mem[s]))
        /\ tx'[s] = NeighborFlushTable(mem[s], tables[s])
        /\ ppc' = "flush" /\ Flushed(s)' /\ Reached(r)'
        /\ UNCHANGED <<log, tables, dbCursor, cursor, upto>>
    BY <1>8, <2>1 DEF Writes, FlushMem, FlushTable, Dirty
  <2>3. cursor = dbCursor /\ r = upto
    BY <1>2, <1>3, <2>1 DEF InStep
  <2>4. /\ NeighborRows(log, NeighborFlushTable(mem[s], tables[s]), upto)
        /\ NeighborMemory(log, NeighborFlushMem(mem[s], tables[s], NeighborDirty(mem[s])),
                          cursor + 1, r)
        /\ NeighborLoaded(NeighborFlushMem(mem[s], tables[s], NeighborDirty(mem[s])))
    <3> DEFINE m == mem[s]
               t == tables[s]
    <3>1. /\ NeighborMemory(log, m, dbCursor + 1, upto)
          /\ NeighborMarked(log, m, dbCursor + 1, upto)
          /\ NeighborRows(log, t, dbCursor) /\ dbCursor <= upto /\ upto <= Len(log)
      BY <1>1, <1>2, <1>3, <2>1, <2>3
    <3> HIDE DEF m, t
    <3>2. /\ NeighborRows(log, NeighborFlushTable(m, t), upto)
          /\ NeighborMemory(log, NeighborFlushMem(m, t, NeighborDirty(m)), dbCursor + 1, upto)
          /\ NeighborLoaded(NeighborFlushMem(m, t, NeighborDirty(m)))
      BY <1>3, <3>1, NeighborFlushed
    <3>3. QED
      BY <2>3, <3>2 DEF m, t
  <2>5. Once(r)' /\ NeighborDone'
    BY <1>1, <1>8, <2>2, OnceKept DEF NeighborDone
  <2>6. QED
    BY <1>2, <1>4, <2>2, <2>4, <2>5 DEF NeighborInv
<1>9. CASE Breaks(s, r)
  BY <1>1, <1>9, OnceKept
<1>10. CASE Commits(s, r)
  <2>1. /\ ppc = "flush" /\ Flushed(s) /\ ppc' \in {"idle", "settle"}
        /\ tables'[s] = tx[s] /\ dbCursor' = upto
        /\ mem'[s] = mem[s] /\ UNCHANGED <<log, cursor>> /\ Reached(r)'
    BY <1>10 DEF Commits
  <2>2. ppc' = "settle"
    BY <2>1, LoopMoves
  <2>3. Once(r)' /\ NeighborDone /\ NeighborDone'
    BY <1>1, <1>10, <2>1, <2>2, OnceKept DEF NeighborDone
  <2>4. QED
    BY <1>1, <1>2, <1>4, <2>1, <2>2, <2>3 DEF NeighborInv
<1>11. CASE Settles(s, r)
  <2>1. /\ ppc = "settle" /\ ppc' = "idle" /\ cursor' = r /\ Reached(r)'
        /\ UNCHANGED <<log, tables, dbCursor>>
        /\ mem'[s] = IF hwm = ZeroTime THEN AfterNotify(s, mem[s])
                     ELSE Evict(s, AfterNotify(s, mem[s]), hwm)
    BY <1>11 DEF Settles
  <2>2. AfterNotify(s, mem[s]) = mem[s] /\ Evict(s, mem[s], hwm) = NeighborEvict(mem[s], hwm)
    BY DEF AfterNotify, Evict
  <2>3. NeighborLoaded(mem[s]) /\ ~NeighborDone'
    BY <1>1, <2>1 DEF NeighborDone
  <2>4. NeighborMemory(log, mem'[s], r + 1, r)
    <3> DEFINE m == mem[s]
    <3>1. NeighborMemory(log, m, cursor + 1, r) /\ NeighborLoaded(m)
      BY <1>1, <2>3
    <3>2. mem'[s] = m \/ mem'[s] = NeighborEvict(m, hwm)
      BY <2>1, <2>2
    <3> HIDE DEF m
    <3>3. QED
      BY <1>3, <3>1, <3>2, NeighborMoves
  <2>5. NeighborMarked(log, mem'[s], r + 1, r)
    BY <1>3, NeighborEmpty
  <2>6. Once(r)'
    BY <1>1, <1>11, OnceKept
  <2>7. QED
    BY <1>2, <1>4, <2>1, <2>3, <2>4, <2>5, <2>6 DEF NeighborInv
<1>12. CASE Restarts(s)
  <2>1. PICK q \in {cursor'} : Reached(q)' /\ Once(q)'
    BY <1>1, <1>12, OnceKept
  <2>2. /\ mem'[s] = EmptyMap /\ ppc' \in {"down", "idle"} /\ log' = log
        /\ \/ tables'[s] = tables[s] /\ dbCursor' = dbCursor
           \/ tables'[s] = EmptyMap /\ dbCursor' = 0
    BY <1>12 DEF Restarts, EmptyMemory, EmptyTable
  <2>3. q = cursor' /\ q \in Nat /\ ~NeighborDone'
    BY <2>1, <2>2 DEF Reached, NeighborDone
  <2>4. /\ NeighborMemory(log', mem'[s], q + 1, q)
        /\ NeighborMarked(log', mem'[s], q + 1, q) /\ NeighborRows(log, EmptyMap, 0)
    BY <2>2, <2>3, NeighborEmpty
  <2>5. NeighborRows(log', tables'[s], dbCursor')
    BY <1>2, <2>2, <2>4
  <2>6. QED
    BY <1>4, <2>1, <2>2, <2>3, <2>4, <2>5 DEF NeighborInv
<1>13. QED
  BY <1>1, <1>6, <1>7, <1>8, <1>9, <1>10, <1>11, <1>12, StageSteps

(* A neighbor's packets are counted once and its RSSI bounds are those of   *)
(* its packets, as long as every batch is committed and known to be:        *)
(* restarts, a rebuild, eviction and stragglers make no difference.         *)
THEOREM NeighborsExactHolds ==
  ASSUME "rollup_neighbor" \in StageSet, Faults \cap {"fail", "lostAck"} = {}
  PROVE  Spec => []NeighborsExact
<1>1. Exact
  BY DEF Exact
<1>2. Loop /\ NeighborInv => NeighborsExact
  <2> SUFFICES ASSUME Loop, NeighborInv PROVE NeighborsExact
    OBVIOUS
  <2> DEFINE from(k) == PacketsWith(LAMBDA e : e.src # None /\ NeighborKey(e) = k)
             rssis(k) == {log[i].rssi : i \in {j \in from(k) : log[j].rssi # None}}
             keys == {NeighborKey(log[i]) : i \in PacketsWith(LAMBDA e : e.src # None)}
  <2>1. log \in Seq(EventSet) /\ dbCursor \in Nat /\ dbCursor <= Len(log) /\ Len(log) \in Nat
    BY DEF Loop
  <2>2. NeighborRows(log, Neighbors, dbCursor)
    BY DEF NeighborInv, Neighbors
  <2>3. \A k : from(k) = PacketsFrom(log, k, 1, dbCursor)
    BY DEF PacketsWith, Projected, PacketsFrom
  <2>4. \A k : k \in keys <=> PacketsFrom(log, k, 1, dbCursor) # {}
    BY DEF PacketsWith, Projected, PacketsFrom
  <2>5. DOMAIN Neighbors = keys
    <3> HIDE DEF keys
    <3>1. \A k : k \in DOMAIN Neighbors <=> k \in keys
      BY <2>2, <2>4 DEF NeighborRows
    <3>2. QED
      BY <3>1
  <2>6. ASSUME NEW k \in keys
        PROVE  /\ Neighbors[k].packets = Cardinality(from(k))
               /\ Neighbors[k].min = IF rssis(k) = {} THEN None ELSE Min(rssis(k))
               /\ Neighbors[k].max = IF rssis(k) = {} THEN None ELSE Max(rssis(k))
    <3> DEFINE row == Neighbors[k]
               S == from(k)
               R == rssis(k)
               H == HeardIn(log, from(k))
    <3>1. NeighborTotals(log, row, S)
      BY <2>2, <2>3, <2>5 DEF NeighborRows
    <3>2. R = {log[i].rssi : i \in H}
      BY DEF HeardIn
    <3>3. \A i \in H : log[i].rssi \in Int
      <4>1. S \in SUBSET PacketsAt(log, 1, Len(log))
        <5>1. S = PacketsFrom(log, k, 1, dbCursor)
          BY <2>3
        <5> HIDE DEF S
        <5>2. QED
          BY <2>1, <5>1, NeighborPackets
      <4> HIDE DEF S
      <4>2. \A i \in HeardIn(log, S) : log[i].rssi \in Int
        BY <2>1, <4>1, Rssi
      <4>3. QED
        BY <4>2 DEF S
    <3>4. row.packets = Cardinality(S)
      <4> HIDE DEF S, row
      <4>1. QED
        BY <1>1, <3>1 DEF NeighborTotals, Counts
    <3>5. /\ \/ row.min = None /\ H = {}
             \/ (\E i \in H : row.min = log[i].rssi) /\ \A i \in H : row.min <= log[i].rssi
          /\ \/ row.max = None /\ H = {}
             \/ (\E i \in H : row.max = log[i].rssi) /\ \A i \in H : log[i].rssi <= row.max
      <4>1. Least(log, row.min, S, S) /\ Greatest(log, row.max, S, S)
        BY <3>1 DEF NeighborTotals
      <4> HIDE DEF row, S
      <4>2. H = HeardIn(log, S)
        BY DEF S
      <4> HIDE DEF H
      <4>3. QED
        BY <4>1, <4>2 DEF Least, Greatest
    <3> HIDE DEF row, S, R, H
    <3>6. /\ R = {} => row.min = None /\ row.max = None
          /\ R # {} => /\ row.min \in R /\ \A x \in R : row.min <= x
                       /\ row.max \in R /\ \A x \in R : x <= row.max
          /\ R \in SUBSET Int
      BY <3>2, <3>3, <3>5
    <3>7. R # {} => row.min = Min(R) /\ row.max = Max(R)
      BY <3>6, LeastIsMin
    <3>8. QED
      BY <3>4, <3>6, <3>7 DEF row, S, R
  <2>7. QED
    BY <2>5, <2>6 DEF NeighborsExact
<1>3. Init => NeighborInv
  BY NeighborInit
<1>4. ASSUME Loop /\ Batch /\ SharesInv, NeighborInv, [Next]_vars PROVE NeighborInv'
  BY <1>1, <1>4, NeighborStep
<1>5. QED
  BY <1>2, <1>3, <1>4, SharesHold, PTL DEF Spec

-----------------------------------------------------------------------------
(* packet_observations, while every batch is committed and known to be: the *)
(* rows are the packets from a to b in log order, each at its rank.         *)
Ranked(l, rows, a, b) ==
    /\ rows \in Seq(EventSet)
    /\ Len(rows) = Cardinality(PacketsAt(l, a, b))
    /\ \A i \in PacketsAt(l, a, b) : rows[Cardinality(PacketsAt(l, a, i))] = l[i]

Buffered(l, m, a, b) ==
    m \in [buf : Seq(EventSet), count : Nat] /\ Ranked(l, m.buf, a, b)

LEMMA PacketsFinite ==
  ASSUME NEW l, NEW a \in Nat, NEW b \in Nat
  PROVE  IsFiniteSet(PacketsAt(l, a, b)) /\ Cardinality(PacketsAt(l, a, b)) \in Nat
<1>1. IsFiniteSet(a..b)
  <2>1. a \in Int /\ b \in Int
    OBVIOUS
  <2>2. QED
    BY <2>1, FS_Interval
<1>2. PacketsAt(l, a, b) \subseteq a..b
  BY DEF PacketsAt
<1>3. QED
  BY <1>1, <1>2, FS_Subset, FS_CardinalityType

(* The rank of a packet is the number of a row. *)
LEMMA RankInRows ==
  ASSUME NEW l, NEW a \in Nat, NEW b \in Nat, NEW i \in PacketsAt(l, a, b)
  PROVE  Cardinality(PacketsAt(l, a, i)) \in 1..Cardinality(PacketsAt(l, a, b))
<1>1. i \in Nat /\ PacketsAt(l, a, i) \subseteq PacketsAt(l, a, b) /\ i \in PacketsAt(l, a, i)
  BY DEF PacketsAt
<1>2. /\ IsFiniteSet(PacketsAt(l, a, b)) /\ Cardinality(PacketsAt(l, a, b)) \in Nat
      /\ IsFiniteSet(PacketsAt(l, a, i)) /\ Cardinality(PacketsAt(l, a, i)) \in Nat
  BY <1>1, PacketsFinite
<1>3. Cardinality(PacketsAt(l, a, i)) <= Cardinality(PacketsAt(l, a, b))
  BY <1>1, <1>2, FS_Subset
<1>4. Cardinality(PacketsAt(l, a, i)) # 0
  BY <1>1, <1>2, FS_EmptySet
<1>5. QED
  BY <1>2, <1>3, <1>4

LEMMA PacketsSplit ==
  ASSUME NEW l, NEW a \in Nat, NEW b \in Nat, NEW c \in Nat, a <= b + 1, b <= c
  PROVE  Cardinality(PacketsAt(l, a, c))
           = Cardinality(PacketsAt(l, a, b)) + Cardinality(PacketsAt(l, b + 1, c))
<1> DEFINE S == PacketsAt(l, a, b)
           T == PacketsAt(l, b + 1, c)
<1>1. PacketsAt(l, a, c) = S \cup T /\ S \cap T = {}
  BY DEF PacketsAt
<1>2. IsFiniteSet(S) /\ IsFiniteSet(T)
  BY PacketsFinite
<1> HIDE DEF S, T
<1>3. Cardinality(S \cup T) = Cardinality(S) + Cardinality(T) - Cardinality(S \cap T)
  BY <1>2, FS_Union
<1>4. Cardinality(S \cap T) = 0 /\ Cardinality(S) \in Nat /\ Cardinality(T) \in Nat
  BY <1>1, <1>2, FS_EmptySet, FS_CardinalityType
<1>5. Cardinality(S \cup T) = Cardinality(S) + Cardinality(T)
  BY <1>3, <1>4
<1>6. QED
  BY <1>1, <1>5 DEF S, T

LEMMA RankedJoin ==
  ASSUME NEW l, NEW a \in Nat, NEW b \in Nat, NEW c \in Nat, a <= b + 1, b <= c,
         NEW rows, Ranked(l, rows, a, b), NEW more, Ranked(l, more, b + 1, c)
  PROVE  Ranked(l, rows \o more, a, c)
<1> DEFINE all == rows \o more
           n == Cardinality(PacketsAt(l, a, b))
           k == Cardinality(PacketsAt(l, b + 1, c))
<1>1. /\ rows \in Seq(EventSet) /\ more \in Seq(EventSet) /\ Len(rows) = n /\ Len(more) = k
      /\ n \in Nat /\ k \in Nat
  BY PacketsFinite DEF Ranked
<1> HIDE DEF n, k
<1>2. /\ all \in Seq(EventSet) /\ Len(all) = n + k
      /\ \A j \in 1..n : all[j] = rows[j]
      /\ \A j \in 1..k : all[n + j] = more[j]
  <2>1. all \in Seq(EventSet) /\ Len(all) = n + k
    BY <1>1
  <2>2. ASSUME NEW j \in 1..n PROVE all[j] = rows[j]
    BY <1>1, <2>2
  <2>3. ASSUME NEW j \in 1..k PROVE all[n + j] = more[j]
    <3>1. n + j \in 1..(Len(rows) + Len(more)) /\ ~(n + j <= Len(rows)) /\ n + j - Len(rows) = j
      BY <1>1, <2>3
    <3>2. QED
      BY <1>1, <3>1
  <2>4. QED
    BY <2>1, <2>2, <2>3
<1> HIDE DEF all
<1>3. Len(all) = Cardinality(PacketsAt(l, a, c))
  BY <1>2, PacketsSplit DEF n, k
<1>4. ASSUME NEW i \in PacketsAt(l, a, c) PROVE all[Cardinality(PacketsAt(l, a, i))] = l[i]
  <2>1. i \in a..c /\ IsPacket(l[i]) /\ i \in Nat
    BY DEF PacketsAt
  <2>2. CASE i <= b
    <3>1. i \in PacketsAt(l, a, b)
      BY <2>1, <2>2 DEF PacketsAt
    <3>2. Cardinality(PacketsAt(l, a, i)) \in 1..n
      BY <3>1, RankInRows DEF n
    <3>3. rows[Cardinality(PacketsAt(l, a, i))] = l[i]
      BY <3>1 DEF Ranked
    <3>4. QED
      BY <1>2, <3>2, <3>3
  <2>3. CASE ~(i <= b)
    <3>1. i \in PacketsAt(l, b + 1, c) /\ b <= i
      BY <2>1, <2>3 DEF PacketsAt
    <3> DEFINE j == Cardinality(PacketsAt(l, b + 1, i))
    <3>2. j \in 1..k
      <4>1. b + 1 \in Nat
        OBVIOUS
      <4>2. QED
        BY <3>1, <4>1, RankInRows DEF k
    <3>3. more[j] = l[i]
      BY <3>1 DEF Ranked
    <3>4. Cardinality(PacketsAt(l, a, i)) = n + j
      BY <2>1, <3>1, PacketsSplit DEF n
    <3> HIDE DEF j
    <3>5. QED
      BY <1>2, <3>2, <3>3, <3>4
  <2>4. QED
    BY <2>2, <2>3
<1>5. QED
  BY <1>2, <1>3, <1>4 DEF Ranked, all

LEMMA RankedNone ==
  ASSUME NEW l, NEW a \in Nat, NEW b \in Nat, \A i \in a..b : ~IsPacket(l[i])
  PROVE  /\ Ranked(l, <<>>, a, b)
         /\ \A rows : Ranked(l, rows, a, b) => \A c \in Nat : Ranked(l, rows, c + 1, c)
<1>1. PacketsAt(l, a, b) = {} /\ \A c \in Nat : PacketsAt(l, c + 1, c) = {}
  BY DEF PacketsAt
<1>2. Cardinality({}) = 0 /\ <<>> \in Seq(EventSet) /\ Len(<<>>) = 0
  BY FS_EmptySet
<1>3. QED
  BY <1>1, <1>2 DEF Ranked

LEMMA RankedFresh == ASSUME NEW l, NEW c \in Nat PROVE Ranked(l, <<>>, c + 1, c)
<1>1. c + 1 \in Nat /\ \A i \in (c + 1)..c : ~IsPacket(l[i])
  OBVIOUS
<1>2. QED
  BY <1>1, RankedNone

LEMMA RankedOne ==
  ASSUME NEW l \in Seq(EventSet), NEW p \in 1..Len(l), IsPacket(l[p])
  PROVE  Ranked(l, <<l[p]>>, p, p)
<1>1. PacketsAt(l, p, p) = {p} /\ l[p] \in EventSet
  BY DEF PacketsAt
<1>2. Cardinality({p}) = 1
  BY FS_Singleton
<1>3. <<l[p]>> \in Seq(EventSet) /\ Len(<<l[p]>>) = 1 /\ <<l[p]>>[1] = l[p]
  BY <1>1
<1>4. QED
  BY <1>1, <1>2, <1>3 DEF Ranked

LEMMA RankedKept ==
  ASSUME NEW l, NEW l2, NEW a \in Nat \ {0}, NEW b \in Nat,
         \A i \in 1..b : l2[i] = l[i],
         NEW rows, Ranked(l, rows, a, b)
  PROVE  Ranked(l2, rows, a, b)
<1>1. ASSUME NEW c \in 0..b PROVE PacketsAt(l2, a, c) = PacketsAt(l, a, c)
  BY DEF PacketsAt
<1>2. \A i \in PacketsAt(l, a, b) : i \in 0..b /\ l2[i] = l[i]
  BY DEF PacketsAt
<1>3. b \in 0..b
  OBVIOUS
<1>4. QED
  BY <1>1, <1>2, <1>3 DEF Ranked

LEMMA BufferedApplied ==
  ASSUME NEW l \in Seq(EventSet), NEW m, NEW a \in Nat \ {0}, NEW b \in Nat, NEW p \in 1..Len(l),
         p = b + 1, a <= p, Buffered(l, m, a, b)
  PROVE  Buffered(l, ObservationsApply(m, l[p]), a, p)
<1> DEFINE e == l[p]
<1>1. m \in [buf : Seq(EventSet), count : Nat] /\ m.buf \in Seq(EventSet) /\ e \in EventSet
      /\ Ranked(l, m.buf, a, b) /\ p \in Nat /\ b <= p
  BY DEF Buffered
<1>2. CASE IsPacket(e)
  <2>1. ObservationsApply(m, e) = [buf |-> m.buf \o <<e>>, count |-> m.count]
    <3>1. Append(m.buf, e) = m.buf \o <<e>>
      BY <1>1
    <3>2. QED
      BY <1>1, <1>2, <3>1 DEF ObservationsApply
  <2>2. Ranked(l, <<e>>, b + 1, p)
    BY <1>2, RankedOne
  <2>3. Ranked(l, m.buf \o <<e>>, a, p)
    BY <1>1, <2>2, RankedJoin
  <2>4. m.buf \o <<e>> \in Seq(EventSet) /\ m.count \in Nat
    BY <1>1, <2>3 DEF Ranked
  <2>5. QED
    BY <2>1, <2>3, <2>4 DEF Buffered
<1>3. CASE ~IsPacket(e)
  <2>1. PacketsAt(l, a, p) = PacketsAt(l, a, b)
    BY <1>1, <1>3 DEF PacketsAt
  <2>2. QED
    BY <1>1, <1>3, <2>1 DEF ObservationsApply, Buffered, Ranked
<1>4. QED
  BY <1>2, <1>3

LEMMA BufferedFlushed ==
  ASSUME NEW l, NEW m, NEW a, NEW b, Buffered(l, m, a, b)
  PROVE  Buffered(l, ObservationsFlushMem(m), a, b)
<1>1. m \in [buf : Seq(EventSet), count : Nat] /\ Ranked(l, m.buf, a, b)
  BY DEF Buffered
<1>2. CASE m.buf = <<>>
  BY <1>1, <1>2 DEF ObservationsFlushMem, Buffered
<1>3. CASE m.buf # <<>>
  <2>1. ObservationsFlushMem(m) = [buf |-> m.buf, count |-> Len(m.buf)]
    BY <1>1, <1>3 DEF ObservationsFlushMem
  <2>2. m.buf \in Seq(EventSet) /\ Len(m.buf) \in Nat
    BY <1>1
  <2>3. QED
    BY <1>1, <2>1, <2>2 DEF Buffered
<1>4. QED
  BY <1>2, <1>3

LEMMA BufferedFresh == ASSUME NEW l, NEW c \in Nat PROVE Buffered(l, ObservationsEmpty, c + 1, c)
<1>1. ObservationsEmpty.buf = <<>> /\ ObservationsEmpty \in [buf : Seq(EventSet), count : Nat]
  BY DEF ObservationsEmpty
<1>2. QED
  BY <1>1, RankedFresh DEF Buffered

ObservationsInv ==
    /\ InStep
    /\ \E r : /\ Reached(r) /\ Once(r)
              /\ Buffered(log, mem["packet_observations"], cursor + 1, r)
    /\ Ranked(log, tables["packet_observations"], 1, dbCursor)
    /\ ppc = "flush" /\ Flushed("packet_observations") =>
          Ranked(log, tx["packet_observations"], 1, upto)

LEMMA ObservationsInit == ASSUME Init PROVE ObservationsInv
<1>1. /\ mem["packet_observations"] = ObservationsEmpty /\ tables["packet_observations"] = <<>>
      /\ cursor = 0 /\ dbCursor = 0 /\ ppc = "down" /\ log = <<>>
  BY Listed DEF Init, EmptyMemory, EmptyTable
<1>2. Reached(0) /\ Once(0) /\ InStep
  BY <1>1 DEF Reached, Once, InStep
<1>3. Buffered(log, ObservationsEmpty, 0 + 1, 0) /\ Ranked(log, <<>>, 0 + 1, 0)
  BY BufferedFresh, RankedFresh
<1>4. Ranked(log, <<>>, 1, 0)
  BY <1>3
<1>5. QED
  BY <1>1, <1>2, <1>3, <1>4 DEF ObservationsInv

LEMMA ObservationsStep ==
  ASSUME Exact, Loop, Batch, [Next]_vars, ObservationsInv
  PROVE  ObservationsInv'
<1> DEFINE s == "packet_observations"
<1>0. s \in StageSet
  BY Listed
<1>1. PICK r : Reached(r) /\ Once(r) /\ Buffered(log, mem[s], cursor + 1, r)
  BY DEF ObservationsInv
<1>2. /\ InStep
      /\ Ranked(log, tables[s], 1, dbCursor)
      /\ ppc = "flush" /\ Flushed(s) => Ranked(log, tx[s], 1, upto)
  BY DEF ObservationsInv
<1>3. /\ log \in Seq(EventSet) /\ Len(log) \in Nat
      /\ cursor \in Nat /\ dbCursor \in Nat /\ upto \in Nat /\ cursor + 1 \in Nat \ {0}
      /\ dbCursor <= Len(log) /\ r \in Nat /\ cursor <= r /\ r <= Len(log)
      /\ ppc = "flush" => dbCursor <= upto /\ upto <= Len(log) /\ r = upto
  BY <1>1 DEF Loop, Reached
<1>4. InStep'
  BY <1>2, LoopMoves
<1>5. ASSUME NEW t, NEW a \in Nat \ {0}, NEW b \in Nat, b <= Len(log)
      PROVE  /\ Ranked(log, t, a, b) => Ranked(log', t, a, b)
             /\ Buffered(log, t, a, b) => Buffered(log', t, a, b)
  <2>1. \A i \in 1..b : log'[i] = log[i]
    BY <1>3, <1>5, LogKept
  <2>2. \A rows : Ranked(log, rows, a, b) => Ranked(log', rows, a, b)
    BY <1>5, <2>1, RankedKept
  <2>3. QED
    BY <2>2 DEF Buffered
<1>6. CASE Quiet(s, r)
  <2>1. /\ mem'[s] = mem[s] /\ tables'[s] = tables[s] /\ UNCHANGED <<dbCursor, cursor>>
        /\ Reached(r)'
        /\ ppc' = "flush" /\ Flushed(s)' =>
             ppc = "flush" /\ Flushed(s) /\ tx'[s] = tx[s] /\ upto' = upto
    BY <1>6 DEF Quiet
  <2>2. Once(r)'
    BY <1>0, <1>1, <1>6, OnceKept
  <2>3. Buffered(log', mem'[s], cursor' + 1, r) /\ Ranked(log', tables'[s], 1, dbCursor')
    BY <1>1, <1>2, <1>3, <1>5, <2>1
  <2>4. ppc' = "flush" /\ Flushed(s)' => Ranked(log', tx'[s], 1, upto')
    BY <1>2, <1>3, <1>5, <2>1
  <2>5. QED
    BY <1>4, <2>1, <2>2, <2>3, <2>4 DEF ObservationsInv
<1>7. CASE Takes(s, r)
  <2>1. PICK q \in {Later(r, pos)} : Reached(q)' /\ Once(q)' /\ (Exact => pos = r + 1 /\ q = pos)
    BY <1>0, <1>1, <1>7, OnceKept
  <2>2. /\ ppc' = "apply" /\ cursor < pos /\ pos \in 1..Len(log)
        /\ UNCHANGED <<log, tables, dbCursor, cursor>>
    BY <1>7 DEF Takes
  <2>3. mem'[s] = ObservationsApply(mem[s], log[pos])
    <3>1. log[pos].kind = "dropped" => ObservationsApply(mem[s], log[pos]) = mem[s]
      BY DEF ObservationsApply, IsPacket
    <3>2. Apply(s, mem[s], log[pos]) = ObservationsApply(mem[s], log[pos])
      BY DEF Apply
    <3>3. QED
      BY <1>7, <3>1, <3>2 DEF Takes
  <2>4. Buffered(log, ObservationsApply(mem[s], log[pos]), cursor + 1, q)
    <3>1. cursor + 1 <= pos /\ pos = r + 1 /\ q = pos
      BY <1>3, <2>1, <2>2
    <3>2. QED
      BY <1>1, <1>3, <2>2, <3>1, BufferedApplied
  <2>5. QED
    BY <1>2, <1>4, <2>1, <2>2, <2>3, <2>4 DEF ObservationsInv
<1>8. CASE Writes(s, r)
  <2>1. /\ ppc = "flush" /\ tx[s] = tables[s]
        /\ mem'[s] = FlushMem(s, mem[s], Dirty(s, mem[s])) /\ tx'[s] = FlushTable(s, mem[s])
        /\ ppc' = "flush" /\ Reached(r)'
        /\ UNCHANGED <<log, tables, dbCursor, cursor, upto>>
    BY <1>8 DEF Writes, InTurn
  <2>2. /\ FlushMem(s, mem[s], Dirty(s, mem[s])) = ObservationsFlushMem(mem[s])
        /\ FlushTable(s, mem[s]) = tables[s] \o mem[s].buf
    BY <2>1 DEF FlushMem, FlushTable, ObservationsFlushTable
  <2>3. cursor = dbCursor /\ r = upto
    BY <1>2, <1>3, <2>1 DEF InStep
  <2>4. Ranked(log, tables[s] \o mem[s].buf, 1, upto)
    <3>1. Ranked(log, mem[s].buf, dbCursor + 1, upto) /\ dbCursor <= upto
      BY <1>1, <1>3, <2>1, <2>3 DEF Buffered
    <3>2. 1 \in Nat /\ 1 <= dbCursor + 1
      BY <1>3
    <3>3. QED
      BY <1>2, <1>3, <3>1, <3>2, RankedJoin
  <2>5. Buffered(log, ObservationsFlushMem(mem[s]), cursor + 1, r)
    BY <1>1, BufferedFlushed
  <2>6. Once(r)'
    BY <1>0, <1>1, <1>8, OnceKept
  <2>7. QED
    BY <1>2, <1>4, <2>1, <2>2, <2>4, <2>5, <2>6 DEF ObservationsInv
<1>9. CASE Breaks(s, r)
  BY <1>0, <1>1, <1>9, OnceKept
<1>10. CASE Commits(s, r)
  <2>1. /\ ppc = "flush" /\ Flushed(s) /\ ppc' \in {"idle", "settle"}
        /\ tables'[s] = tx[s] /\ dbCursor' = upto
        /\ mem'[s] = mem[s] /\ UNCHANGED <<log, cursor>> /\ Reached(r)'
    BY <1>10 DEF Commits
  <2>2. Once(r)'
    BY <1>0, <1>1, <1>10, OnceKept
  <2>3. QED
    BY <1>1, <1>2, <1>4, <2>1, <2>2 DEF ObservationsInv
<1>11. CASE Settles(s, r)
  <2>1. /\ ppc' = "idle" /\ cursor' = r /\ Reached(r)' /\ UNCHANGED <<log, tables, dbCursor>>
        /\ mem'[s] = IF hwm = ZeroTime THEN AfterNotify(s, mem[s])
                     ELSE Evict(s, AfterNotify(s, mem[s]), hwm)
        /\ hwm = ZeroTime => \A i \in (cursor + 1)..r : log[i].kind = "dropped"
    BY <1>11 DEF Settles
  <2>2. AfterNotify(s, mem[s]) = mem[s] /\ Evict(s, mem[s], hwm) = ObservationsEmpty
    BY DEF AfterNotify, Evict, ObservationsEvict
  <2>3. Buffered(log, mem'[s], r + 1, r)
    <3>1. CASE hwm = ZeroTime
      <4>1. \A i \in (cursor + 1)..r : ~IsPacket(log[i])
        BY <2>1, <3>1 DEF IsPacket
      <4>2. \A rows : Ranked(log, rows, cursor + 1, r) => Ranked(log, rows, r + 1, r)
        BY <1>3, <4>1, RankedNone
      <4>3. mem'[s] = mem[s]
        BY <2>1, <2>2, <3>1
      <4>4. QED
        BY <1>1, <4>2, <4>3 DEF Buffered
    <3>2. CASE hwm # ZeroTime
      BY <1>3, <2>1, <2>2, <3>2, BufferedFresh
    <3>3. QED
      BY <3>1, <3>2
  <2>4. Once(r)'
    BY <1>0, <1>1, <1>11, OnceKept
  <2>5. QED
    BY <1>2, <1>4, <2>1, <2>3, <2>4 DEF ObservationsInv
<1>12. CASE Restarts(s)
  <2>1. PICK q \in {cursor'} : Reached(q)' /\ Once(q)'
    BY <1>0, <1>1, <1>12, OnceKept
  <2>2. /\ mem'[s] = ObservationsEmpty /\ ppc' \in {"down", "idle"} /\ log' = log
        /\ \/ tables'[s] = tables[s] /\ dbCursor' = dbCursor
           \/ tables'[s] = <<>> /\ dbCursor' = 0
    BY <1>12 DEF Restarts, EmptyMemory, EmptyTable
  <2>3. q = cursor' /\ q \in Nat
    BY <2>1 DEF Reached
  <2>4. Buffered(log', mem'[s], q + 1, q)
    BY <2>2, <2>3, BufferedFresh
  <2>5. Ranked(log', tables'[s], 1, dbCursor')
    <3>1. Ranked(log, <<>>, 0 + 1, 0)
      BY RankedFresh
    <3>2. Ranked(log, <<>>, 1, 0)
      BY <3>1
    <3>3. QED
      BY <1>2, <2>2, <3>2
  <2>6. QED
    BY <1>4, <2>1, <2>2, <2>3, <2>4, <2>5 DEF ObservationsInv
<1>13. QED
  BY <1>0, <1>1, <1>6, <1>7, <1>8, <1>9, <1>10, <1>11, <1>12, StageSteps

(* packet_observations is the packets of the log, in its order and each of  *)
(* them once, as long as every batch is committed and known to be: crashes  *)
(* between any two steps, a rebuild and undecodable events make no          *)
(* difference.                                                              *)
THEOREM ObservationsExactHolds ==
  ASSUME Faults \cap {"fail", "lostAck"} = {}
  PROVE  Spec => []ObservationsExact
<1>1. Exact
  BY DEF Exact
<1>2. Loop /\ ObservationsInv => ObservationsExact
  <2> SUFFICES ASSUME Loop, ObservationsInv PROVE ObservationsExact
    OBVIOUS
  <2> DEFINE packets == PacketsWith(LAMBDA e : TRUE)
  <2>1. dbCursor \in Nat
    BY DEF Loop
  <2>2. packets = PacketsAt(log, 1, dbCursor)
    BY DEF PacketsWith, Projected, PacketsAt
  <2>3. Ranked(log, Observations, 1, dbCursor)
    BY DEF ObservationsInv, Observations
  <2> HIDE DEF packets
  <2>4. Len(Observations) = Cardinality(packets)
    BY <2>2, <2>3 DEF Ranked
  <2>5. ASSUME NEW i \in packets
        PROVE  Observations[Cardinality({j \in packets : j <= i})] = log[i]
    <3>1. {j \in packets : j <= i} = PacketsAt(log, 1, i)
      BY <2>1, <2>2 DEF PacketsAt
    <3>2. QED
      BY <2>2, <2>3, <3>1 DEF Ranked
  <2>6. QED
    BY <2>4, <2>5 DEF ObservationsExact, packets
<1>3. Init => ObservationsInv
  BY ObservationsInit
<1>4. ASSUME Loop /\ Batch /\ SharesInv, ObservationsInv, [Next]_vars PROVE ObservationsInv'
  BY <1>1, <1>4, ObservationsStep
<1>5. QED
  BY <1>2, <1>3, <1>4, SharesHold, PTL DEF Spec
=============================================================================

----------------------------- MODULE ShownProofs ----------------------------
(***************************************************************************)
(* Theorems about the pages and the anomalies, which read what the stages  *)
(* keep: they follow from the invariants of the tables and from what the   *)
(* queries and the detectors do with any rows of that kind.                *)
(***************************************************************************)
EXTENDS RollupProofs, Shown, Alarms, FunctionTheorems, SequenceTheorems

-----------------------------------------------------------------------------
(* The nodes page.  An enumeration of a finite set meets every element once. *)
LEMMA Enumerates ==
  ASSUME NEW S, IsFiniteSet(S), NEW f \in [1..Cardinality(S) -> S],
         \A i, j \in 1..Cardinality(S) : f[i] = f[j] => i = j
  PROVE  \A x \in S : \E i \in 1..Cardinality(S) : f[i] = x
<1> DEFINE n == Cardinality(S)
<1>1. n \in Nat
  BY FS_CardinalityType
<1>2. f \in Injection(1..n, S)
  BY Fun_IsInj
<1>3. IsFiniteSet(1..n) /\ Cardinality(1..n) = n
  BY <1>1, FS_Interval
<1>4. f \in Surjection(1..n, S)
  BY <1>2, <1>3, FS_Injection
<1>5. QED
  BY <1>4 DEF Surjection

LEMMA SequenceOfSet ==
  ASSUME NEW S, IsFiniteSet(S)
  PROVE  /\ SetToSeq(S) \in [1..Cardinality(S) -> S]
         /\ \A x \in S : \E i \in 1..Cardinality(S) : SetToSeq(S)[i] = x
<1> DEFINE n == Cardinality(S)
<1>1. ExistsBijection(1..n, S)
  BY FS_CardinalityType
<1>2. \E f \in [1..n -> S] : IsInjective(f)
  BY <1>1 DEF ExistsBijection, Bijection, Injection
<1>3. SetToSeq(S) \in [1..n -> S] /\ IsInjective(SetToSeq(S))
  BY <1>2, Zenon DEF SetToSeq
<1>4. \A i, j \in 1..n : SetToSeq(S)[i] = SetToSeq(S)[j] => i = j
  <2>1. DOMAIN SetToSeq(S) = 1..n
    BY <1>3
  <2>2. QED
    BY <1>3, <2>1, Zenon DEF IsInjective
<1> HIDE DEF n
<1>5. QED
  BY <1>3, <1>4, Enumerates DEF n

(* Public keys have ranks, and no two have the same one.                   *)
LEMMA KeysRanked ==
  ASSUME NEW nodes, IsFiniteSet(DOMAIN nodes)
  PROVE  \A k \in DOMAIN nodes :
             /\ KeyRank(nodes, k) \in Nat
             /\ \A l \in DOMAIN nodes : KeyRank(nodes, k) = KeyRank(nodes, l) => k = l
<1> DEFINE keys == SetToSeq(DOMAIN nodes)
           n == Cardinality(DOMAIN nodes)
<1>1. keys \in [1..n -> DOMAIN nodes] /\ \A k \in DOMAIN nodes : \E i \in 1..n : keys[i] = k
  BY SequenceOfSet
<1>2. DOMAIN keys = 1..n
  BY <1>1
<1>3. \A k \in DOMAIN nodes : KeyRank(nodes, k) \in 1..n /\ keys[KeyRank(nodes, k)] = k
  BY <1>1, <1>2, Zenon DEF KeyRank
<1>4. n \in Nat
  BY FS_CardinalityType
<1>5. QED
  BY <1>3, <1>4

(* A table whose columns can be sorted by.                                 *)
Sortable(nodes) ==
    /\ IsFiniteSet(DOMAIN nodes)
    /\ \A key \in DOMAIN nodes :
          LET row == nodes[key]
          IN  row.count \in Nat /\ row.at \in Nat /\ row.first \in Nat /\ row.last \in Nat

(* The query's order is total: ties are broken by the public key.          *)
LEMMA PrecedesTotal ==
  ASSUME NEW nodes, Sortable(nodes), NEW sort, NEW dir,
         NEW k \in DOMAIN nodes, NEW l \in DOMAIN nodes, k # l
  PROVE  Precedes(nodes, sort, dir, k, l) <=> ~Precedes(nodes, sort, dir, l, k)
<1> DEFINE a == SortKey(nodes[k], sort)
           b == SortKey(nodes[l], sort)
           r == KeyRank(nodes, k)
           q == KeyRank(nodes, l)
<1>1. a \in Nat /\ b \in Nat
  BY DEF Sortable, SortKey
<1>2. r \in Nat /\ q \in Nat /\ r # q
  BY KeysRanked DEF Sortable
<1>3. /\ Precedes(nodes, sort, dir, k, l) <=>
           IF a = b THEN r < q ELSE IF dir = "asc" THEN a < b ELSE a > b
      /\ Precedes(nodes, sort, dir, l, k) <=>
           IF b = a THEN q < r ELSE IF dir = "asc" THEN b < a ELSE b > a
  BY DEF Precedes
<1> HIDE DEF a, b, r, q
<1>4. QED
  BY <1>1, <1>2, <1>3

(* A sequence that the query may return.                                   *)
LEMMA OrderSorted ==
  ASSUME NEW nodes, Sortable(nodes), NEW sort, NEW dir, NEW p \in NodesOrders(nodes, sort, dir)
  PROVE  LET n == Cardinality(DOMAIN nodes)
         IN  /\ p \in [1..n -> DOMAIN nodes]
             /\ \A i, j \in 1..n : p[i] = p[j] => i = j
             /\ \A x \in DOMAIN nodes : \E i \in 1..n : p[i] = x
             /\ \A i, j \in 1..n : i < j => Precedes(nodes, sort, dir, p[i], p[j])
<1> DEFINE n == Cardinality(DOMAIN nodes)
<1>1. p \in [1..n -> DOMAIN nodes] /\ \A i, j \in 1..n : i # j => p[i] # p[j]
  BY DEF NodesOrders, SetToSeqs
<1>2. \A x \in DOMAIN nodes : \E i \in 1..n : p[i] = x
  <2>1. IsFiniteSet(DOMAIN nodes) /\ \A i, j \in 1..n : p[i] = p[j] => i = j
    BY <1>1 DEF Sortable
  <2>2. QED
    BY <1>1, <2>1, Enumerates
<1>3. DOMAIN p = 1..n /\ n \in Nat
  BY <1>1, FS_CardinalityType DEF Sortable
<1>4. ASSUME NEW i \in 1..n, NEW j \in 1..n, i < j
      PROVE  Precedes(nodes, sort, dir, p[i], p[j])
  <2>1. ~Precedes(nodes, sort, dir, p[j], p[i])
    BY <1>3, <1>4 DEF NodesOrders
  <2>2. p[i] # p[j] /\ p[i] \in DOMAIN nodes /\ p[j] \in DOMAIN nodes
    BY <1>1, <1>3, <1>4
  <2>3. QED
    BY <2>1, <2>2, PrecedesTotal
<1>5. QED
  BY <1>1, <1>2, <1>4

LEMMA LeastDifference ==
  ASSUME NEW D \in SUBSET Nat, D # {}
  PROVE  \E m \in D : \A k \in D : ~(k < m)
<1>1. PICK m \in D : \A k \in D : <<k, m>> \notin OpToRel(<, Nat)
  BY WFMin, NatLessThanWellFounded, Zenon
<1>2. \A k \in D : ~(k < m)
  BY <1>1, Zenon DEF OpToRel
<1>3. QED
  BY <1>2

(* Every execution of the query returns the rows in the same order.        *)
LEMMA OneOrder ==
  ASSUME NEW nodes, Sortable(nodes), NEW sort, NEW dir,
         NEW p \in NodesOrders(nodes, sort, dir), NEW q \in NodesOrders(nodes, sort, dir)
  PROVE  p = q
<1> DEFINE n == Cardinality(DOMAIN nodes)
           S == DOMAIN nodes
           D == {i \in 1..n : p[i] # q[i]}
           Before(k, l) == Precedes(nodes, sort, dir, k, l)
<1>1. n \in Nat
  BY FS_CardinalityType DEF Sortable
<1>2. /\ p \in [1..n -> S] /\ \A i, j \in 1..n : p[i] = p[j] => i = j
      /\ \A x \in S : \E i \in 1..n : p[i] = x
      /\ \A i, j \in 1..n : i < j => Before(p[i], p[j])
  BY OrderSorted
<1>3. /\ q \in [1..n -> S] /\ \A i, j \in 1..n : q[i] = q[j] => i = j
      /\ \A x \in S : \E i \in 1..n : q[i] = x
      /\ \A i, j \in 1..n : i < j => Before(q[i], q[j])
  BY OrderSorted
<1>4. \A k, l \in S : k # l => (Before(k, l) <=> ~Before(l, k))
  BY PrecedesTotal
<1> HIDE DEF n, S, Before
<1>5. ASSUME D # {} PROVE FALSE
  <2>1. D \in SUBSET Nat
    BY <1>1
  <2>2. PICK m \in D : \A k \in D : ~(k < m)
    BY <1>5, <2>1, LeastDifference
  <2>3. m \in 1..n /\ p[m] # q[m] /\ \A k \in 1..n : k < m => p[k] = q[k]
    BY <1>1, <2>2
  <2>4. PICK j \in 1..n : q[j] = p[m]
    BY <1>2, <1>3, <2>3
  <2>5. PICK i \in 1..n : p[i] = q[m]
    BY <1>2, <1>3, <2>3
  <2>6. m < j /\ m < i
    <3>1. j # m /\ i # m /\ m \in Int /\ i \in Int /\ j \in Int
      BY <1>1, <2>3, <2>4, <2>5
    <3>2. ~(j < m)
      BY <1>2, <2>3, <2>4, <3>1
    <3>3. ~(i < m)
      BY <1>3, <2>3, <2>5, <3>1
    <3>4. QED
      BY <3>1, <3>2, <3>3
  <2>7. Before(q[m], p[m]) /\ Before(p[m], q[m])
    BY <1>2, <1>3, <2>3, <2>4, <2>5, <2>6
  <2>8. QED
    BY <1>2, <1>3, <1>4, <2>3, <2>7
<1>6. \A i \in 1..n : p[i] = q[i]
  BY <1>5
<1>7. p = [i \in 1..n |-> p[i]] /\ q = [i \in 1..n |-> q[i]]
  BY <1>2, <1>3
<1>8. QED
  BY <1>6, <1>7

(* The pages of the sizes that the property asks for divide the positions. *)
LEMMA PagesDivide ==
  ASSUME NEW n \in Nat, NEW size \in {1, 2, 50}
  PROVE  LET pages == 1..NodesTotalPages(n, size)
         IN  /\ \A r \in 1..n : \E p \in pages :
                   /\ (p - 1) * size < r /\ r <= p * size
                   /\ \A q \in pages : (q - 1) * size < r /\ r <= q * size => q = p
             /\ n > 0 => \A p \in pages : (p - 1) * size < n
<1>1. CASE size = 1
  <2>1. NodesTotalPages(n, 1) = IF n = 0 THEN 1 ELSE n
    BY DEF NodesTotalPages
  <2>2. ASSUME NEW r \in 1..n PROVE r \in 1..NodesTotalPages(n, 1) /\ (r - 1) * 1 < r /\ r <= r * 1
    BY <2>1
  <2>3. \A p \in 1..NodesTotalPages(n, 1) : (p - 1) * 1 = p - 1 /\ p * 1 = p
    BY <2>1
  <2>4. n > 0 => \A p \in 1..NodesTotalPages(n, 1) : (p - 1) * 1 < n
    BY <2>1, <2>3
  <2>5. \A r \in 1..n : \A q \in 1..NodesTotalPages(n, 1) : q - 1 < r /\ r <= q => q = r
    BY <2>1
  <2>6. QED
    BY <1>1, <2>2, <2>3, <2>4, <2>5
<1>2. CASE size = 2
  <2> DEFINE t == NodesTotalPages(n, 2)
             P(r) == (r - 1) \div 2 + 1
  <2>1. t = (IF n = 0 THEN 1 ELSE (n + 1) \div 2) /\ t \in Nat
    BY DEF NodesTotalPages
  <2> HIDE DEF t
  <2>2. ASSUME NEW r \in 1..n
        PROVE  P(r) \in 1..t /\ (P(r) - 1) * 2 < r /\ r <= P(r) * 2
    BY <2>1
  <2>3. ASSUME NEW r \in 1..n, NEW q \in 1..t, (q - 1) * 2 < r, r <= q * 2
        PROVE  q = P(r)
    BY <2>1, <2>3
  <2>4. n > 0 => \A p \in 1..t : (p - 1) * 2 < n
    BY <2>1
  <2> HIDE DEF P
  <2>5. QED
    BY <1>2, <2>2, <2>3, <2>4 DEF t
<1>3. CASE size = 50
  <2> DEFINE t == NodesTotalPages(n, 50)
             P(r) == (r - 1) \div 50 + 1
  <2>1. t = (IF n = 0 THEN 1 ELSE (n + 49) \div 50) /\ t \in Nat
    BY DEF NodesTotalPages
  <2> HIDE DEF t
  <2>2. ASSUME NEW r \in 1..n
        PROVE  P(r) \in 1..t /\ (P(r) - 1) * 50 < r /\ r <= P(r) * 50
    BY <2>1
  <2>3. ASSUME NEW r \in 1..n, NEW q \in 1..t, (q - 1) * 50 < r, r <= q * 50
        PROVE  q = P(r)
    BY <2>1, <2>3
  <2>4. n > 0 => \A p \in 1..t : (p - 1) * 50 < n
    BY <2>1
  <2> HIDE DEF P
  <2>5. QED
    BY <1>3, <2>2, <2>3, <2>4 DEF t
<1>4. QED
  BY <1>1, <1>2, <1>3

(* The sizes that the property asks for. *)
Sizes == {1, 2, 50}

LEMMA NodesInPages ==
  ASSUME NEW nodes, Sortable(nodes), NEW sort, NEW dir, NEW size \in Sizes
  PROVE  Paged(nodes, sort, dir, size)
<1> DEFINE n == Cardinality(DOMAIN nodes)
           S == DOMAIN nodes
           pages == 1..NodesTotalPages(n, size)
<1> SUFFICES ASSUME NEW order \in [pages -> NodesOrders(nodes, sort, dir)]
             PROVE  /\ \A key \in S :
                         Cardinality({p \in pages :
                             Contains(NodesOnPage(order[p], p, size), key)}) = 1
                    /\ n > 0 => \A p \in pages :
                         Len(NodesOnPage(order[p], p, size)) =
                             NodesRangeEnd(n, p, size) - NodesRangeStart(n, p, size) + 1
  BY DEF Paged
<1>1. n \in Nat
  BY FS_CardinalityType DEF Sortable
<1>2. ASSUME NEW p \in pages
      PROVE  /\ order[p] \in [1..n -> S] /\ p \in Nat \ {0}
             /\ \A i, j \in 1..n : order[p][i] = order[p][j] => i = j
             /\ \A x \in S : \E i \in 1..n : order[p][i] = x
             /\ \A q \in pages : order[q] = order[p]
  <2>1. order[p] \in NodesOrders(nodes, sort, dir)
    OBVIOUS
  <2>2. \A q \in pages : order[q] \in NodesOrders(nodes, sort, dir)
    OBVIOUS
  <2>3. \A q \in pages : order[q] = order[p]
    BY <2>1, <2>2, OneOrder
  <2>4. QED
    BY <2>1, <2>3, OrderSorted
<1>3. /\ \A r \in 1..n : \E p \in pages :
            /\ (p - 1) * size < r /\ r <= p * size
            /\ \A q \in pages : (q - 1) * size < r /\ r <= q * size => q = p
      /\ n > 0 => \A p \in pages : (p - 1) * size < n
  BY <1>1, PagesDivide DEF Sizes
<1> HIDE DEF n, S, pages
<1>4. ASSUME NEW p \in pages
      PROVE  /\ (p - 1) * size < n =>
                  Len(NodesOnPage(order[p], p, size)) =
                      NodesRangeEnd(n, p, size) - NodesRangeStart(n, p, size) + 1
             /\ \A key : Contains(NodesOnPage(order[p], p, size), key) <=>
                  \E r \in 1..n : (p - 1) * size < r /\ r <= p * size /\ order[p][r] = key
  <2> DEFINE o == order[p]
             low == (p - 1) * size
             high == p * size
             last == Earlier(high, n)
             page == SubSeq(o, low + 1, last)
  <2>1. o \in [1..n -> S] /\ p \in Nat \ {0}
    BY <1>2
  <2>2. o \in Seq(S) /\ Len(o) = n
    BY <1>1, <2>1
  <2>3. low \in Nat /\ high \in Nat /\ low < high
    <3>1. CASE size = 1
      BY <2>1, <3>1
    <3>2. CASE size = 2
      BY <2>1, <3>2
    <3>3. CASE size = 50
      BY <2>1, <3>3
    <3>4. QED
      BY <3>1, <3>2, <3>3 DEF Sizes
  <2>4. page = NodesOnPage(o, p, size)
    BY <2>2 DEF NodesOnPage
  <2>5. NodesRangeEnd(n, p, size) = last /\ (n # 0 => NodesRangeStart(n, p, size) = low + 1)
    BY DEF NodesRangeEnd, NodesRangeStart
  <2> HIDE DEF o, low, high
  <2>6. /\ last \in Nat /\ last <= n /\ last <= high
        /\ \A r \in Nat : r <= last <=> r <= n /\ r <= high
    BY <1>1, <2>3 DEF Earlier
  <2> HIDE DEF last
  <2>7. \A i \in (low + 1)..last : o[i] \in S
    BY <1>1, <2>1, <2>3, <2>6
  <2>8. /\ Len(page) = IF low + 1 <= last THEN last - (low + 1) + 1 ELSE 0
        /\ \A i \in 1..(last - (low + 1) + 1) : page[i] = o[(low + 1) + i - 1]
    <3>1. low + 1 \in Int /\ last \in Int
      BY <2>3, <2>6
    <3>2. QED
      BY <2>7, <3>1, SubSeqProperties
  <2> HIDE DEF page
  <2>9. \A i \in 1..(last - low) : page[i] = o[low + i]
    <3>1. \A i \in 1..(last - low) :
             i \in 1..(last - (low + 1) + 1) /\ (low + 1) + i - 1 = low + i
      BY <2>3, <2>6
    <3>2. QED
      BY <2>8, <3>1
  <2>10. /\ low < n => Len(page) = last - (low + 1) + 1
         /\ Len(page) = IF low < last THEN last - low ELSE 0
    BY <1>1, <2>3, <2>6, <2>8
  <2>11. ASSUME NEW key
         PROVE  Contains(page, key) <=> \E r \in 1..n : low < r /\ r <= high /\ o[r] = key
    <3>1. ASSUME NEW i \in 1..Len(page), page[i] = key
          PROVE  \E r \in 1..n : low < r /\ r <= high /\ o[r] = key
      <4>1. i \in 1..(last - low) /\ low + i \in 1..n /\ low < low + i /\ low + i <= high
        BY <1>1, <2>3, <2>6, <2>10, <3>1
      <4>2. o[low + i] = key
        BY <2>9, <3>1, <4>1
      <4>3. QED
        BY <4>1, <4>2
    <3>2. ASSUME NEW r \in 1..n, low < r, r <= high, o[r] = key
          PROVE  \E i \in 1..Len(page) : page[i] = key
      <4>1. r - low \in 1..Len(page) /\ r - low \in 1..(last - low) /\ low + (r - low) = r
        BY <1>1, <2>3, <2>6, <2>10, <3>2
      <4>2. page[r - low] = key
        BY <2>9, <3>2, <4>1
      <4>3. QED
        BY <4>1, <4>2
    <3>3. QED
      BY <3>1, <3>2 DEF Contains
  <2>12. low < n => n # 0
    BY <1>1, <2>3
  <2>13. QED
    BY <2>4, <2>5, <2>10, <2>11, <2>12 DEF o, low, high
<1>5. ASSUME NEW key \in S
      PROVE  Cardinality({p \in pages : Contains(NodesOnPage(order[p], p, size), key)}) = 1
  <2>1. PICK any \in pages : TRUE
    <3>1. CASE n = 0
      BY <3>1 DEF NodesTotalPages, pages
    <3>2. CASE n # 0
      BY <1>1, <1>3, <3>2
    <3>3. QED
      BY <3>1, <3>2
  <2>2. PICK r \in 1..n : order[any][r] = key
    BY <1>2, <1>5, <2>1
  <2>3. PICK p \in pages :
            /\ (p - 1) * size < r /\ r <= p * size
            /\ \A q \in pages : (q - 1) * size < r /\ r <= q * size => q = p
    BY <1>3, <2>2
  <2>4. \A q \in pages : \A i \in 1..n : order[q][i] = key => i = r
    BY <1>2, <2>1, <2>2
  <2>5. order[p][r] = key
    BY <1>2, <2>1, <2>2
  <2>6. \A q \in pages : Contains(NodesOnPage(order[q], q, size), key) <=> q = p
    BY <1>4, <2>2, <2>3, <2>4, <2>5
  <2>7. {q \in pages : Contains(NodesOnPage(order[q], q, size), key)} = {p}
    BY <2>6
  <2>8. QED
    BY <2>7, FS_Singleton
<1>6. QED
  BY <1>3, <1>4, <1>5

LEMMA NodesSortable ==
  ASSUME NEW l \in Seq(EventSet), NEW b \in Nat, b <= Len(l), NEW nodes,
         AdvertRows(l, nodes, 1, b), NodeRowsOf(l, nodes, 1, b)
  PROVE  Sortable(nodes)
<1> DEFINE Heard1(key) == HeardOf(l, key, 1, b)
           A == {i \in 1..b : IsPacket(l[i]) /\ l[i].advert # None}
           f == [i \in A |-> l[i].advert.key]
<1>1. \A key : key \in DOMAIN nodes <=> Heard1(key) # {}
  BY DEF AdvertRows
<1>2. \A key : Heard1(key) = {i \in A : l[i].advert.key = key}
  BY DEF HeardOf
<1>3. f \in Surjection(A, DOMAIN nodes)
  <2>1. f \in [A -> DOMAIN nodes]
    BY <1>1, <1>2
  <2>2. \A key \in DOMAIN nodes : \E i \in A : f[i] = key
    BY <1>1, <1>2
  <2>3. QED
    BY <2>1, <2>2, Fun_IsSurj
<1>4. IsFiniteSet(A)
  <2>1. IsFiniteSet(1..b)
    BY FS_Interval
  <2>2. QED
    BY <2>1, FS_Subset
<1>5. IsFiniteSet(DOMAIN nodes)
  BY <1>3, <1>4, FS_Surjection
<1> HIDE DEF A, f
<1>6. ASSUME NEW key \in DOMAIN nodes
      PROVE  LET row == nodes[key]
             IN  row.count \in Nat /\ row.at \in Nat /\ row.first \in Nat /\ row.last \in Nat
  <2> DEFINE row == nodes[key]
             S == Heard1(key)
  <2>1. AdvertRow(l, row, S) /\ NodeRow(l, row, S)
    BY <1>6 DEF AdvertRows, NodeRowsOf
  <2>2. \A i \in S : l[i].ts \in Nat /\ l[i].advert.at \in Nat
    BY AdvertTimes
  <2> HIDE DEF row, S
  <2>3. row.count \in Nat /\ row.first \in Nat /\ row.last \in Nat
    BY <2>1, <2>2 DEF AdvertRow, Counts, Lowest, Highest
  <2>4. row.at \in Nat
    BY <2>1, <2>2 DEF NodeRow, Carrying
  <2>5. QED
    BY <2>3, <2>4 DEF row
<1>7. QED
  BY <1>5, <1>6 DEF Sortable

(* Going from the first page of nodes to the last shows every node exactly   *)
(* once and the footer counts right, whatever log was projected and whatever *)
(* faults there were: the query's order is the same for every page.          *)
THEOREM NodesPagedHolds ==
  ASSUME "nodes" \in StageSet
  PROVE  Spec => []NodesPaged
<1>1. Loop /\ AdvertsInv /\ SharesInv => NodesPaged
  <2> SUFFICES ASSUME Loop, AdvertsInv, ShareInv("nodes") PROVE NodesPaged
    BY DEF SharesInv, ShareStages
  <2>1. log \in Seq(EventSet) /\ dbCursor \in Nat /\ dbCursor <= Len(log)
    BY DEF Loop
  <2>2. AdvertRows(log, NodeRows, 1, dbCursor) /\ NodeRowsOf(log, NodeRows, 1, dbCursor)
    BY DEF AdvertsInv, ShareInv, TableSays, NodeRows
  <2>3. Sortable(NodeRows)
    BY <2>1, <2>2, NodesSortable
  <2>4. \A asked \in 0..2 : PageSize(asked) \in Sizes
    BY DEF PageSize, Sizes
  <2>5. \A sort, dir : \A asked \in 0..2 : Paged(NodeRows, sort, dir, PageSize(asked))
    BY <2>3, <2>4, NodesInPages
  <2>6. QED
    BY <2>5 DEF NodesPaged
<1>2. Init => AdvertsInv
  BY AdvertsInit
<1>3. ASSUME Loop /\ Batch /\ SharesInv, AdvertsInv, [Next]_vars PROVE AdvertsInv'
  BY <1>3, AdvertsStep
<1>4. QED
  BY <1>1, <1>2, <1>3, SharesHold, PTL DEF Spec

-----------------------------------------------------------------------------
(* The pages on neighbors.  A query's sum over rows is a fold that picks one *)
(* of them after the other.                                                  *)
Picked(s) == CHOOSE x \in s : TRUE
Adds(rows, K, g) ==
    g = [s \in SUBSET K |-> IF s = {} THEN 0 ELSE rows[Picked(s)].packets + g[s \ {Picked(s)}]]

LEMMA SumIsAdded ==
  ASSUME NEW rows, NEW K, NEW h, Adds(rows, K, h)
  PROVE  \E g : Adds(rows, K, g) /\ SumPackets(rows, K) = g[K]
<1> DEFINE g == CHOOSE f : Adds(rows, K, f)
<1>1. Adds(rows, K, g)
  BY Zenon
<1>2. SumPackets(rows, K) = g[K]
  BY Zenon DEF SumPackets, MapThenSumSet, MapThenFoldSet, Adds, Picked
<1>3. QED
  BY <1>1, <1>2

(* There is one way to add: where two results differ, they differ already   *)
(* on a smaller set.                                                        *)
LEMMA AddsOneWay ==
  ASSUME NEW rows, NEW K, IsFiniteSet(K), NEW g, Adds(rows, K, g), NEW h, Adds(rows, K, h)
  PROVE  g[K] = h[K]
<1> DEFINE bad == {s \in SUBSET K : g[s] # h[s]}
           D == {Cardinality(s) : s \in bad}
<1>1. \A s \in SUBSET K : IsFiniteSet(s) /\ Cardinality(s) \in Nat
  BY FS_Subset, FS_CardinalityType
<1>2. \A s \in SUBSET K : s # {} => Picked(s) \in s
  BY DEF Picked
<1>3. ASSUME bad # {} PROVE FALSE
  <2>1. D \in SUBSET Nat /\ D # {}
    BY <1>1, <1>3
  <2>2. PICK m \in D : \A k \in D : ~(k < m)
    BY <2>1, LeastDifference
  <2>3. PICK s \in bad : Cardinality(s) = m
    BY <2>2
  <2>4. s \in SUBSET K /\ g[s] # h[s] /\ \A t \in bad : ~(Cardinality(t) < Cardinality(s))
    BY <2>2, <2>3
  <2> HIDE DEF bad, D
  <2> DEFINE x == Picked(s)
             t == s \ {x}
  <2>5. s # {}
    BY <2>4 DEF Adds
  <2>6. x \in s /\ t \in SUBSET K
    BY <1>2, <2>4, <2>5
  <2>7. Cardinality(t) = Cardinality(s) - 1
    BY <1>1, <2>4, <2>6, FS_RemoveElement
  <2>8. t \notin bad
    BY <1>1, <2>4, <2>6, <2>7
  <2>9. g[t] = h[t]
    BY <2>6, <2>8 DEF bad
  <2>10. g[s] = rows[x].packets + g[t] /\ h[s] = rows[x].packets + h[t]
    BY <2>4, <2>5 DEF Adds
  <2>11. QED
    BY <2>4, <2>9, <2>10
<1>4. QED
  BY <1>3

(* Rows that count disjoint sets add up to the size of all of them.         *)
LEMMA SumCounts ==
  ASSUME NEW rows, NEW K, IsFiniteSet(K), NEW U, IsFiniteSet(U), NEW P \in [K -> SUBSET U],
         \A k \in K : rows[k].packets = Cardinality(P[k]),
         \A k, m \in K : k # m => P[k] \cap P[m] = {}
  PROVE  SumPackets(rows, K) = Cardinality(UNION {P[k] : k \in K})
<1> DEFINE All(s) == UNION {P[k] : k \in s}
           h == [s \in SUBSET K |-> Cardinality(All(s))]
<1>1. ASSUME NEW s \in SUBSET K, s # {}
      PROVE  h[s] = rows[Picked(s)].packets + h[s \ {Picked(s)}]
  <2> DEFINE x == Picked(s)
             t == s \ {x}
  <2>1. x \in s
    BY <1>1 DEF Picked
  <2> HIDE DEF x
  <2>2. x \in K /\ t \in SUBSET K
    BY <2>1
  <2>3. All(s) = P[x] \cup All(t) /\ P[x] \cap All(t) = {}
    BY <2>1, <2>2
  <2>4. P[x] \in SUBSET U /\ All(t) \in SUBSET U
    BY <2>2
  <2> HIDE DEF t, All
  <2>5. IsFiniteSet(P[x]) /\ IsFiniteSet(All(t))
    BY <2>4, FS_Subset
  <2>6. /\ Cardinality(All(s)) = Cardinality(P[x]) + Cardinality(All(t)) - Cardinality({})
        /\ Cardinality(P[x]) \in Nat /\ Cardinality(All(t)) \in Nat
    BY <2>3, <2>5, FS_Union, FS_CardinalityType
  <2>7. Cardinality(All(s)) = rows[x].packets + Cardinality(All(t))
    BY <2>2, <2>6, FS_EmptySet
  <2>8. QED
    BY <2>2, <2>7 DEF t, x
<1>2. h[{}] = 0
  BY FS_EmptySet
<1> DEFINE sums == [s \in SUBSET K |-> IF s = {} THEN 0
                                       ELSE rows[Picked(s)].packets + h[s \ {Picked(s)}]]
<1>3. \A s \in SUBSET K : h[s] = sums[s]
  <2>1. \A s \in SUBSET K :
           sums[s] = IF s = {} THEN 0 ELSE rows[Picked(s)].packets + h[s \ {Picked(s)}]
    OBVIOUS
  <2> HIDE DEF h, sums
  <2>2. QED
    BY <1>1, <1>2, <2>1
<1>4. Adds(rows, K, h)
  <2>1. h = [s \in SUBSET K |-> h[s]] /\ sums = [s \in SUBSET K |-> sums[s]]
    OBVIOUS
  <2> HIDE DEF h, sums
  <2>2. h = sums
    BY <1>3, <2>1
  <2>3. QED
    BY <2>2 DEF Adds, sums
<1>5. h[K] = Cardinality(All(K))
  OBVIOUS
<1> HIDE DEF h
<1>6. PICK g : Adds(rows, K, g) /\ SumPackets(rows, K) = g[K]
  BY <1>4, SumIsAdded
<1>7. g[K] = h[K]
  BY <1>4, <1>6, AddsOneWay
<1>8. QED
  BY <1>5, <1>6, <1>7

LEMMA RowsAdd ==
  ASSUME Exact, NEW l \in Seq(EventSet), NEW b \in Nat, b <= Len(l), NEW t, NeighborRows(l, t, b),
         NEW K \in SUBSET DOMAIN t
  PROVE  /\ IsFiniteSet(K)
         /\ SumPackets(t, K) = Cardinality(UNION {PacketsFrom(l, k, 1, b) : k \in K})
<1> DEFINE U == {i \in 1..b : IsPacket(l[i]) /\ l[i].src # None}
           f == [i \in U |-> NeighborKey(l[i])]
           P == [k \in K |-> PacketsFrom(l, k, 1, b)]
<1>1. IsFiniteSet(U)
  <2>1. IsFiniteSet(1..b)
    BY FS_Interval
  <2>2. QED
    BY <2>1, FS_Subset
<1>2. \A k : PacketsFrom(l, k, 1, b) = {i \in U : NeighborKey(l[i]) = k}
  BY DEF PacketsFrom
<1>3. \A k : k \in DOMAIN t <=> PacketsFrom(l, k, 1, b) # {}
  BY DEF NeighborRows
<1>4. \A k \in DOMAIN t : t[k].packets = Cardinality(PacketsFrom(l, k, 1, b))
  BY DEF NeighborRows, NeighborTotals, Counts
<1>5. IsFiniteSet(DOMAIN t)
  <2>1. f \in [U -> DOMAIN t]
    BY <1>2, <1>3
  <2>2. \A k \in DOMAIN t : \E i \in U : f[i] = k
    BY <1>2, <1>3
  <2>3. f \in Surjection(U, DOMAIN t)
    BY <2>1, <2>2, Fun_IsSurj
  <2> HIDE DEF U, f
  <2>4. QED
    BY <1>1, <2>3, FS_Surjection
<1>6. IsFiniteSet(K)
  BY <1>5, FS_Subset
<1>7. P \in [K -> SUBSET U]
  BY <1>2
<1>8. \A k \in K : t[k].packets = Cardinality(P[k])
  BY <1>4
<1>9. \A k, m \in K : k # m => P[k] \cap P[m] = {}
  BY <1>2
<1>10. \A k \in K : P[k] = PacketsFrom(l, k, 1, b)
  OBVIOUS
<1> HIDE DEF U, P, f
<1>11. SumPackets(t, K) = Cardinality(UNION {P[k] : k \in K})
  BY <1>1, <1>6, <1>7, <1>8, <1>9, SumCounts
<1>12. UNION {P[k] : k \in K} = UNION {PacketsFrom(l, k, 1, b) : k \in K}
  BY <1>10
<1>13. QED
  BY <1>6, <1>11, <1>12

LEMMA KeyParts ==
  ASSUME NEW e
  PROVE  LET k == NeighborKey(e)
         IN  k[1] = e.obs /\ k[2] = e.src /\ k[3] = BucketOf(e.ts)
  BY DEF NeighborKey

(* The rows of a source, and those of them that an observer has, hold the   *)
(* packets heard from it.                                                   *)
RowsFrom(s, since) == {k \in HeardSince(Neighbors, since) : k[2] = s}
RowsBetween(o, s, since) == {k \in RowsFrom(s, since) : k[1] = o}
PacketsIn(K) == UNION {PacketsFrom(log, k, 1, dbCursor) : k \in K}

LEMMA RowsFromSource ==
  ASSUME NeighborRows(log, Neighbors, dbCursor), NEW s, s # None, NEW since
  PROVE  /\ PacketsIn(RowsFrom(s, since)) = HeardFrom(s, since)
         /\ \A o : PacketsIn(RowsBetween(o, s, since)) =
                       {i \in HeardFrom(s, since) : log[i].obs = o}
         /\ {k[1] : k \in RowsFrom(s, since)} = {log[i].obs : i \in HeardFrom(s, since)}
         /\ RowsFrom(s, since) # {} <=> HeardFrom(s, since) # {}
<1> DEFINE P(k) == PacketsFrom(log, k, 1, dbCursor)
           R == RowsFrom(s, since)
           H == HeardFrom(s, since)
<1>1. \A k \in DOMAIN Neighbors : P(k) # {}
  BY DEF NeighborRows
<1>2. \A k : \A i \in P(k) : k \in DOMAIN Neighbors
  BY DEF NeighborRows
<1>3. \A k : \A i : i \in P(k) <=> /\ i \in Projected /\ IsPacket(log[i]) /\ log[i].src # None
                                   /\ k = NeighborKey(log[i])
  BY DEF PacketsFrom, Projected
<1>4. \A i : i \in H <=> /\ i \in Projected /\ IsPacket(log[i]) /\ log[i].src = s
                         /\ BucketOf(log[i].ts) >= since
  BY DEF HeardFrom, PacketsWith
<1>5. \A k : k \in R <=> k \in DOMAIN Neighbors /\ k[2] = s /\ k[3] >= since
  BY DEF RowsFrom, HeardSince
<1> HIDE DEF P, R, H
<1>6. \A k \in R : \A i \in P(k) : i \in H /\ log[i].obs = k[1]
  BY <1>3, <1>4, <1>5, KeyParts
<1>7. \A i \in H : \E k \in R : i \in P(k) /\ k[1] = log[i].obs
  <2> TAKE i \in H
  <2> DEFINE k == NeighborKey(log[i])
  <2>1. i \in P(k)
    BY <1>3, <1>4
  <2>2. k[1] = log[i].obs /\ k[2] = log[i].src /\ k[3] = BucketOf(log[i].ts)
    BY KeyParts
  <2> HIDE DEF k
  <2>3. k \in R
    BY <1>2, <1>4, <1>5, <2>1, <2>2
  <2>4. QED
    BY <2>1, <2>2, <2>3
<1>8. \A k \in R : \E i \in P(k) : i \in H /\ log[i].obs = k[1]
  BY <1>1, <1>5, <1>6
<1>9. PacketsIn(R) = H
  BY <1>6, <1>7 DEF PacketsIn, P
<1>10. ASSUME NEW o PROVE PacketsIn(RowsBetween(o, s, since)) = {i \in H : log[i].obs = o}
  BY <1>6, <1>7 DEF PacketsIn, RowsBetween, P, R
<1>11. {k[1] : k \in R} = {log[i].obs : i \in H}
  BY <1>7, <1>8
<1>12. R # {} <=> H # {}
  BY <1>7, <1>8
<1>13. QED
  BY <1>9, <1>10, <1>11, <1>12 DEF R, H

LEMMA RowsCounted ==
  ASSUME Exact, Loop, NeighborRows(log, Neighbors, dbCursor), NEW K \in SUBSET DOMAIN Neighbors
  PROVE  SumPackets(Neighbors, K) = Cardinality(PacketsIn(K))
<1>1. log \in Seq(EventSet) /\ dbCursor \in Nat /\ dbCursor <= Len(log)
  BY DEF Loop
<1>2. PICK t \in {Neighbors} : TRUE
  OBVIOUS
<1>3. NeighborRows(log, t, dbCursor) /\ K \in SUBSET DOMAIN t
  BY <1>2
<1>4. SumPackets(t, K) = Cardinality(UNION {PacketsFrom(log, k, 1, dbCursor) : k \in K})
  BY <1>1, <1>3, RowsAdd
<1>5. PacketsIn(K) = UNION {PacketsFrom(log, k, 1, dbCursor) : k \in K}
  BY DEF PacketsIn
<1>6. QED
  BY <1>2, <1>4, <1>5, Zenon

LEMMA SourceCounted ==
  ASSUME Exact, Loop, NeighborRows(log, Neighbors, dbCursor), NEW o, NEW s, s # None, NEW since
  PROVE  SumPackets(Neighbors, RowsBetween(o, s, since))
             = Cardinality({i \in HeardFrom(s, since) : log[i].obs = o})
<1> DEFINE K == RowsBetween(o, s, since)
           own == {i \in HeardFrom(s, since) : log[i].obs = o}
<1>1. PacketsIn(K) = own
  BY RowsFromSource, Zenon
<1>2. K \in SUBSET DOMAIN Neighbors
  BY DEF RowsBetween, RowsFrom, HeardSince
<1> HIDE DEF K, own
<1>3. SumPackets(Neighbors, K) = Cardinality(PacketsIn(K))
  BY <1>2, RowsCounted, Zenon
<1>4. QED
  BY <1>1, <1>3 DEF K, own

(* The neighbors page and the pages of the observers tell the same of a      *)
(* source, and it is what the log says, as long as every batch is committed  *)
(* and known to be: for any log and any moment that the look back starts at. *)
THEOREM NeighborsShownHolds ==
  ASSUME "rollup_neighbor" \in StageSet, Faults \cap {"fail", "lostAck"} = {}
  PROVE  Spec => []NeighborsShown
<1>1. Exact
  BY DEF Exact
<1>2. Loop /\ NeighborInv => NeighborsShown
  <2> SUFFICES ASSUME Loop, NeighborInv,
                      NEW since \in Sinces,
                      NEW s \in {log[i].src : i \in PacketsWith(LAMBDA e : e.src # None)}
               PROVE  LET page == NeighborsPage(Neighbors, since)
                          hearers == {log[i].obs : i \in HeardFrom(s, since)}
                          own(o) == {i \in HeardFrom(s, since) : log[i].obs = o}
                      IN  /\ s \in DOMAIN page <=> hearers # {}
                          /\ s \in DOMAIN page =>
                                /\ page[s].packets = Cardinality(HeardFrom(s, since))
                                /\ page[s].heardBy = Cardinality(hearers)
                          /\ \A o \in hearers :
                                ObserverNeighbors(Neighbors, o, since)[s] =
                                    [packets |-> Cardinality(own(o)), heardBy |-> page[s].heardBy]
    BY DEF NeighborsShown
  <2> DEFINE page == NeighborsPage(Neighbors, since)
             H == HeardFrom(s, since)
             hearers == {log[i].obs : i \in H}
             own(o) == {i \in H : log[i].obs = o}
             R == RowsFrom(s, since)
             heardBy == Cardinality({k[1] : k \in R})
  <2>1. log \in Seq(EventSet) /\ dbCursor \in Nat /\ dbCursor <= Len(log)
    BY DEF Loop
  <2>2. NeighborRows(log, Neighbors, dbCursor)
    BY DEF NeighborInv, Neighbors
  <2>3. s # None
    BY DEF PacketsWith
  <2>4. /\ PacketsIn(R) = H /\ \A o : PacketsIn(RowsBetween(o, s, since)) = own(o)
        /\ {k[1] : k \in R} = hearers /\ (R # {} <=> H # {})
    BY <2>2, <2>3, RowsFromSource
  <2>5. ASSUME NEW K \in SUBSET DOMAIN Neighbors
        PROVE  SumPackets(Neighbors, K) = Cardinality(PacketsIn(K))
    BY <1>1, <2>2, RowsCounted, Zenon
  <2>6. R \in SUBSET DOMAIN Neighbors /\ \A o : RowsBetween(o, s, since) \in SUBSET DOMAIN Neighbors
    BY DEF RowsFrom, RowsBetween, HeardSince
  <2>7. /\ s \in DOMAIN page <=> R # {}
        /\ s \in DOMAIN page =>
              page[s] = [packets |-> SumPackets(Neighbors, R), heardBy |-> heardBy]
    BY DEF NeighborsPage, Sources, RowsFrom
  <2>8. ASSUME NEW o \in hearers
        PROVE  ObserverNeighbors(Neighbors, o, since)[s] =
                   [packets |-> SumPackets(Neighbors, RowsBetween(o, s, since)),
                    heardBy |-> heardBy]
    <3>1. PICK k \in R : k[1] = o
      BY <2>4, <2>8
    <3>2. s \in {j[2] : j \in {m \in HeardSince(Neighbors, since) : m[1] = o}}
      BY <3>1 DEF RowsFrom
    <3>3. QED
      BY <3>2 DEF ObserverNeighbors, RowsFrom, RowsBetween
  <2>9. heardBy = Cardinality(hearers)
    BY <2>4
  <2>10. hearers # {} <=> H # {}
    OBVIOUS
  <2> HIDE DEF page, H, R, heardBy, hearers, own
  <2>11. /\ s \in DOMAIN page <=> hearers # {}
         /\ s \in DOMAIN page =>
               /\ page[s].packets = Cardinality(H)
               /\ page[s].heardBy = heardBy /\ heardBy = Cardinality(hearers)
    <3>1. SumPackets(Neighbors, R) = Cardinality(H)
      BY <2>4, <2>5, <2>6
    <3>2. QED
      BY <2>4, <2>7, <2>9, <2>10, <3>1
  <2>12. ASSUME NEW o \in hearers
         PROVE  ObserverNeighbors(Neighbors, o, since)[s] =
                    [packets |-> Cardinality(own(o)), heardBy |-> page[s].heardBy]
    <3>1. SumPackets(Neighbors, RowsBetween(o, s, since)) = Cardinality(own(o))
      BY <2>4, <2>5, <2>6
    <3>2. s \in DOMAIN page
      BY <2>11, <2>12
    <3>3. page[s].heardBy = heardBy
      BY <2>11, <3>2
    <3>4. QED
      BY <2>8, <3>1, <3>3
  <2>13. QED
    BY <2>11, <2>12 DEF page, H, hearers, own
<1>3. Init => NeighborInv
  BY NeighborInit
<1>4. ASSUME Loop /\ Batch /\ SharesInv, NeighborInv, [Next]_vars PROVE NeighborInv'
  BY <1>1, <1>4, NeighborStep
<1>5. QED
  BY <1>2, <1>3, <1>4, SharesHold, PTL DEF Spec

-----------------------------------------------------------------------------
(* The averages of the neighbor rollup, under every fault: a sum in memory  *)
(* weighs as many values as are known to lie between the bounds, and a      *)
(* stored average lies between them, so that a row has an average as soon   *)
(* as it has bounds.                                                        *)
Weighed(acc) ==
    /\ DOMAIN acc = NeighborFields /\ acc.packets \in Nat
    /\ Weighs(acc.packets, acc.sum, acc.n, acc.min, acc.max)
Averaged(row) == row.packets \in Nat /\ Averages(row.packets, row.avg, row.min, row.max)

AllWeighed(m) == \A k \in DOMAIN m : Weighed(m[k])
AllAveraged(t) == \A k \in DOMAIN t : Averaged(t[k])

LEMMA WeighedApplied ==
  ASSUME NEW m, AllWeighed(m), NEW e \in EventSet
  PROVE  AllWeighed(NeighborApply(m, e))
<1>1. CASE ~IsPacket(e) \/ e.src = None
  BY <1>1 DEF NeighborApply
<1>2. CASE IsPacket(e) /\ e.src # None
  <2> DEFINE k == NeighborKey(e)
             acc == IF k \in DOMAIN m THEN m[k] ELSE FreshNeighbor
             heard == e.rssi # None
             new == [acc EXCEPT !.packets = @ + 1,
                                !.sum = IF heard THEN @ + e.rssi ELSE @,
                                !.n = IF heard THEN @ + 1 ELSE @,
                                !.min = OptMin(@, e.rssi),
                                !.max = OptMax(@, e.rssi),
                                !.dirty = TRUE]
  <2>1. NeighborApply(m, e) = Put(m, k, new)
    BY <1>2 DEF NeighborApply
  <2>2. Weighed(acc)
    <3>1. Weighed(FreshNeighbor)
      BY DEF Weighed, FreshNeighbor, NeighborFields, Weighs
    <3>2. QED
      BY <3>1 DEF AllWeighed
  <2>3. e.rssi = None \/ e.rssi \in Int
    BY <1>2, EventsAssumption
  <2> HIDE DEF acc
  <2>4. /\ DOMAIN new = DOMAIN acc /\ new.packets = acc.packets + 1
        /\ new.sum = acc.sum + (IF heard THEN e.rssi ELSE 0)
        /\ new.n = acc.n + (IF heard THEN 1 ELSE 0)
        /\ new.min = OptMin(acc.min, e.rssi) /\ new.max = OptMax(acc.max, e.rssi)
    <3>1. /\ {"packets", "sum", "n", "min", "max", "dirty"} \subseteq DOMAIN acc
          /\ acc.sum \in Int /\ acc.n \in Nat
      BY <2>2 DEF Weighed, NeighborFields, Weighs
    <3>2. /\ DOMAIN new = DOMAIN acc /\ new.packets = acc.packets + 1
          /\ new.sum = (IF heard THEN acc.sum + e.rssi ELSE acc.sum)
          /\ new.n = (IF heard THEN acc.n + 1 ELSE acc.n)
          /\ new.min = OptMin(acc.min, e.rssi) /\ new.max = OptMax(acc.max, e.rssi)
      BY <3>1
    <3> HIDE DEF new
    <3>3. QED
      BY <3>1, <3>2
  <2> HIDE DEF new
  <2>5. Weighs(1, IF heard THEN e.rssi ELSE 0, IF heard THEN 1 ELSE 0, e.rssi, e.rssi)
    BY <2>3 DEF Weighs
  <2>6. Weighed(new)
    <3>1. Weighs(acc.packets + 1, acc.sum + (IF heard THEN e.rssi ELSE 0),
                 acc.n + (IF heard THEN 1 ELSE 0),
                 OptMin(acc.min, e.rssi), OptMax(acc.max, e.rssi))
      BY <2>2, <2>5, WeighsJoin DEF Weighed
    <3>2. QED
      BY <2>2, <2>4, <3>1 DEF Weighed
  <2>7. QED
    BY <2>1, <2>6 DEF AllWeighed, Put
<1>3. QED
  BY <1>1, <1>2

(* A row that is read back, and one that is written.                        *)
LEMMA WeighedRead ==
  ASSUME NEW acc, Weighed(acc), NEW row, Averaged(row)
  PROVE  Weighed(WithNeighborRow(acc, row))
<1> DEFINE weighed == row.avg # None /\ row.packets > 0
           sum == IF weighed THEN SumOf(row.avg, row.packets) ELSE 0
           n == IF weighed THEN row.packets ELSE 0
           new == WithNeighborRow(acc, row)
<1>1. /\ {"packets", "sum", "n", "min", "max"} \subseteq DOMAIN acc
      /\ acc.sum \in Int /\ acc.n \in Nat /\ acc.packets \in Nat /\ row.packets \in Nat
  BY DEF Weighed, NeighborFields, Weighs, Averaged
<1>2. Weighs(row.packets, sum, n, row.min, row.max)
  BY WeighsRead DEF Averaged
<1>3. /\ DOMAIN new = DOMAIN acc /\ new.packets = acc.packets + row.packets
      /\ new.sum = (IF weighed THEN acc.sum + SumOf(row.avg, row.packets) ELSE acc.sum)
      /\ new.n = (IF weighed THEN acc.n + row.packets ELSE acc.n)
      /\ new.min = OptMin(acc.min, row.min) /\ new.max = OptMax(acc.max, row.max)
  BY <1>1 DEF WithNeighborRow
<1> HIDE DEF new
<1>4. new.sum = acc.sum + sum /\ new.n = acc.n + n
  BY <1>1, <1>3
<1>5. Weighs(acc.packets + row.packets, acc.sum + sum, acc.n + n,
             OptMin(acc.min, row.min), OptMax(acc.max, row.max))
  BY <1>1, <1>2, WeighsJoin DEF Weighed
<1>6. QED
  BY <1>1, <1>3, <1>4, <1>5 DEF Weighed, new

LEMMA WeighedWritten ==
  ASSUME NEW acc, Weighed(acc)
  PROVE  Averaged(NeighborRow(acc))
<1>1. Averages(acc.packets, StoredAvg(acc.sum, acc.n), acc.min, acc.max)
  BY WeighsStored DEF Weighed
<1>2. QED
  BY <1>1 DEF Weighed, Averaged, NeighborRow

LEMMA WeighedMarked ==
  ASSUME NEW acc, Weighed(acc), NEW b
  PROVE  Weighed([acc EXCEPT !.loaded = b]) /\ Weighed([acc EXCEPT !.dirty = b])
  BY DEF Weighed, NeighborFields

(* Whatever Flush reads back and marks, whether it ends or breaks off.      *)
LEMMA WeighedFlushed ==
  ASSUME NEW m, AllWeighed(m), NEW t, AllAveraged(t)
  PROVE  /\ AllAveraged(NeighborFlushTable(m, t))
         /\ \A keys : AllWeighed(NeighborRead(m, t, keys))
         /\ \A written : AllWeighed(NeighborFlushMem(m, t, written))
<1>1. ASSUME NEW keys PROVE AllWeighed(NeighborRead(m, t, keys))
  BY WeighedRead DEF AllWeighed, AllAveraged, NeighborRead
<1> DEFINE pending == NeighborPending(m)
           read == NeighborRead(m, t, pending)
           full == NeighborRehydrate(m, t)
<1>2. AllWeighed(read) /\ DOMAIN read = DOMAIN m
  BY <1>1 DEF NeighborRead
<1>3. DOMAIN full = DOMAIN m /\ \A k \in DOMAIN m : Weighed(full[k])
  <2>1. full = [k \in DOMAIN m |-> IF k \in pending THEN [read[k] EXCEPT !.loaded = TRUE]
                                                    ELSE m[k]]
    BY DEF NeighborRehydrate
  <2> HIDE DEF full, read, pending
  <2>2. \A k \in DOMAIN m : Weighed([read[k] EXCEPT !.loaded = TRUE])
    BY <1>2, WeighedMarked DEF AllWeighed
  <2>3. QED
    BY <2>1, <2>2 DEF AllWeighed
<1> HIDE DEF full, read, pending
<1>4. AllAveraged(NeighborFlushTable(m, t))
  <2> DEFINE rows == NeighborFlushTable(m, t)
  <2>1. rows = [k \in DOMAIN t \cup NeighborDirty(m) |->
                   IF k \in NeighborDirty(m) THEN NeighborRow(full[k]) ELSE t[k]]
    BY DEF NeighborFlushTable, full
  <2>2. \A k \in NeighborDirty(m) : k \in DOMAIN m
    BY DEF NeighborDirty
  <2> HIDE DEF rows
  <2>3. \A k \in DOMAIN rows : \/ k \in DOMAIN t /\ rows[k] = t[k]
                               \/ k \in DOMAIN m /\ rows[k] = NeighborRow(full[k])
    BY <2>1, <2>2
  <2>4. \A k \in DOMAIN rows : Averaged(rows[k])
    BY <1>3, <2>3, WeighedWritten DEF AllAveraged
  <2>5. QED
    BY <2>4 DEF AllAveraged, rows
<1>5. ASSUME NEW written PROVE AllWeighed(NeighborFlushMem(m, t, written))
  <2> DEFINE new == NeighborFlushMem(m, t, written)
  <2>1. new = [k \in DOMAIN m |-> IF k \in written THEN [full[k] EXCEPT !.dirty = FALSE]
                                                   ELSE full[k]]
    BY DEF NeighborFlushMem, full
  <2> HIDE DEF new
  <2>2. \A k \in DOMAIN m : Weighed([full[k] EXCEPT !.dirty = FALSE])
    BY <1>3, WeighedMarked
  <2>3. QED
    BY <1>3, <2>1, <2>2 DEF AllWeighed, new
<1>6. QED
  BY <1>1, <1>4, <1>5

LEMMA WeighedEvicted ==
  ASSUME NEW m, AllWeighed(m), NEW time
  PROVE  AllWeighed(NeighborEvict(m, time))
<1> DEFINE new == NeighborEvict(m, time)
<1>1. \A k \in DOMAIN new : k \in DOMAIN m /\ new[k] = [m[k] EXCEPT !.dirty = FALSE]
  BY DEF NeighborEvict, Keeping
<1> HIDE DEF new
<1>2. \A k \in DOMAIN m : Weighed([m[k] EXCEPT !.dirty = FALSE])
  BY WeighedMarked DEF AllWeighed
<1>3. QED
  BY <1>1, <1>2 DEF AllWeighed, new

AveragesInv ==
    /\ AllWeighed(mem["rollup_neighbor"])
    /\ AllAveraged(tables["rollup_neighbor"])
    /\ ppc = "flush" /\ Flushed("rollup_neighbor") => AllAveraged(tx["rollup_neighbor"])

LEMMA AveragesInit == ASSUME "rollup_neighbor" \in StageSet, Init PROVE AveragesInv
<1>1. /\ mem["rollup_neighbor"] = EmptyMap /\ tables["rollup_neighbor"] = EmptyMap
      /\ ppc = "down"
  BY DEF Init, EmptyMemory, EmptyTable
<1>2. QED
  BY <1>1 DEF AveragesInv, AllWeighed, AllAveraged, EmptyMap

LEMMA AveragesStep ==
  ASSUME Loop, Batch, SharesInv, [Next]_vars, "rollup_neighbor" \in StageSet, AveragesInv
  PROVE  AveragesInv'
<1> DEFINE s == "rollup_neighbor"
<1>1. PICK r : Reached(r)
  <2>1. "packet_observations" \in StageSet \cap ShareStages
    BY Listed DEF ShareStages
  <2>2. QED
    BY <2>1 DEF SharesInv, ShareInv
<1>2. /\ AllWeighed(mem[s]) /\ AllAveraged(tables[s])
      /\ ppc = "flush" /\ Flushed(s) => AllAveraged(tx[s])
  BY DEF AveragesInv
<1>3. CASE Quiet(s, r)
  BY <1>2, <1>3 DEF Quiet, AveragesInv
<1>4. CASE Takes(s, r)
  <2>1. log[pos] \in EventSet
    BY <1>4 DEF Takes, Loop
  <2>2. mem'[s] = mem[s] \/ mem'[s] = NeighborApply(mem[s], log[pos])
    BY <1>4 DEF Takes, Apply
  <2>3. AllWeighed(mem'[s])
    BY <1>2, <2>1, <2>2, WeighedApplied
  <2>4. QED
    BY <1>2, <1>4, <2>3 DEF Takes, AveragesInv
<1>5. CASE Writes(s, r)
  <2>1. tx[s] = tables[s] /\ tables' = tables
    BY <1>5 DEF Writes, InTurn
  <2>2. /\ mem'[s] = NeighborFlushMem(mem[s], tables[s], NeighborDirty(mem[s]))
        /\ tx'[s] = NeighborFlushTable(mem[s], tables[s])
    BY <1>5, <2>1 DEF Writes, FlushMem, FlushTable, Dirty
  <2>3. AllWeighed(mem'[s]) /\ AllAveraged(tx'[s])
    BY <1>2, <2>2, WeighedFlushed
  <2>4. QED
    BY <1>2, <2>1, <2>3 DEF AveragesInv
<1>6. CASE Breaks(s, r)
  <2>1. tx[s] = tables[s] /\ tables' = tables /\ ppc' = "idle"
    BY <1>6 DEF Breaks, InTurn
  <2>2. \/ \E keys : mem'[s] = NeighborRead(mem[s], tables[s], keys)
        \/ \E written : mem'[s] = NeighborFlushMem(mem[s], tables[s], written)
    BY <1>6, <2>1 DEF Breaks, LeftBehind, Interrupted, NeighborInterrupted, FlushMem, Dirty
  <2>3. AllWeighed(mem'[s])
    BY <1>2, <2>2, WeighedFlushed
  <2>4. QED
    BY <1>2, <2>1, <2>3 DEF AveragesInv
<1>7. CASE Commits(s, r)
  BY <1>2, <1>7 DEF Commits, AveragesInv
<1>8. CASE Settles(s, r)
  <2>1. mem'[s] = mem[s] \/ mem'[s] = NeighborEvict(mem[s], hwm)
    BY <1>8 DEF Settles, AfterNotify, Evict
  <2>2. AllWeighed(mem'[s])
    BY <1>2, <2>1, WeighedEvicted
  <2>3. QED
    BY <1>2, <1>8, <2>2 DEF Settles, AveragesInv
<1>9. CASE Restarts(s)
  <2>1. /\ mem'[s] = EmptyMap /\ (tables'[s] = tables[s] \/ tables'[s] = EmptyMap)
        /\ ppc' # "flush"
    BY <1>9 DEF Restarts, EmptyMemory, EmptyTable
  <2>2. AllWeighed(EmptyMap) /\ AllAveraged(EmptyMap)
    BY DEF AllWeighed, AllAveraged, EmptyMap
  <2>3. QED
    BY <1>2, <2>1, <2>2 DEF AveragesInv
<1>10. QED
  BY <1>1, <1>3, <1>4, <1>5, <1>6, <1>7, <1>8, <1>9, StageSteps

(* A row has an average when a packet of it has an RSSI.                    *)
LEMMA AverageTold ==
  ASSUME NeighborRows(log, Neighbors, dbCursor), AllAveraged(Neighbors),
         NEW k \in DOMAIN Neighbors
  PROVE  Neighbors[k].avg # None <=>
             \E i \in PacketsFrom(log, k, 1, dbCursor) : log[i].rssi # None
<1> DEFINE S == PacketsFrom(log, k, 1, dbCursor)
           row == Neighbors[k]
<1>1. Least(log, row.min, S, S) /\ Averages(row.packets, row.avg, row.min, row.max)
  BY DEF NeighborRows, NeighborTotals, AllAveraged, Averaged
<1> HIDE DEF S, row
<1>2. row.avg = None <=> row.min = None
  BY <1>1, NoneAssumption DEF Averages
<1>3. row.min = None <=> HeardIn(log, S) = {}
  BY <1>1 DEF Least, HeardIn
<1>4. QED
  BY <1>2, <1>3 DEF HeardIn, S, row

(* The edges of the topology.                                              *)
Links(since) ==
    {<<log[i].obs, log[i].src>> :
        i \in PacketsWith(LAMBDA e : /\ e.src # None /\ e.rssi # None
                                     /\ BucketOf(e.ts) >= since)}

LEMMA LinksFromRows ==
  ASSUME NeighborRows(log, Neighbors, dbCursor), AllAveraged(Neighbors), NEW since
  PROVE  {<<k[1], k[2]>> : k \in {l \in HeardSince(Neighbors, since) : Neighbors[l].avg # None}}
             = Links(since)
<1> DEFINE P(k) == PacketsFrom(log, k, 1, dbCursor)
           known == {l \in HeardSince(Neighbors, since) : Neighbors[l].avg # None}
           heard == PacketsWith(LAMBDA e : /\ e.src # None /\ e.rssi # None
                                           /\ BucketOf(e.ts) >= since)
<1>1. \A k : \A i \in P(k) : k \in DOMAIN Neighbors
  BY DEF NeighborRows
<1>2. \A k : \A i : i \in P(k) <=> /\ i \in Projected /\ IsPacket(log[i]) /\ log[i].src # None
                                   /\ k = NeighborKey(log[i])
  BY DEF PacketsFrom, Projected
<1>3. \A i : i \in heard <=> /\ i \in Projected /\ IsPacket(log[i]) /\ log[i].src # None
                             /\ log[i].rssi # None /\ BucketOf(log[i].ts) >= since
  BY DEF PacketsWith
<1>4. \A k \in DOMAIN Neighbors : Neighbors[k].avg # None <=>
                                      \E i \in P(k) : log[i].rssi # None
  BY AverageTold
<1>5. \A k : k \in known <=> /\ k \in DOMAIN Neighbors /\ k[3] >= since
                            /\ Neighbors[k].avg # None
  BY DEF HeardSince
<1> HIDE DEF P, known, heard
<1>6. ASSUME NEW k \in known
      PROVE  \E i \in heard : <<k[1], k[2]>> = <<log[i].obs, log[i].src>>
  <2>1. PICK i \in P(k) : log[i].rssi # None
    BY <1>4, <1>5
  <2>2. k[1] = log[i].obs /\ k[2] = log[i].src /\ k[3] = BucketOf(log[i].ts)
    BY <1>2, KeyParts
  <2>3. QED
    BY <1>2, <1>3, <1>5, <2>1, <2>2
<1>7. ASSUME NEW i \in heard
      PROVE  \E k \in known : <<k[1], k[2]>> = <<log[i].obs, log[i].src>>
  <2> DEFINE k == NeighborKey(log[i])
  <2>1. i \in P(k)
    BY <1>2, <1>3
  <2>2. k[1] = log[i].obs /\ k[2] = log[i].src /\ k[3] = BucketOf(log[i].ts)
    BY KeyParts
  <2> HIDE DEF k
  <2>3. k \in known
    BY <1>1, <1>3, <1>4, <1>5, <2>1, <2>2
  <2>4. QED
    BY <2>2, <2>3
<1>8. Links(since) = {<<log[i].obs, log[i].src>> : i \in heard}
  BY DEF Links, heard
<1>9. {<<k[1], k[2]>> : k \in known} = {<<log[i].obs, log[i].src>> : i \in heard}
  BY <1>6, <1>7
<1>10. QED
  BY <1>8, <1>9 DEF known

(* The topology has an edge for every observer and source between which a   *)
(* packet with an RSSI was logged, counts all packets on it and draws it    *)
(* between two places, unless the observer has never sent a status: as long *)
(* as every batch is committed and known to be.                             *)
THEOREM LinksShownHolds ==
  ASSUME {"observers", "rollup_neighbor"} \subseteq StageSet,
         Faults \cap {"fail", "lostAck"} = {}
  PROVE  Spec => []LinksShown
<1>1. Exact
  BY DEF Exact
<1>2. Loop /\ SharesInv /\ NeighborInv /\ AveragesInv => LinksShown
  <2> SUFFICES ASSUME Loop, ShareInv("observers"), NeighborInv, AveragesInv, NEW since \in Sinces
               PROVE  LET edges == TopoEdges(Neighbors, since)
                          observers == tables["observers"]
                          heard(o, s) == {i \in HeardFrom(s, since) : log[i].obs = o}
                          reported == {log[i].obs : i \in StatusesWith(LAMBDA e : TRUE)}
                      IN  /\ edges = {[from |-> <<"obs", l[1]>>, to |-> <<"src", l[2]>>,
                                       packets |-> Cardinality(heard(l[1], l[2]))] :
                                          l \in Links(since)}
                          /\ \A e \in edges :
                                /\ Placed(e.to, observers, Neighbors, since)
                                /\ Placed(e.from, observers, Neighbors, since)
                                     <=> e.from[2] \in reported
    BY DEF LinksShown, Links, SharesInv, ShareStages
  <2> DEFINE edges == TopoEdges(Neighbors, since)
             observers == tables["observers"]
             heard(o, s) == {i \in HeardFrom(s, since) : log[i].obs = o}
             reported == {log[i].obs : i \in StatusesWith(LAMBDA e : TRUE)}
             recent == HeardSince(Neighbors, since)
             known == {l \in recent : Neighbors[l].avg # None}
             links == Links(since)
             Between(e) == {k \in recent : <<k[1], k[2]>> = e}
             Drawn(e) == [from |-> <<"obs", e[1]>>, to |-> <<"src", e[2]>>,
                          packets |-> SumPackets(Neighbors, Between(e))]
             Edge(e) == [from |-> <<"obs", e[1]>>, to |-> <<"src", e[2]>>,
                         packets |-> Cardinality(heard(e[1], e[2]))]
  <2>1. log \in Seq(EventSet) /\ dbCursor \in Nat /\ dbCursor <= Len(log)
    BY DEF Loop
  <2>2. NeighborRows(log, Neighbors, dbCursor) /\ AllAveraged(Neighbors)
    BY DEF NeighborInv, AveragesInv, Neighbors
  <2>3. ObserverRows(log, observers, 1, dbCursor, dbCursor)
    BY DEF ShareInv, TableSays
  <2>4. {<<k[1], k[2]>> : k \in known} = links
    BY <2>2, LinksFromRows
  <2>5. edges = {Drawn(e) : e \in {<<k[1], k[2]>> : k \in known}}
    BY Zenon DEF TopoEdges
  <2>6. ASSUME NEW e \in links
        PROVE  /\ Drawn(e) = Edge(e) /\ e[2] \in Sources(Neighbors, since)
    <3>1. PICK i \in PacketsWith(LAMBDA x : /\ x.src # None /\ x.rssi # None
                                            /\ BucketOf(x.ts) >= since) :
               e = <<log[i].obs, log[i].src>>
      BY <2>6 DEF Links
    <3>2. e[2] # None /\ e = <<e[1], e[2]>>
      BY <3>1 DEF PacketsWith
    <3>3. Between(e) = RowsBetween(e[1], e[2], since)
      <4>1. \A k : <<k[1], k[2]>> = e <=> k[1] = e[1] /\ k[2] = e[2]
        BY <3>2
      <4>2. QED
        BY <4>1 DEF RowsBetween, RowsFrom
    <3>4. SumPackets(Neighbors, Between(e)) = Cardinality(heard(e[1], e[2]))
      BY <1>1, <2>2, <3>2, <3>3, SourceCounted, Zenon
    <3>5. Drawn(e) = Edge(e)
      BY <3>4, Zenon
    <3>6. PICK k \in known : e = <<k[1], k[2]>>
      BY <2>4, <2>6
    <3>7. e[2] \in Sources(Neighbors, since)
      BY <3>6 DEF Sources
    <3>8. QED
      BY <3>5, <3>7
  <2>7. edges = {Edge(e) : e \in links}
    <3>1. edges = {Drawn(e) : e \in links}
      BY <2>4, <2>5
    <3> HIDE DEF Drawn, Edge, edges, links
    <3>2. QED
      BY <2>6, <3>1
  <2>8. DOMAIN observers = reported
    <3>1. \A o : o \in reported <=> StatusesOf(log, o, 1, dbCursor) # {}
      BY DEF StatusesWith, Projected, StatusesOf
    <3> HIDE DEF reported
    <3>2. QED
      BY <2>3, <3>1 DEF ObserverRows
  <2>9. ASSUME NEW x \in edges
        PROVE  /\ Placed(x.to, observers, Neighbors, since)
               /\ Placed(x.from, observers, Neighbors, since) <=> x.from[2] \in reported
    <3>1. PICK e \in links : x = Edge(e)
      BY <2>7, <2>9
    <3>2. x.to = <<"src", e[2]>> /\ x.from = <<"obs", e[1]>>
      BY <3>1
    <3>3. e[2] \in Sources(Neighbors, since)
      BY <2>6
    <3> HIDE DEF reported, observers
    <3>4. Placed(x.to, observers, Neighbors, since)
      BY <3>2, <3>3 DEF Placed, TopoNodes
    <3>5. Placed(x.from, observers, Neighbors, since) <=> e[1] \in DOMAIN observers
      BY <3>2 DEF Placed, TopoNodes
    <3>6. QED
      BY <2>8, <3>2, <3>4, <3>5
  <2>10. QED
    BY <2>7, <2>9
<1>3. Init => NeighborInv /\ AveragesInv
  BY NeighborInit, AveragesInit
<1>4. ASSUME Loop /\ Batch /\ SharesInv, NeighborInv /\ AveragesInv, [Next]_vars
      PROVE  (NeighborInv /\ AveragesInv)'
  BY <1>1, <1>4, NeighborStep, AveragesStep
<1>5. QED
  BY <1>2, <1>3, <1>4, SharesHold, PTL DEF Spec

-----------------------------------------------------------------------------
(* The notifications of anomalies.  A flush runs its minutes one after the  *)
(* other, each on what the ones before it left.                             *)
Inserted(acc, rollup, neighbors, t) ==
    [rows   |-> acc.rows \cup RaisedAt(acc.rows, rollup, neighbors, t),
     raised |-> acc.raised \cup RaisedAt(acc.rows, rollup, neighbors, t)]

After(g, s, rows, rollup, neighbors) ==
    IF s = {} THEN [rows |-> rows, raised |-> {}]
    ELSE Inserted(g[s \ {Max(s)}], rollup, neighbors, Max(s))

RunsOn(D, rows, rollup, neighbors, g) ==
    g = [s \in D |-> After(g, s, rows, rollup, neighbors)]

Upto(M, n) == {s \in SUBSET M : Cardinality(s) <= n}

LEMMA RunIsRecursion ==
  ASSUME NEW rows, NEW rollup, NEW neighbors, NEW M,
         NEW h, RunsOn(SUBSET M, rows, rollup, neighbors, h)
  PROVE  \E g : /\ RunsOn(SUBSET M, rows, rollup, neighbors, g)
                /\ RunMinutes(rows, rollup, neighbors, M) = g[M]
<1> DEFINE g == CHOOSE f : RunsOn(SUBSET M, rows, rollup, neighbors, f)
<1>1. RunsOn(SUBSET M, rows, rollup, neighbors, g)
  BY Zenon
<1>2. RunMinutes(rows, rollup, neighbors, M) = g[M]
  BY Zenon DEF RunMinutes, MapThenFoldSet, RunsOn, After, Inserted
<1>3. QED
  BY <1>1, <1>2

LEMMA LatestIn ==
  ASSUME NEW b \in Nat, NEW s \in SUBSET (0..b), s # {}
  PROVE  Max(s) \in s /\ \A y \in s : Max(s) >= y
<1> DEFINE D == {b - t : t \in s}
<1>1. D \in SUBSET Nat /\ D # {}
  <2>1. \A t \in s : b - t \in Nat
    OBVIOUS
  <2>2. QED
    BY <2>1
<1>2. PICK m \in D : \A k \in D : ~(k < m)
  BY <1>1, LeastDifference
<1>3. PICK x \in s : m = b - x
  BY <1>2
<1>4. \A y \in s : x >= y
  BY <1>2, <1>3
<1>5. QED
  BY <1>4 DEF Max

(* There is such a run: what it makes of the smaller sets of minutes gives  *)
(* what it makes of the next larger ones.                                   *)
LEMMA RunExtends ==
  ASSUME NEW rows, NEW rollup, NEW neighbors, NEW M, IsFiniteSet(M),
         \A s \in SUBSET M : s # {} => Max(s) \in s,
         NEW n \in Nat, NEW f, RunsOn(Upto(M, n), rows, rollup, neighbors, f)
  PROVE  \E g : RunsOn(Upto(M, n + 1), rows, rollup, neighbors, g)
<1> DEFINE g == [s \in Upto(M, n + 1) |-> After(f, s, rows, rollup, neighbors)]
<1>1. \A s \in SUBSET M : IsFiniteSet(s) /\ Cardinality(s) \in Nat
  BY FS_Subset, FS_CardinalityType
<1>2. ASSUME NEW s \in Upto(M, n + 1), s # {} PROVE s \ {Max(s)} \in Upto(M, n)
  <2>1. s \in SUBSET M /\ Cardinality(s) <= n + 1 /\ Max(s) \in s
    BY <1>2 DEF Upto
  <2> DEFINE x == Max(s)
  <2> HIDE DEF x
  <2>2. Cardinality(s \ {x}) = Cardinality(s) - 1
    BY <1>1, <2>1, FS_RemoveElement DEF x
  <2>3. s \ {x} \in SUBSET M /\ Cardinality(s \ {x}) <= n
    BY <1>1, <2>1, <2>2
  <2>4. QED
    BY <2>3 DEF Upto, x
<1>3. ASSUME NEW s \in Upto(M, n) PROVE g[s] = f[s]
  <2>1. s \in Upto(M, n + 1)
    BY <1>1 DEF Upto
  <2>2. f[s] = After(f, s, rows, rollup, neighbors)
    BY DEF RunsOn
  <2>3. QED
    BY <2>1, <2>2
<1>4. ASSUME NEW s \in Upto(M, n + 1)
      PROVE  After(g, s, rows, rollup, neighbors) = After(f, s, rows, rollup, neighbors)
  <2>1. CASE s = {}
    BY <2>1 DEF After
  <2>2. CASE s # {}
    <3>1. g[s \ {Max(s)}] = f[s \ {Max(s)}]
      BY <1>2, <1>3, <2>2
    <3> HIDE DEF g
    <3>2. QED
      BY <2>2, <3>1 DEF After
  <2>3. QED
    BY <2>1, <2>2
<1>5. g = [s \in Upto(M, n + 1) |-> After(g, s, rows, rollup, neighbors)]
  BY <1>4, Zenon
<1>6. QED
  BY <1>5 DEF RunsOn

LEMMA RunExists ==
  ASSUME NEW rows, NEW rollup, NEW neighbors, NEW M, IsFiniteSet(M),
         \A s \in SUBSET M : s # {} => Max(s) \in s
  PROVE  \E g : RunsOn(SUBSET M, rows, rollup, neighbors, g)
<1> DEFINE Good(n) == \E g : RunsOn(Upto(M, n), rows, rollup, neighbors, g)
           bad == {n \in Nat : ~Good(n)}
<1>1. \A s \in SUBSET M : IsFiniteSet(s) /\ Cardinality(s) \in Nat
  BY FS_Subset, FS_CardinalityType
<1>2. Good(0)
  <2> DEFINE g == [s \in Upto(M, 0) |-> [rows |-> rows, raised |-> {}]]
  <2>1. \A s \in Upto(M, 0) : s = {}
    BY <1>1, FS_EmptySet DEF Upto
  <2>2. \A s \in Upto(M, 0) : After(g, s, rows, rollup, neighbors) = [rows |-> rows, raised |-> {}]
    BY <2>1 DEF After
  <2>3. g = [s \in Upto(M, 0) |-> After(g, s, rows, rollup, neighbors)]
    BY <2>2, Zenon
  <2>4. QED
    BY <2>3 DEF RunsOn
<1>3. ASSUME NEW n \in Nat, Good(n) PROVE Good(n + 1)
  BY <1>3, RunExtends
<1>4. ASSUME bad # {} PROVE FALSE
  <2>1. PICK m \in bad : \A k \in bad : ~(k < m)
    BY <1>4, LeastDifference
  <2>2. m \in Nat /\ ~Good(m) /\ m # 0
    BY <1>2
  <2> HIDE DEF Good
  <2>3. m - 1 \in Nat /\ m - 1 \notin bad
    BY <2>1, <2>2
  <2>4. Good(m - 1)
    BY <2>3
  <2>5. Good((m - 1) + 1) /\ (m - 1) + 1 = m
    BY <1>3, <2>2, <2>3, <2>4
  <2>6. QED
    BY <2>2, <2>5
<1>5. Good(Cardinality(M))
  BY <1>1, <1>4
<1>6. Upto(M, Cardinality(M)) = SUBSET M
  <2>1. \A s \in SUBSET M : Cardinality(s) <= Cardinality(M)
    BY FS_Subset
  <2>2. QED
    BY <2>1 DEF Upto
<1>7. QED
  BY <1>5, <1>6

(* What a run makes of the rows it finds: it keeps them, what it announces  *)
(* it has inserted, it inserts nothing but findings of its minutes, each of *)
(* these has a row then or within the window before, and no row comes within *)
(* the window of an earlier one of the same kind and subject.               *)
SameAlarm(r, f) == r.kind = f.kind /\ r.subject = f.subject
AlarmRows(rows) == \A r \in rows : r.ts \in Nat
Found(s, rows, rollup, neighbors, run) ==
    /\ AlarmRows(run.rows) /\ rows \subseteq run.rows /\ run.raised \subseteq run.rows
    /\ \A r \in run.rows \ rows :
          \E t \in s : \E f \in FindingsAt(rollup, neighbors, t) : r = RowAt(f, t)
    /\ \A t \in s : \A f \in FindingsAt(rollup, neighbors, t) :
          \E r \in run.rows : SameAlarm(r, f) /\ t - DedupWindow <= r.ts /\ r.ts <= t
    /\ \A r \in run.rows \ rows : \A q \in run.rows :
          SameAlarm(q, r) /\ q.ts < r.ts => q.ts < r.ts - DedupWindow

(* The minutes come in their order, so that the last of them sees the rows  *)
(* of all the others.                                                       *)
LEMMA FoundNext ==
  ASSUME NEW rows, NEW rollup, NEW neighbors, NEW s \in SUBSET Nat, NEW x \in Nat,
         \A t \in s : t < x, NEW acc, Found(s, rows, rollup, neighbors, acc)
  PROVE  Found(s \cup {x}, rows, rollup, neighbors, Inserted(acc, rollup, neighbors, x))
<1> DEFINE new == RaisedAt(acc.rows, rollup, neighbors, x)
           run == Inserted(acc, rollup, neighbors, x)
           F(t) == FindingsAt(rollup, neighbors, t)
<1>1. run.rows = acc.rows \cup new /\ run.raised = acc.raised \cup new
  BY DEF Inserted
<1>2. \A r \in new : \E f \in F(x) : r = RowAt(f, x) /\ ~Covered(acc.rows, f, x)
  BY DEF RaisedAt
<1>3. \A f \in F(x) : ~Covered(acc.rows, f, x) => RowAt(f, x) \in new
  BY DEF RaisedAt
<1>4. \A f, t : RowAt(f, t).ts = t /\ SameAlarm(RowAt(f, t), f)
  BY DEF RowAt, SameAlarm
<1>5. DedupWindow \in Nat
  BY AnomaliesAssumption
<1> HIDE DEF new, run, F
<1>6. /\ AlarmRows(acc.rows) /\ rows \subseteq acc.rows /\ acc.raised \subseteq acc.rows
      /\ \A r \in acc.rows \ rows : \E t \in s : \E f \in F(t) : r = RowAt(f, t)
      /\ \A t \in s : \A f \in F(t) :
            \E r \in acc.rows : SameAlarm(r, f) /\ t - DedupWindow <= r.ts /\ r.ts <= t
      /\ \A r \in acc.rows \ rows : \A q \in acc.rows :
            SameAlarm(q, r) /\ q.ts < r.ts => q.ts < r.ts - DedupWindow
  BY DEF Found, F
<1>7. AlarmRows(run.rows) /\ rows \subseteq run.rows /\ run.raised \subseteq run.rows
  <2>1. AlarmRows(run.rows)
    BY <1>1, <1>2, <1>4, <1>6 DEF AlarmRows
  <2>2. QED
    BY <1>1, <1>6, <2>1
<1>8. ASSUME NEW r \in run.rows \ rows
      PROVE  \E t \in s \cup {x} : \E f \in F(t) : r = RowAt(f, t)
  <2>1. CASE r \in acc.rows
    BY <1>6, <1>8, <2>1
  <2>2. CASE r \in new
    BY <1>2, <2>2
  <2>3. QED
    BY <1>1, <1>8, <2>1, <2>2
<1>9. ASSUME NEW t \in s \cup {x}, NEW f \in F(t)
      PROVE  \E r \in run.rows : SameAlarm(r, f) /\ t - DedupWindow <= r.ts /\ r.ts <= t
  <2>1. CASE t \in s
    BY <1>1, <1>6, <2>1
  <2>2. CASE t = x /\ Covered(acc.rows, f, x)
    <3>1. PICK r \in acc.rows : /\ SameAlarm(r, f)
                                /\ x - DedupWindow <= r.ts /\ r.ts < x
      BY <2>2 DEF Covered, SameAlarm
    <3>2. r.ts <= x
      BY <1>6, <3>1 DEF AlarmRows
    <3>3. QED
      BY <1>1, <2>2, <3>1, <3>2
  <2>3. CASE t = x /\ ~Covered(acc.rows, f, x)
    <3>1. RowAt(f, x) \in run.rows
      BY <1>1, <1>3, <1>9, <2>3
    <3>2. x - DedupWindow <= x /\ x <= x
      BY <1>5
    <3>3. QED
      BY <1>4, <2>3, <3>1, <3>2
  <2>4. QED
    BY <2>1, <2>2, <2>3
<1>10. ASSUME NEW r \in run.rows \ rows, NEW q \in run.rows, SameAlarm(q, r), q.ts < r.ts
       PROVE  q.ts < r.ts - DedupWindow
  <2>1. CASE r \in acc.rows
    <3>1. PICK t \in s : \E f \in F(t) : r = RowAt(f, t)
      BY <1>6, <1>10, <2>1
    <3>2. r.ts = t /\ t < x /\ t \in Nat
      BY <1>4, <3>1
    <3>3. ASSUME q \in new PROVE FALSE
      <4>1. q.ts = x
        BY <1>2, <1>4, <3>3
      <4>2. QED
        BY <1>10, <3>2, <4>1
    <3>4. q \in acc.rows
      BY <1>1, <1>10, <3>3
    <3>5. QED
      BY <1>6, <1>10, <2>1, <3>4
  <2>2. CASE r \in new
    <3>1. PICK f \in F(x) : r = RowAt(f, x) /\ ~Covered(acc.rows, f, x)
      BY <1>2, <2>2
    <3>2. r.ts = x /\ SameAlarm(q, f)
      BY <1>4, <1>10, <3>1 DEF SameAlarm
    <3>3. ASSUME q \in new PROVE FALSE
      <4>1. q.ts = x
        BY <1>2, <1>4, <3>3
      <4>2. QED
        BY <1>10, <3>2, <4>1
    <3>4. q \in acc.rows
      BY <1>1, <1>10, <3>3
    <3>5. ~(x - DedupWindow <= q.ts)
      BY <1>10, <3>1, <3>2, <3>4 DEF Covered, SameAlarm
    <3>6. q.ts \in Nat
      BY <1>6, <3>4 DEF AlarmRows
    <3>7. QED
      BY <1>5, <3>2, <3>5, <3>6
  <2>3. QED
    BY <1>1, <1>10, <2>1, <2>2
<1>11. QED
  BY <1>7, <1>8, <1>9, <1>10 DEF Found, F, run

LEMMA RunFinds ==
  ASSUME NEW rows, AlarmRows(rows), NEW rollup, NEW neighbors,
         NEW b \in Nat, NEW M \in SUBSET (0..b)
  PROVE  Found(M, rows, rollup, neighbors, RunMinutes(rows, rollup, neighbors, M))
<1>1. IsFiniteSet(M) /\ \A s \in SUBSET M : s # {} => Max(s) \in s /\ \A y \in s : Max(s) >= y
  <2>1. IsFiniteSet(0..b)
    BY FS_Interval
  <2>2. IsFiniteSet(M)
    BY <2>1, FS_Subset
  <2>3. ASSUME NEW s \in SUBSET M, s # {} PROVE Max(s) \in s /\ \A y \in s : Max(s) >= y
    <3>1. s \in SUBSET (0..b)
      OBVIOUS
    <3>2. QED
      BY <2>3, <3>1, LatestIn, Zenon
  <2>4. QED
    BY <2>2, <2>3
<1>2. PICK g : /\ RunsOn(SUBSET M, rows, rollup, neighbors, g)
               /\ RunMinutes(rows, rollup, neighbors, M) = g[M]
  BY <1>1, RunExists, RunIsRecursion
<1> DEFINE bad == {s \in SUBSET M : ~Found(s, rows, rollup, neighbors, g[s])}
           D == {Cardinality(s) : s \in bad}
<1>3. \A s \in SUBSET M : IsFiniteSet(s) /\ Cardinality(s) \in Nat
  BY <1>1, FS_Subset, FS_CardinalityType
<1>4. \A s \in SUBSET M : g[s] = After(g, s, rows, rollup, neighbors)
  BY <1>2 DEF RunsOn
<1>5. ASSUME bad # {} PROVE FALSE
  <2>1. D \in SUBSET Nat /\ D # {}
    BY <1>3, <1>5
  <2>2. PICK m \in D : \A k \in D : ~(k < m)
    BY <2>1, LeastDifference
  <2>3. PICK s \in bad : Cardinality(s) = m
    BY <2>2
  <2>4. /\ s \in SUBSET M /\ ~Found(s, rows, rollup, neighbors, g[s])
        /\ \A t \in bad : ~(Cardinality(t) < Cardinality(s))
    BY <2>2, <2>3
  <2> HIDE DEF bad, D
  <2> DEFINE x == Max(s)
             t == s \ {x}
             acc == g[t]
  <2>5. s # {}
    <3>1. ASSUME s = {} PROVE Found(s, rows, rollup, neighbors, g[s])
      <4>1. g[s] = [rows |-> rows, raised |-> {}]
        BY <1>4, <2>4, <3>1 DEF After
      <4>2. QED
        BY <3>1, <4>1 DEF Found
    <3>2. QED
      BY <2>4, <3>1
  <2>6. x \in s /\ t \in SUBSET M /\ s = t \cup {x}
    BY <1>1, <2>4, <2>5
  <2>7. g[s] = Inserted(acc, rollup, neighbors, x)
    BY <1>4, <2>4, <2>5 DEF After
  <2>8. s \in SUBSET Nat /\ t \in SUBSET Nat /\ x \in Nat
    <3>1. M \in SUBSET Nat
      OBVIOUS
    <3>2. s \in SUBSET Nat
      BY <2>4, <3>1
    <3> HIDE DEF x
    <3>3. QED
      BY <2>6, <3>2
  <2>9. \A u \in t : u < x
    <3>1. \A u \in s : x >= u
      BY <1>1, <2>4, <2>5, Zenon
    <3>2. QED
      BY <2>8, <3>1
  <2> HIDE DEF x
  <2>10. Cardinality(t) = Cardinality(s) - 1
    BY <1>3, <2>4, <2>6, FS_RemoveElement
  <2>11. t \notin bad
    BY <1>3, <2>4, <2>6, <2>10
  <2>12. Found(t, rows, rollup, neighbors, acc)
    BY <2>6, <2>11 DEF bad
  <2> HIDE DEF t, acc
  <2>13. Found(t \cup {x}, rows, rollup, neighbors, Inserted(acc, rollup, neighbors, x))
    BY <2>8, <2>9, <2>12, FoundNext, Zenon
  <2>14. QED
    BY <2>4, <2>6, <2>7, <2>13
<1>6. Found(M, rows, rollup, neighbors, g[M])
  BY <1>5
<1>7. QED
  BY <1>2, <1>6

(* The memory and the rows of the stage have their types, whatever fails.   *)
AlarmMemory(m) ==
    /\ m = [cursor |-> m.cursor, hwm |-> m.hwm, emitted |-> m.emitted]
    /\ m.cursor \in Nat /\ m.hwm \in Nat

AlarmsTyped ==
    /\ AlarmMemory(mem["anomalies"]) /\ AlarmRows(tables["anomalies"])
    /\ ppc = "flush" /\ Flushed("anomalies") => AlarmRows(tx["anomalies"])

LEMMA AlarmsEmpty ==
  ASSUME NEW t
  PROVE  /\ AlarmMemory(EmptyMemory("anomalies")) /\ AlarmRows(EmptyTable("anomalies"))
         /\ EmptyMemory("anomalies").emitted \subseteq t
  BY DEF EmptyMemory, EmptyTable, AnomaliesEmpty, AlarmMemory, AlarmRows, ZeroTime

LEMMA AlarmsFlushed ==
  ASSUME NEW m, AlarmMemory(m), NEW rows, AlarmRows(rows), NEW rollup, NEW neighbors
  PROVE  /\ AlarmMemory(AnomaliesFlushMem(m, rows, rollup, neighbors))
         /\ AlarmRows(AnomaliesFlushTable(m, rows, rollup, neighbors))
         /\ m.emitted \subseteq rows =>
               AnomaliesFlushMem(m, rows, rollup, neighbors).emitted
                 \subseteq AnomaliesFlushTable(m, rows, rollup, neighbors)
         /\ Found(Minutes(m), rows, rollup, neighbors,
                  RunMinutes(rows, rollup, neighbors, Minutes(m)))
<1> DEFINE b == BucketOf(m.hwm)
           new == AnomaliesFlushMem(m, rows, rollup, neighbors)
           run == RunMinutes(rows, rollup, neighbors, Minutes(m))
<1>1. b \in Nat
  BY BucketAssumption DEF BucketOf, AlarmMemory
<1>2. Minutes(m) \in SUBSET (0..b)
  BY <1>1 DEF Minutes, AlarmMemory
<1> HIDE DEF b
<1>3. Found(Minutes(m), rows, rollup, neighbors, run)
  BY <1>1, <1>2, RunFinds, Zenon
<1>4. AlarmRows(run.rows) /\ rows \subseteq run.rows /\ run.raised \subseteq run.rows
  BY <1>3, Zenon DEF Found
<1>5. AnomaliesFlushTable(m, rows, rollup, neighbors) = run.rows
  BY DEF AnomaliesFlushTable
<1>6. new = IF m.hwm = ZeroTime THEN m
            ELSE [m EXCEPT !.cursor = b, !.emitted = @ \cup run.raised]
  BY DEF AnomaliesFlushMem, b
<1> HIDE DEF run, new
<1>7. AlarmMemory(new) /\ (m.emitted \subseteq rows => new.emitted \subseteq run.rows)
  <2>1. CASE m.hwm = ZeroTime
    BY <1>4, <1>6, <2>1
  <2>2. CASE m.hwm # ZeroTime
    <3>1. new = [cursor |-> b, hwm |-> m.hwm, emitted |-> m.emitted \cup run.raised]
      BY <1>6, <2>2 DEF AlarmMemory
    <3>2. QED
      BY <1>1, <1>4, <3>1 DEF AlarmMemory
  <2>3. QED
    BY <2>1, <2>2
<1>8. QED
  BY <1>3, <1>4, <1>5, <1>7 DEF new, run

LEMMA AlarmsApplied ==
  ASSUME NEW m, AlarmMemory(m), NEW e \in EventSet
  PROVE  /\ AlarmMemory(AnomaliesApply(m, e))
         /\ AnomaliesApply(m, e).emitted = m.emitted
<1>1. e.ts \in Nat
  BY EventsAssumption
<1>2. AnomaliesApply(m, e) = [cursor |-> m.cursor, hwm |-> Later(m.hwm, e.ts),
                              emitted |-> m.emitted]
  BY DEF AnomaliesApply, AlarmMemory
<1>3. Later(m.hwm, e.ts) \in Nat
  BY <1>1 DEF Later, AlarmMemory
<1>4. QED
  BY <1>2, <1>3 DEF AlarmMemory

LEMMA AlarmsNotified ==
  ASSUME NEW m, AlarmMemory(m), NEW t, NEW time
  PROVE  /\ AlarmMemory(AfterNotify("anomalies", m))
         /\ AfterNotify("anomalies", m).emitted \subseteq t
         /\ Evict("anomalies", AfterNotify("anomalies", m), time) = AfterNotify("anomalies", m)
<1>1. AfterNotify("anomalies", m) = [cursor |-> m.cursor, hwm |-> m.hwm, emitted |-> {}]
  BY DEF AfterNotify, AnomaliesNotify, AlarmMemory
<1>2. Evict("anomalies", AfterNotify("anomalies", m), time) = AfterNotify("anomalies", m)
  BY DEF Evict, AnomaliesEvict
<1>3. QED
  BY <1>1, <1>2 DEF AlarmMemory

LEMMA AlarmsTypedInit == ASSUME "anomalies" \in StageSet, Init PROVE AlarmsTyped
<1>1. /\ mem["anomalies"] = EmptyMemory("anomalies")
      /\ tables["anomalies"] = EmptyTable("anomalies") /\ ppc = "down"
  BY DEF Init
<1>2. QED
  BY <1>1, AlarmsEmpty DEF AlarmsTyped

LEMMA AlarmsTypedStep ==
  ASSUME Loop, Batch, SharesInv, [Next]_vars, "anomalies" \in StageSet, AlarmsTyped
  PROVE  AlarmsTyped'
<1> DEFINE s == "anomalies"
<1>1. PICK r : Reached(r)
  <2>1. "packet_observations" \in StageSet \cap ShareStages
    BY Listed DEF ShareStages
  <2>2. QED
    BY <2>1 DEF SharesInv, ShareInv
<1>2. /\ AlarmMemory(mem[s]) /\ AlarmRows(tables[s])
      /\ ppc = "flush" /\ Flushed(s) => AlarmRows(tx[s])
  BY DEF AlarmsTyped
<1>3. CASE Quiet(s, r)
  BY <1>2, <1>3 DEF Quiet, AlarmsTyped
<1>4. CASE Takes(s, r)
  <2>1. log[pos] \in EventSet
    BY <1>4 DEF Takes, Loop
  <2>2. mem'[s] = mem[s] \/ mem'[s] = AnomaliesApply(mem[s], log[pos])
    BY <1>4 DEF Takes, Apply
  <2>3. AlarmMemory(mem'[s])
    BY <1>2, <2>1, <2>2, AlarmsApplied
  <2>4. QED
    BY <1>2, <1>4, <2>3 DEF Takes, AlarmsTyped
<1>5. CASE Writes(s, r)
  <2>1. tx[s] = tables[s] /\ tables' = tables
    BY <1>5 DEF Writes, InTurn
  <2>2. PICK rollup, neighbors :
          /\ mem'[s] = AnomaliesFlushMem(mem[s], tables[s], rollup, neighbors)
          /\ tx'[s] = AnomaliesFlushTable(mem[s], tables[s], rollup, neighbors)
    BY <1>5, <2>1 DEF Writes, FlushMem, FlushTable
  <2>3. AlarmMemory(mem'[s]) /\ AlarmRows(tx'[s])
    BY <1>2, <2>2, AlarmsFlushed
  <2>4. QED
    BY <1>2, <2>1, <2>3 DEF AlarmsTyped
<1>6. CASE Breaks(s, r)
  <2>1. tables' = tables /\ ppc' = "idle"
    BY <1>6 DEF Breaks
  <2>2. \/ \E list : mem'[s] = [mem[s] EXCEPT !.emitted = list]
        \/ \E rows, rollup, neighbors :
              mem'[s] = AnomaliesFlushMem(mem[s], rows, rollup, neighbors) /\ rows = tables[s]
    <3>1. mem'[s] \in LeftBehind(s, mem[s]) /\ tx[s] = tables[s]
      BY <1>6 DEF Breaks, InTurn
    <3>2. CASE mem'[s] \in Interrupted(s, mem[s])
      <4>1. mem'[s] \in AnomaliesInterrupted(mem[s], tx[s], tx["rollup_observer"],
                                             tx["rollup_neighbor"])
        BY <3>2 DEF Interrupted
      <4> DEFINE m == mem[s]
                 before(t) == RunMinutes(tx[s], tx["rollup_observer"], tx["rollup_neighbor"],
                                         {u \in Minutes(m) : u < t})
                 Left(t) == {[m EXCEPT !.emitted = @ \cup before(t).raised \cup some] :
                                some \in SUBSET RaisedAt(before(t).rows, tx["rollup_observer"],
                                                        tx["rollup_neighbor"], t)}
      <4>2. mem'[s] \in UNION {Left(t) : t \in Minutes(m)}
        BY <4>1 DEF AnomaliesInterrupted
      <4>3. PICK t \in Minutes(m) : mem'[s] \in Left(t)
        BY <4>2, Zenon
      <4>4. PICK some : mem'[s] = [m EXCEPT !.emitted = @ \cup before(t).raised \cup some]
        BY <4>3, Zenon
      <4>5. QED
        BY <4>4, Zenon
    <3>3. CASE \E written : mem'[s] = FlushMem(s, mem[s], written)
      BY <3>1, <3>3 DEF FlushMem
    <3>4. QED
      BY <3>1, <3>2, <3>3 DEF LeftBehind
  <2>3. CASE \E list : mem'[s] = [mem[s] EXCEPT !.emitted = list]
    <3>1. PICK list : mem'[s] = [mem[s] EXCEPT !.emitted = list]
      BY <2>3
    <3>2. mem'[s] = [cursor |-> mem[s].cursor, hwm |-> mem[s].hwm, emitted |-> list]
      BY <1>2, <3>1 DEF AlarmMemory
    <3>3. AlarmMemory(mem'[s])
      BY <1>2, <3>2 DEF AlarmMemory
    <3>4. QED
      BY <1>2, <2>1, <3>3 DEF AlarmsTyped
  <2>4. CASE \E rows, rollup, neighbors :
                mem'[s] = AnomaliesFlushMem(mem[s], rows, rollup, neighbors) /\ rows = tables[s]
    <3>1. AlarmMemory(mem'[s])
      BY <1>2, <2>4, AlarmsFlushed
    <3>2. QED
      BY <1>2, <2>1, <3>1 DEF AlarmsTyped
  <2>5. QED
    BY <2>2, <2>3, <2>4
<1>7. CASE Commits(s, r)
  BY <1>2, <1>7 DEF Commits, AlarmsTyped
<1>8. CASE Settles(s, r)
  <2>1. mem'[s] = AfterNotify(s, mem[s]) \/ mem'[s] = Evict(s, AfterNotify(s, mem[s]), hwm)
    BY <1>8 DEF Settles
  <2>2. AlarmMemory(mem'[s])
    BY <1>2, <2>1, AlarmsNotified
  <2>3. QED
    BY <1>2, <1>8, <2>2 DEF Settles, AlarmsTyped
<1>9. CASE Restarts(s)
  <2>1. /\ mem'[s] = EmptyMemory(s) /\ (tables'[s] = tables[s] \/ tables'[s] = EmptyTable(s))
        /\ ppc' # "flush"
    BY <1>9 DEF Restarts
  <2>2. QED
    BY <1>2, <2>1, AlarmsEmpty DEF AlarmsTyped
<1>10. QED
  BY <1>1, <1>3, <1>4, <1>5, <1>6, <1>7, <1>8, <1>9, StageSteps

LEMMA AlarmsTypedHold == ASSUME "anomalies" \in StageSet PROVE Spec => []AlarmsTyped
<1>1. Init => AlarmsTyped
  BY AlarmsTypedInit
<1>2. ASSUME Loop /\ Batch /\ SharesInv, AlarmsTyped, [Next]_vars PROVE AlarmsTyped'
  BY <1>2, AlarmsTypedStep
<1>3. QED
  BY <1>1, <1>2, SharesHold, PTL DEF Spec

(* The flush of the stage, which is the step that takes its turn.           *)
LEMMA AlarmsWritten ==
  ASSUME Batch, AlarmsTyped, "anomalies" \in StageSet, FlushStage, Stages[turn] = "anomalies"
  PROVE  \E m, rows, rollup, neighbors :
            /\ m = mem["anomalies"] /\ rows = tx["anomalies"]
            /\ rollup = tx["rollup_observer"] /\ neighbors = tx["rollup_neighbor"]
            /\ AlarmMemory(m) /\ AlarmRows(rows)
            /\ mem'["anomalies"] = AnomaliesFlushMem(m, rows, rollup, neighbors)
            /\ tx'["anomalies"] = AnomaliesFlushTable(m, rows, rollup, neighbors)
<1> DEFINE s == "anomalies"
<1>1. /\ ppc = "flush" /\ turn <= Len(Stages)
      /\ mem' = [mem EXCEPT ![s] = FlushMem(s, @, Dirty(s, @))]
      /\ tx' = [tx EXCEPT ![s] = FlushTable(s, mem[s])]
  BY DEF FlushStage
<1>2. DOMAIN mem = StageSet /\ DOMAIN tx = StageSet /\ tx[s] = tables[s]
  BY <1>1, TurnIsStage DEF Batch
<1>3. /\ mem'[s] = FlushMem(s, mem[s], Dirty(s, mem[s]))
      /\ tx'[s] = FlushTable(s, mem[s])
  BY <1>1, <1>2
<1>4. /\ mem'[s] = AnomaliesFlushMem(mem[s], tx[s], tx["rollup_observer"], tx["rollup_neighbor"])
      /\ tx'[s] = AnomaliesFlushTable(mem[s], tx[s], tx["rollup_observer"], tx["rollup_neighbor"])
  BY <1>3 DEF FlushMem, FlushTable
<1>5. AlarmMemory(mem[s]) /\ AlarmRows(tx[s])
  BY <1>2 DEF AlarmsTyped
<1>6. QED
  BY <1>4, <1>5

(* A flush of the anomalies stage keeps the rows there are and inserts, for  *)
(* the minutes it crosses, findings of the detectors on the rollups that the *)
(* transaction has, no other row; each finding has a row of its kind and     *)
(* subject then or within the window before; and no row that it inserts      *)
(* repeats an earlier one within the window.  That holds for every log, every *)
(* fault and any number of minutes at once.                                  *)
AlarmsFromRollups ==
    [][FlushesAnomalies =>
         Found(Minutes(mem["anomalies"]), tx["anomalies"],
               tx["rollup_observer"], tx["rollup_neighbor"],
               [rows |-> tx'["anomalies"], raised |-> {}])]_vars

THEOREM AlarmsFromRollupsHolds ==
  ASSUME "anomalies" \in StageSet PROVE Spec => AlarmsFromRollups
<1> DEFINE Flushes == FlushesAnomalies =>
             Found(Minutes(mem["anomalies"]), tx["anomalies"],
                   tx["rollup_observer"], tx["rollup_neighbor"],
                   [rows |-> tx'["anomalies"], raised |-> {}])
<1>1. ASSUME Loop /\ Batch /\ SharesInv, AlarmsTyped, [Next]_vars PROVE Flushes
  <2> SUFFICES ASSUME FlushesAnomalies
               PROVE  Found(Minutes(mem["anomalies"]), tx["anomalies"],
                            tx["rollup_observer"], tx["rollup_neighbor"],
                            [rows |-> tx'["anomalies"], raised |-> {}])
    OBVIOUS
  <2>1. /\ ppc = "flush" /\ turn <= Len(Stages) /\ turn' = turn + 1 /\ turn \in Nat \ {0}
        /\ Stages[turn] = "anomalies"
    BY <1>1 DEF FlushesAnomalies, Batch
  <2>2. FlushStage
    BY <1>1, <2>1 DEF Next, ProcessBatch, vars, loopVars, LogGrows, Start, Reset, Fetch,
       ApplyEvent, Begin, Commit, CommitTables, CommitUnacked, Settle, BeginFails, FlushFails,
       CommitFails, Abandon, Crash, EndBatch
  <2>3. PICK m, rows, rollup, neighbors :
            /\ m = mem["anomalies"] /\ rows = tx["anomalies"]
            /\ rollup = tx["rollup_observer"] /\ neighbors = tx["rollup_neighbor"]
            /\ AlarmMemory(m) /\ AlarmRows(rows)
            /\ mem'["anomalies"] = AnomaliesFlushMem(m, rows, rollup, neighbors)
            /\ tx'["anomalies"] = AnomaliesFlushTable(m, rows, rollup, neighbors)
    BY <1>1, <2>1, <2>2, AlarmsWritten
  <2> DEFINE run == RunMinutes(rows, rollup, neighbors, Minutes(m))
  <2>4. Found(Minutes(m), rows, rollup, neighbors, run)
    BY <2>3, AlarmsFlushed
  <2>5. tx'["anomalies"] = run.rows
    BY <2>3 DEF AnomaliesFlushTable
  <2> HIDE DEF run
  <2>6. Found(Minutes(m), rows, rollup, neighbors, [rows |-> tx'["anomalies"], raised |-> {}])
    BY <2>4, <2>5 DEF Found
  <2>7. QED
    BY <2>3, <2>6
<1>2. QED
  BY <1>1, AlarmsTypedHold, SharesHold, PTL DEF Spec, AlarmsFromRollups

(* What the stage has on its list is in the table, or in the transaction    *)
(* that is about to become the table: there is no other way for the list to *)
(* grow as long as no flush fails.                                          *)
ListedAlarms ==
    /\ ppc # "flush" => mem["anomalies"].emitted \subseteq tables["anomalies"]
    /\ ppc = "flush" => mem["anomalies"].emitted \subseteq tx["anomalies"]

LEMMA ListedInit == ASSUME "anomalies" \in StageSet, Init PROVE ListedAlarms
<1>1. mem["anomalies"] = EmptyMemory("anomalies") /\ ppc = "down"
  BY DEF Init
<1>2. QED
  BY <1>1, AlarmsEmpty DEF ListedAlarms

LEMMA ListedStep ==
  ASSUME Loop, Batch, [Next]_vars, "anomalies" \in StageSet, "fail" \notin Faults,
         AlarmsTyped, ListedAlarms
  PROVE  ListedAlarms'
<1> DEFINE s == "anomalies"
<1>1. /\ AlarmMemory(mem[s])
      /\ ppc # "flush" => mem[s].emitted \subseteq tables[s]
      /\ ppc = "flush" => mem[s].emitted \subseteq tx[s]
  BY DEF ListedAlarms, AlarmsTyped
<1>2. CASE UNCHANGED vars
  BY <1>1, <1>2 DEF vars, loopVars, ListedAlarms
<1>3. ASSUME NEW e \in EventSet, LogGrows(e) PROVE ListedAlarms'
  BY <1>1, <1>3 DEF LogGrows, loopVars, ListedAlarms
<1>4. CASE Start \/ Fetch
  BY <1>1, <1>4 DEF Start, Fetch, ListedAlarms
<1>5. CASE Reset
  <2>1. mem'[s] = EmptyMemory(s) /\ ppc' = "down"
    BY <1>5 DEF Reset, loopVars
  <2>2. QED
    BY <2>1, AlarmsEmpty DEF ListedAlarms
<1>6. CASE Crash
  <2>1. mem'[s] = EmptyMemory(s) /\ ppc' = "down"
    BY <1>6 DEF Crash
  <2>2. QED
    BY <2>1, AlarmsEmpty DEF ListedAlarms
<1>7. CASE ApplyEvent
  <2>1. ppc = "apply" /\ ppc' = "apply" /\ tables' = tables
    BY <1>7 DEF ApplyEvent
  <2>2. CASE mem' = mem
    BY <1>1, <2>1, <2>2 DEF ListedAlarms
  <2>3. CASE log[pos].kind # "dropped"
    <3>1. mem'[s] = AnomaliesApply(mem[s], log[pos])
      BY <1>7, <2>3 DEF ApplyEvent, Apply
    <3>2. log[pos] \in EventSet
      <4>1. pos \in Nat /\ cursor < pos /\ pos <= upto /\ upto <= Len(log) /\ cursor \in Nat
        BY <1>7 DEF ApplyEvent, Loop, Batch
      <4>2. QED
        BY <4>1 DEF Loop
    <3>3. AlarmMemory(mem'[s]) /\ mem'[s].emitted = mem[s].emitted
      BY <1>1, <3>1, <3>2, AlarmsApplied
    <3>4. QED
      BY <1>1, <2>1, <3>3 DEF ListedAlarms
  <2>4. QED
    BY <1>7, <2>2, <2>3 DEF ApplyEvent
<1>8. CASE Begin
  BY <1>1, <1>8 DEF Begin, ListedAlarms
<1>9. CASE FlushStage
  <2>1. /\ ppc = "flush" /\ ppc' = "flush" /\ turn <= Len(Stages)
        /\ mem' = [mem EXCEPT ![Stages[turn]] =
                       FlushMem(Stages[turn], @, Dirty(Stages[turn], @))]
        /\ tx' = [tx EXCEPT ![Stages[turn]] = FlushTable(Stages[turn], mem[Stages[turn]])]
    BY <1>9 DEF FlushStage
  <2>2. DOMAIN mem = StageSet /\ DOMAIN tx = StageSet
    BY <2>1 DEF Batch
  <2>3. CASE Stages[turn] # s
    <3>1. mem'[s] = mem[s] /\ tx'[s] = tx[s]
      BY <2>1, <2>3
    <3>2. QED
      BY <1>1, <2>1, <3>1 DEF ListedAlarms
  <2>4. CASE Stages[turn] = s
    <3>1. PICK m, rows, rollup, neighbors :
            /\ m = mem[s] /\ rows = tx[s] /\ AlarmMemory(m) /\ AlarmRows(rows)
            /\ mem'[s] = AnomaliesFlushMem(m, rows, rollup, neighbors)
            /\ tx'[s] = AnomaliesFlushTable(m, rows, rollup, neighbors)
      BY <1>9, <2>4, AlarmsWritten
    <3>2. m.emitted \subseteq rows
      BY <1>1, <2>1, <3>1
    <3>3. mem'[s].emitted \subseteq tx'[s]
      BY <3>1, <3>2, AlarmsFlushed
    <3>4. QED
      BY <2>1, <3>3 DEF ListedAlarms
  <2>5. QED
    BY <2>3, <2>4
<1>10. CASE Commit \/ CommitUnacked
  <2>1. ppc = "flush" /\ ppc' # "flush" /\ tables' = tx /\ mem' = mem
    BY <1>10 DEF Commit, CommitUnacked, CommitTables
  <2>2. QED
    BY <1>1, <2>1 DEF ListedAlarms
<1>11. CASE Settle
  <2>1. /\ ppc' = "idle"
        /\ mem'[s] = IF hwm = ZeroTime THEN AfterNotify(s, mem[s])
                     ELSE Evict(s, AfterNotify(s, mem[s]), hwm)
    BY <1>11 DEF Settle
  <2>2. AlarmMemory(mem'[s]) /\ mem'[s].emitted \subseteq tables'[s]
    BY <1>1, <2>1, AlarmsNotified
  <2>3. QED
    BY <2>1, <2>2 DEF ListedAlarms
<1>12. ~(BeginFails \/ FlushFails \/ CommitFails)
  BY DEF BeginFails, FlushFails, CommitFails, Abandon, Fault
<1>13. QED
  BY <1>2, <1>3, <1>4, <1>5, <1>6, <1>7, <1>8, <1>9, <1>10, <1>11, <1>12
     DEF Next, ProcessBatch

(* Browsers are told of anomalies that are in the table, through every      *)
(* crash, reset and lost acknowledgement, as long as no batch fails.        *)
THEOREM AnnouncedAlarmsHolds ==
  ASSUME "anomalies" \in StageSet, "fail" \notin Faults
  PROVE  Spec => []AnnouncedAlarms
<1>1. ListedAlarms => AnnouncedAlarms
  BY DEF ListedAlarms, AnnouncedAlarms, Alarms
<1>2. Init => ListedAlarms
  BY ListedInit
<1>3. ASSUME Loop /\ Batch /\ SharesInv, AlarmsTyped, ListedAlarms, [Next]_vars
      PROVE  ListedAlarms'
  BY <1>3, ListedStep
<1>4. QED
  BY <1>1, <1>2, <1>3, AlarmsTypedHold, SharesHold, PTL DEF Spec

-----------------------------------------------------------------------------
(* The alarms that go by numbers of packets.  A row of rollup_observer has  *)
(* a packet or a noise floor of its bucket, under every fault: no step adds  *)
(* a bucket for any other reason.                                            *)
Fills(l, k, b) == PacketsOf(l, k, 1, b) \cup NoisesOf(l, k, 1, b) # {}
AllFilled(l, m, b) == \A k \in DOMAIN m : Fills(l, k, b)

FilledInv ==
    /\ \E r : Reached(r) /\ AllFilled(log, mem["rollup_observer"], r)
    /\ AllFilled(log, tables["rollup_observer"], dbCursor)
    /\ ppc = "flush" /\ Flushed("rollup_observer") =>
          AllFilled(log, tx["rollup_observer"], upto)

LEMMA FilledKept ==
  ASSUME NEW l, NEW m, NEW b \in Nat, NEW c \in Nat, b <= c, NEW l2,
         \A i \in 1..b : l2[i] = l[i], AllFilled(l, m, b)
  PROVE  AllFilled(l2, m, c)
<1> SUFFICES ASSUME NEW k \in DOMAIN m PROVE Fills(l2, k, c)
  BY DEF AllFilled
<1>1. PICK i \in PacketsOf(l, k, 1, b) \cup NoisesOf(l, k, 1, b) : TRUE
  BY DEF AllFilled, Fills
<1>2. i \in 1..b /\ i \in 1..c /\ l2[i] = l[i]
  BY <1>1 DEF PacketsOf, NoisesOf, Noises
<1>3. i \in PacketsOf(l2, k, 1, c) \cup NoisesOf(l2, k, 1, c)
  BY <1>1, <1>2 DEF PacketsOf, NoisesOf, Noises
<1>4. QED
  BY <1>3 DEF Fills

(* What the operations of the stage do to the set of buckets.               *)
LEMMA BucketsOf ==
  ASSUME NEW m
  PROVE  /\ \A e : DOMAIN RollupApply(m, e) \subseteq DOMAIN m \cup {KeyOf(e)}
         /\ \A e : ~IsPacket(e) /\ ~(e.kind = "status" /\ e.floor # None) =>
                      RollupApply(m, e) = m
         /\ \A t, o, written : DOMAIN RollupFlushMem(m, t, o, written) = DOMAIN m
         /\ \A t, o : DOMAIN RollupFlushTable(m, t, o) \subseteq DOMAIN t \cup DOMAIN m
         /\ \A t, o : \A x \in RollupInterrupted(m, t, o) : DOMAIN x = DOMAIN m
         /\ \A time : DOMAIN RollupEvict(m, time) \subseteq DOMAIN m
<1>1. ASSUME NEW e
      PROVE  /\ DOMAIN RollupApply(m, e) \subseteq DOMAIN m \cup {KeyOf(e)}
             /\ ~IsPacket(e) /\ ~(e.kind = "status" /\ e.floor # None) => RollupApply(m, e) = m
  <2>1. \A k, v : DOMAIN Put(m, k, v) = DOMAIN m \cup {k}
    BY DEF Put
  <2>2. CASE e.kind = "packet"
    <3>1. RollupApply(m, e) = ApplyPacket(m, e)
      BY <2>2 DEF RollupApply
    <3>2. \E v : ApplyPacket(m, e) = Put(m, KeyOf(e), v)
      BY Zenon DEF ApplyPacket
    <3>3. IsPacket(e)
      BY <2>2 DEF IsPacket
    <3>4. QED
      BY <2>1, <3>1, <3>2, <3>3
  <2>3. CASE e.kind = "status" /\ e.floor # None
    <3>1. RollupApply(m, e) = ApplyStatus(m, e)
      BY <2>3 DEF RollupApply
    <3>2. QED
      BY <2>1, <2>3, <3>1 DEF ApplyStatus
  <2>4. CASE e.kind # "packet" /\ ~(e.kind = "status" /\ e.floor # None)
    BY <2>4 DEF RollupApply
  <2>5. QED
    BY <2>2, <2>3, <2>4
<1>2. \A t, o, written : DOMAIN RollupFlushMem(m, t, o, written) = DOMAIN m
  BY DEF RollupFlushMem
<1>3. \A t, o : DOMAIN RollupFlushTable(m, t, o) \subseteq DOMAIN t \cup DOMAIN m
  BY DEF RollupFlushTable, RollupDirty
<1>4. \A t, o : \A x \in RollupInterrupted(m, t, o) : DOMAIN x = DOMAIN m
  BY DEF RollupInterrupted, RollupRead
<1>5. \A time : DOMAIN RollupEvict(m, time) \subseteq DOMAIN m
  BY DEF RollupEvict, Keeping
<1>6. QED
  BY <1>1, <1>2, <1>3, <1>4, <1>5

LEMMA FilledInit == ASSUME "rollup_observer" \in StageSet, Init PROVE FilledInv
<1>1. /\ mem["rollup_observer"] = EmptyMap /\ tables["rollup_observer"] = EmptyMap
      /\ cursor = 0 /\ dbCursor = 0 /\ ppc = "down" /\ log = <<>>
  BY DEF Init, EmptyMemory, EmptyTable
<1>2. Reached(0)
  BY <1>1, PipelineAssumption DEF Reached
<1>3. AllFilled(log, EmptyMap, 0)
  BY DEF AllFilled, EmptyMap
<1>4. QED
  BY <1>1, <1>2, <1>3 DEF FilledInv

LEMMA FilledStep ==
  ASSUME Loop, Batch, [Next]_vars, "rollup_observer" \in StageSet, FilledInv
  PROVE  FilledInv'
<1> DEFINE s == "rollup_observer"
<1>1. PICK r : Reached(r) /\ AllFilled(log, mem[s], r)
  BY DEF FilledInv
<1>2. /\ AllFilled(log, tables[s], dbCursor)
      /\ ppc = "flush" /\ Flushed(s) => AllFilled(log, tx[s], upto)
  BY DEF FilledInv
<1>3. /\ Len(log) \in Nat /\ dbCursor \in Nat /\ upto \in Nat /\ r \in Nat
      /\ dbCursor <= Len(log) /\ r <= Len(log)
      /\ ppc = "flush" => dbCursor <= upto /\ upto <= Len(log) /\ r = upto
  BY <1>1 DEF Loop, Reached
<1>4. ASSUME NEW m, NEW b \in Nat, b <= Len(log), AllFilled(log, m, b), NEW c \in Nat, b <= c
      PROVE  AllFilled(log', m, c)
  <2>1. \A i \in 1..b : log'[i] = log[i]
    BY <1>3, <1>4, LogKept
  <2>2. QED
    BY <1>4, <2>1, FilledKept
<1>5. CASE Quiet(s, r)
  <2>1. /\ mem'[s] = mem[s] /\ tables'[s] = tables[s] /\ UNCHANGED <<dbCursor, cursor>>
        /\ Reached(r)'
        /\ ppc' = "flush" /\ Flushed(s)' =>
             ppc = "flush" /\ Flushed(s) /\ tx'[s] = tx[s] /\ upto' = upto
    BY <1>5 DEF Quiet
  <2>2. AllFilled(log', mem[s], r) /\ AllFilled(log', tables[s], dbCursor)
    BY <1>1, <1>2, <1>3, <1>4
  <2>3. ppc = "flush" /\ Flushed(s) => AllFilled(log', tx[s], upto)
    BY <1>2, <1>3, <1>4
  <2>4. QED
    BY <2>1, <2>2, <2>3 DEF FilledInv
<1>6. CASE Takes(s, r)
  <2>1. PICK q \in {Later(r, pos)} : Reached(q)'
    BY <1>6 DEF Takes
  <2>2. /\ ppc' = "apply" /\ pos \in 1..Len(log) /\ UNCHANGED <<log, tables, dbCursor>>
        /\ mem'[s] = mem[s] \/ mem'[s] = RollupApply(mem[s], log[pos])
    BY <1>6 DEF Takes, Apply
  <2>3. q \in Nat /\ r <= q /\ pos <= q
    BY <1>3, <2>1, <2>2 DEF Later
  <2>4. AllFilled(log, mem[s], q)
    <3>1. \A i \in 1..r : log[i] = log[i]
      OBVIOUS
    <3>2. QED
      BY <1>1, <1>3, <2>3, <3>1, FilledKept
  <2>5. AllFilled(log, mem'[s], q)
    <3> DEFINE e == log[pos]
    <3>1. CASE IsPacket(e) \/ (e.kind = "status" /\ e.floor # None)
      <4>1. pos \in 1..q
        BY <2>2, <2>3
      <4>2. pos \in PacketsOf(log, KeyOf(e), 1, q) \cup NoisesOf(log, KeyOf(e), 1, q)
        BY <3>1, <4>1 DEF PacketsOf, NoisesOf, Noises
      <4>3. Fills(log, KeyOf(e), q)
        BY <4>2 DEF Fills
      <4>4. DOMAIN mem'[s] \subseteq DOMAIN mem[s] \cup {KeyOf(e)}
        BY <2>2, BucketsOf
      <4>5. QED
        BY <2>4, <4>3, <4>4 DEF AllFilled
    <3>2. CASE ~IsPacket(e) /\ ~(e.kind = "status" /\ e.floor # None)
      <4>1. mem'[s] = mem[s]
        BY <2>2, <3>2, BucketsOf
      <4>2. QED
        BY <2>4, <4>1
    <3>3. QED
      BY <3>1, <3>2
  <2>6. QED
    BY <1>2, <2>1, <2>2, <2>5 DEF FilledInv
<1>7. CASE Writes(s, r)
  <2>1. /\ ppc = "flush" /\ tx[s] = tables[s] /\ Reached(r)' /\ DOMAIN mem'[s] = DOMAIN mem[s]
        /\ DOMAIN tx'[s] \subseteq DOMAIN tables[s] \cup DOMAIN mem[s]
        /\ UNCHANGED <<log, tables, dbCursor, upto>>
    BY <1>7, BucketsOf DEF Writes, InTurn, FlushMem, FlushTable
  <2>2. AllFilled(log, tables[s], upto)
    BY <1>2, <1>3, <1>4, <2>1
  <2>3. AllFilled(log, mem'[s], r) /\ AllFilled(log, tx'[s], upto)
    BY <1>1, <1>3, <2>1, <2>2 DEF AllFilled
  <2>4. QED
    BY <1>2, <2>1, <2>3 DEF FilledInv
<1>8. CASE Breaks(s, r)
  <2>1. /\ ppc' = "idle" /\ Reached(r)' /\ UNCHANGED <<log, tables, dbCursor>>
        /\ mem'[s] \in LeftBehind(s, mem[s])
    BY <1>8 DEF Breaks
  <2>2. DOMAIN mem'[s] = DOMAIN mem[s]
    BY <2>1, BucketsOf DEF LeftBehind, Interrupted, FlushMem
  <2>3. QED
    BY <1>1, <1>2, <2>1, <2>2 DEF FilledInv, AllFilled
<1>9. CASE Commits(s, r)
  BY <1>1, <1>2, <1>9 DEF Commits, FilledInv
<1>10. CASE Settles(s, r)
  <2>1. /\ ppc' = "idle" /\ Reached(r)' /\ UNCHANGED <<log, tables, dbCursor>>
        /\ mem'[s] = mem[s] \/ mem'[s] = RollupEvict(mem[s], hwm)
    BY <1>10 DEF Settles, AfterNotify, Evict
  <2>2. DOMAIN mem'[s] \subseteq DOMAIN mem[s]
    BY <2>1, BucketsOf
  <2>3. QED
    BY <1>1, <1>2, <2>1, <2>2 DEF FilledInv, AllFilled
<1>11. CASE Restarts(s)
  <2>1. PICK q \in {cursor'} : Reached(q)'
    BY <1>11 DEF Restarts
  <2>2. /\ mem'[s] = EmptyMap /\ ppc' \in {"down", "idle"} /\ log' = log
        /\ \/ tables'[s] = tables[s] /\ dbCursor' = dbCursor
           \/ tables'[s] = EmptyMap /\ dbCursor' = 0
    BY <1>11 DEF Restarts, EmptyMemory, EmptyTable
  <2>3. \A b : AllFilled(log, EmptyMap, b)
    BY DEF AllFilled, EmptyMap
  <2>4. QED
    BY <1>2, <2>1, <2>2, <2>3 DEF FilledInv
<1>12. QED
  BY <1>1, <1>5, <1>6, <1>7, <1>8, <1>9, <1>10, <1>11, StageSteps

LEMMA FilledHolds == ASSUME "rollup_observer" \in StageSet PROVE Spec => []FilledInv
<1>1. Init => FilledInv
  BY FilledInit
<1>2. ASSUME Loop /\ Batch /\ SharesInv, FilledInv, [Next]_vars PROVE FilledInv'
  BY <1>2, FilledStep
<1>3. QED
  BY <1>1, <1>2, SharesHold, PTL DEF Spec

-----------------------------------------------------------------------------
(* Windows that begin and end with a bucket hold a time if they hold its     *)
(* bucket.                                                                   *)
Whole(x) == \E q \in Int : x = BucketDur * q

LEMMA BucketBelow ==
  ASSUME NEW ts \in Nat, NEW x \in Int, Whole(x)
  PROVE  BucketOf(ts) \in Nat /\ (BucketOf(ts) < x <=> ts < x)
<1> DEFINE n == ts \div BucketDur
           b == BucketDur * n
<1>1. BucketDur \in Nat \ {0}
  BY BucketAssumption
<1>2. n \in Nat /\ b <= ts /\ ts < b + BucketDur
  BY <1>1
<1>3. BucketOf(ts) = b /\ b \in Nat
  BY <1>1, <1>2 DEF BucketOf
<1>4. PICK q \in Int : x = BucketDur * q
  BY DEF Whole
<1> HIDE DEF n
<1>5. ASSUME b < x PROVE ts < x
  <2>1. n < q
    BY <1>1, <1>2, <1>4, <1>5, Unscaled
  <2>2. n + 1 <= q
    BY <1>2, <1>4, <2>1
  <2>3. BucketDur * (n + 1) <= BucketDur * q
    BY <1>1, <1>2, <1>4, <2>2, Scaled
  <2>4. BucketDur * (n + 1) = b + BucketDur
    BY <1>1, <1>2
  <2>5. QED
    BY <1>1, <1>2, <1>3, <1>4, <2>3, <2>4
<1>6. QED
  BY <1>2, <1>3, <1>5

LEMMA WholeDifference ==
  ASSUME NEW x \in Int, NEW y \in Int, Whole(x), Whole(y)
  PROVE  x - y \in Int /\ Whole(x - y)
<1>1. BucketDur \in Nat \ {0}
  BY BucketAssumption
<1>2. PICK p \in Int : x = BucketDur * p
  BY DEF Whole
<1>3. PICK q \in Int : y = BucketDur * q
  BY DEF Whole
<1>4. x - y = BucketDur * (p - q)
  BY <1>1, <1>2, <1>3
<1>5. QED
  BY <1>4 DEF Whole

LEMMA WholeBucket ==
  ASSUME NEW x \in Nat, BucketOf(x) = x PROVE Whole(x)
<1>1. BucketDur \in Nat \ {0} /\ x \div BucketDur \in Int
  BY BucketAssumption
<1>2. x = BucketDur * (x \div BucketDur)
  BY <1>1 DEF BucketOf
<1>3. QED
  BY <1>1, <1>2 DEF Whole

(* The keys of the two tables, taken apart as the detectors do.             *)
LEMMA KeysApart ==
  ASSUME NEW e
  PROVE  /\ Front(KeyOf(e)) = <<e.obs>> /\ Last(KeyOf(e)) = BucketOf(e.ts)
         /\ Front(NeighborKey(e)) = <<e.obs, e.src>>
         /\ Last(NeighborKey(e)) = BucketOf(e.ts)
<1> DEFINE b == BucketOf(e.ts)
<1>1. KeyOf(e) = <<e.obs, b>> /\ NeighborKey(e) = <<e.obs, e.src, b>>
  BY DEF KeyOf, NeighborKey
<1> HIDE DEF b
<1>2. Front(<<e.obs, b>>) = <<e.obs>> /\ Last(<<e.obs, b>>) = b
  <2>1. Len(<<e.obs, b>>) - 1 = 1 /\ Last(<<e.obs, b>>) = b
    BY DEF Last
  <2> DEFINE f == SubSeq(<<e.obs, b>>, 1, 1)
  <2>2. \A i \in 1..1 : <<e.obs, b>>[i] \in {e.obs}
    OBVIOUS
  <2>3. f \in Seq({e.obs}) /\ Len(f) = 1 /\ f[1] = e.obs
    BY <2>2, SubSeqProperties
  <2> HIDE DEF f
  <2>4. f = <<e.obs>>
    BY <2>3
  <2>5. QED
    BY <2>1, <2>4 DEF Front, f
<1>3. Front(<<e.obs, e.src, b>>) = <<e.obs, e.src>> /\ Last(<<e.obs, e.src, b>>) = b
  <2>1. Len(<<e.obs, e.src, b>>) - 1 = 2 /\ Last(<<e.obs, e.src, b>>) = b
    BY DEF Last
  <2> DEFINE f == SubSeq(<<e.obs, e.src, b>>, 1, 2)
  <2>2. \A i \in 1..2 : <<e.obs, e.src, b>>[i] \in {e.obs, e.src}
    OBVIOUS
  <2>3. f \in Seq({e.obs, e.src}) /\ Len(f) = 2 /\ f[1] = e.obs /\ f[2] = e.src
    BY <2>2, SubSeqProperties
  <2> HIDE DEF f
  <2>4. f = <<e.obs, e.src>>
    BY <2>3
  <2>5. QED
    BY <2>1, <2>4 DEF Front, f
<1>4. QED
  BY <1>1, <1>2, <1>3 DEF b

(* The packets of a window, of an observer and of an observer and a source, *)
(* and the noise floors.                                                    *)
Between(ts, from, to) == from <= ts /\ ts < to
HeardBy(o, from, to) ==
    {i \in 1..upto : IsPacket(log[i]) /\ log[i].obs = o /\ Between(log[i].ts, from, to)}
FloorsBy(o, from, to) ==
    {i \in Noises(log, 1, upto) : log[i].obs = o /\ Between(log[i].ts, from, to)}
PairHeard(p, from, to) ==
    {i \in 1..upto : /\ IsPacket(log[i]) /\ <<log[i].obs, log[i].src>> = p
                     /\ Between(log[i].ts, from, to)}

(* A window begins and ends with a bucket.                                  *)
Window(from, to) == from \in Int /\ to \in Int /\ Whole(from) /\ Whole(to)

LEMMA WindowHolds ==
  ASSUME Loop, upto <= Len(log), NEW from, NEW to, Window(from, to), NEW i \in 1..upto
  PROVE  Between(log[i].ts, from, to) <=> Between(BucketOf(log[i].ts), from, to)
<1>1. log[i] \in EventSet
  BY DEF Loop
<1>2. log[i].ts \in Nat
  BY <1>1, EventsAssumption
<1>3. /\ BucketOf(log[i].ts) \in Nat
      /\ BucketOf(log[i].ts) < from <=> log[i].ts < from
      /\ BucketOf(log[i].ts) < to <=> log[i].ts < to
  BY <1>2, BucketBelow DEF Window
<1>4. QED
  BY <1>2, <1>3 DEF Between, Window

(* Rows of disjoint packets add up to the packets, and keys that differ in  *)
(* their last part are as many as those parts.                              *)
OfKey(H, f, k) == {i \in H : f[i] = k}
Ends(K) == {Last(k) : k \in K}

Keyed(t, H, S, f, K) ==
    /\ IsFiniteSet(H) /\ IsFiniteSet(S) /\ H \subseteq S
    /\ \A i \in S : f[i] \in K
    /\ \A k \in K : \E i \in S : f[i] = k
    /\ \A k \in K : t[k].packets = Cardinality(OfKey(H, f, k))
    /\ \A k, m \in K : Last(k) = Last(m) => k = m

LEMMA KeysAdd ==
  ASSUME NEW t, NEW H, NEW S, NEW f, NEW K, Keyed(t, H, S, f, K)
  PROVE  /\ IsFiniteSet(K) /\ Packets(t, K) = Cardinality(H)
         /\ Cardinality(K) = Cardinality(Ends(K))
         /\ Cardinality(K) \in Nat /\ Cardinality(H) \in Nat
<1> DEFINE g == [i \in S |-> f[i]]
           P == [k \in K |-> OfKey(H, f, k)]
           L == Ends(K)
           h == [k \in K |-> Last(k)]
<1> USE DEF Keyed
<1>1. IsFiniteSet(K)
  <2>1. g \in [S -> K] /\ \A k \in K : \E i \in S : g[i] = k
    OBVIOUS
  <2>2. g \in Surjection(S, K)
    BY <2>1, Fun_IsSurj
  <2> HIDE DEF g
  <2>3. QED
    BY <2>2, FS_Surjection
<1>2. Packets(t, K) = Cardinality(H)
  <2>1. P \in [K -> SUBSET H] /\ \A k \in K : t[k].packets = Cardinality(P[k])
    BY DEF OfKey
  <2>2. \A k, m \in K : k # m => P[k] \cap P[m] = {}
    BY DEF OfKey
  <2>3. UNION {P[k] : k \in K} = H
    <3>1. \A i \in H : f[i] \in K /\ i \in P[f[i]]
      BY DEF OfKey
    <3>2. \A k \in K : P[k] \subseteq H
      BY DEF OfKey
    <3> HIDE DEF P
    <3>3. QED
      BY <3>1, <3>2
  <2> HIDE DEF P
  <2>4. SumPackets(t, K) = Cardinality(UNION {P[k] : k \in K})
    BY <1>1, <2>1, <2>2, SumCounts
  <2>5. Packets(t, K) = SumPackets(t, K)
    BY DEF Packets, SumPackets
  <2>6. QED
    BY <2>3, <2>4, <2>5
<1>3. Cardinality(K) = Cardinality(L)
  <2>1. h \in [K -> L] /\ \A x \in L : \E k \in K : h[k] = x
    BY DEF Ends
  <2>2. \A k, m \in K : h[k] = h[m] => k = m
    OBVIOUS
  <2> HIDE DEF h, L
  <2>3. h \in Surjection(K, L) /\ h \in Injection(K, L)
    BY <2>1, <2>2, Fun_IsSurj, Fun_IsInj
  <2>4. ExistsBijection(K, L)
    BY <2>3 DEF ExistsBijection, Bijection
  <2>5. QED
    BY <1>1, <2>4, FS_Bijection
<1>4. QED
  BY <1>1, <1>2, <1>3, FS_CardinalityType

(* What the detectors read of rollup_observer in a window.                  *)
LEMMA RollupWindow ==
  ASSUME Exact, Loop, upto <= Len(log), NEW t, BucketRows(log, t, upto), AllFilled(log, t, upto),
         NEW o, NEW from, NEW to, Window(from, to)
  PROVE  /\ Packets(t, InWindow(t, <<o>>, from, to)) = Cardinality(HeardBy(o, from, to))
         /\ Cardinality(InWindow(t, <<o>>, from, to))
              = Cardinality(MinutesOf(HeardBy(o, from, to) \cup FloorsBy(o, from, to)))
         /\ InWindow(t, <<o>>, from, to) = {}
              <=> HeardBy(o, from, to) \cup FloorsBy(o, from, to) = {}
         /\ InWindow(t, <<o>>, from, to) = {} <=> Cardinality(InWindow(t, <<o>>, from, to)) = 0
         /\ Cardinality(InWindow(t, <<o>>, from, to)) \in Nat
         /\ Cardinality(HeardBy(o, from, to)) \in Nat
         /\ HeardBy(o, from, to) = {} <=> Cardinality(HeardBy(o, from, to)) = 0
<1> DEFINE K == InWindow(t, <<o>>, from, to)
           H == HeardBy(o, from, to)
           S == H \cup FloorsBy(o, from, to)
           f == [i \in 1..upto |-> KeyOf(log[i])]
<1>1. upto \in Nat
  BY DEF Loop
<1>2. /\ \A k \in DOMAIN t : t[k].packets = Cardinality(PacketsOf(log, k, 1, upto))
      /\ \A i \in PacketsAt(log, 1, upto) \cup Noises(log, 1, upto) : KeyOf(log[i]) \in DOMAIN t
  BY DEF BucketRows, BucketRow, Counts, Exact, NoFail
<1>3. \A k \in DOMAIN t : \E i \in PacketsAt(log, 1, upto) \cup Noises(log, 1, upto) :
                              KeyOf(log[i]) = k
  BY DEF AllFilled, Fills, PacketsOf, PacketsAt, NoisesOf
<1>4. \A k : k \in K <=> k \in DOMAIN t /\ Front(k) = <<o>> /\ Between(Last(k), from, to)
  BY DEF InWindow, Between
<1>5. \A i : i \in S <=> /\ i \in PacketsAt(log, 1, upto) \cup Noises(log, 1, upto)
                         /\ log[i].obs = o /\ Between(log[i].ts, from, to)
  BY DEF HeardBy, FloorsBy, PacketsAt
<1>6. \A i : i \in H <=> /\ i \in PacketsAt(log, 1, upto)
                         /\ log[i].obs = o /\ Between(log[i].ts, from, to)
  BY DEF HeardBy, PacketsAt
<1>7. \A i \in PacketsAt(log, 1, upto) \cup Noises(log, 1, upto) : i \in 1..upto
  BY DEF PacketsAt, Noises
<1>8. \A i \in 1..upto : Between(log[i].ts, from, to) <=> Between(BucketOf(log[i].ts), from, to)
  BY WindowHolds
<1>9. \A i \in 1..upto : /\ f[i] = KeyOf(log[i]) /\ Front(f[i]) = <<log[i].obs>>
                         /\ Last(f[i]) = BucketOf(log[i].ts)
                         /\ f[i] = <<log[i].obs, BucketOf(log[i].ts)>>
  BY KeysApart DEF KeyOf
<1>10. IsFiniteSet(H) /\ IsFiniteSet(S) /\ H \subseteq S
  <2>1. IsFiniteSet(1..upto)
    BY <1>1, FS_Interval
  <2>2. S \subseteq 1..upto /\ H \subseteq S
    BY <1>5, <1>6, <1>7
  <2> HIDE DEF H, S
  <2>3. QED
    BY <2>1, <2>2, FS_Subset
<1>11. \A k \in DOMAIN t : \A i : i \in PacketsOf(log, k, 1, upto) <=>
                              i \in PacketsAt(log, 1, upto) /\ KeyOf(log[i]) = k
  BY DEF PacketsOf, PacketsAt
<1> HIDE DEF K, H, S, f, Between
<1>12. \A x, y : <<x>> = <<y>> => x = y
  OBVIOUS
<1>13. ASSUME NEW i \in S PROVE f[i] \in K /\ Last(f[i]) = BucketOf(log[i].ts)
  BY <1>2, <1>4, <1>5, <1>7, <1>8, <1>9
<1>14. ASSUME NEW k \in K PROVE \E i \in S : f[i] = k
  <2>1. PICK i \in PacketsAt(log, 1, upto) \cup Noises(log, 1, upto) : KeyOf(log[i]) = k
    BY <1>3, <1>4
  <2>2. i \in 1..upto /\ f[i] = k /\ log[i].obs = o
    BY <1>4, <1>7, <1>9, <1>12, <2>1
  <2>3. Between(log[i].ts, from, to)
    BY <1>4, <1>8, <1>9, <2>2
  <2>4. QED
    BY <1>5, <2>1, <2>2, <2>3
<1>15. \A i \in S : f[i] \in K
  BY <1>13
<1>16. ASSUME NEW k \in K PROVE t[k].packets = Cardinality(OfKey(H, f, k))
  <2>1. OfKey(H, f, k) = PacketsOf(log, k, 1, upto)
    <3>1. ASSUME NEW i \in PacketsOf(log, k, 1, upto) PROVE i \in H /\ f[i] = k
      <4>1. i \in PacketsAt(log, 1, upto) /\ KeyOf(log[i]) = k /\ i \in 1..upto
        BY <1>4, <1>7, <1>11, <3>1
      <4>2. f[i] = k /\ log[i].obs = o
        BY <1>4, <1>9, <1>12, <4>1
      <4>3. Between(log[i].ts, from, to)
        BY <1>4, <1>8, <1>9, <4>1, <4>2
      <4>4. QED
        BY <1>6, <4>1, <4>2, <4>3
    <3>2. ASSUME NEW i \in H, f[i] = k PROVE i \in PacketsOf(log, k, 1, upto)
      BY <1>4, <1>6, <1>7, <1>9, <1>11, <3>2
    <3>3. QED
      BY <3>1, <3>2 DEF OfKey
  <2>2. QED
    BY <1>2, <1>4, <2>1
<1>17. ASSUME NEW k \in K, NEW m \in K, Last(k) = Last(m) PROVE k = m
  <2>1. PICK i \in S : f[i] = k
    BY <1>14
  <2>2. PICK j \in S : f[j] = m
    BY <1>14
  <2>3. i \in 1..upto /\ j \in 1..upto /\ log[i].obs = o /\ log[j].obs = o
    BY <1>5, <1>7
  <2>4. k = <<o, Last(k)>> /\ m = <<o, Last(m)>>
    BY <1>9, <2>1, <2>2, <2>3
  <2>5. QED
    BY <1>17, <2>4
<1>18. /\ Packets(t, K) = Cardinality(H)
       /\ Cardinality(K) = Cardinality(Ends(K)) /\ Cardinality(H) \in Nat
       /\ Cardinality(K) \in Nat /\ (K = {} <=> Cardinality(K) = 0)
  <2>1. Keyed(t, H, S, f, K)
    BY <1>10, <1>14, <1>15, <1>16, <1>17 DEF Keyed
  <2>2. QED
    BY <2>1, KeysAdd, FS_EmptySet
<1>19. Ends(K) = MinutesOf(S)
  BY <1>13, <1>14 DEF MinutesOf, Ends
<1>20. K = {} <=> S = {}
  BY <1>13, <1>14
<1>21. H = {} <=> Cardinality(H) = 0
  BY <1>10, FS_EmptySet
<1>22. QED
  BY <1>18, <1>19, <1>20, <1>21 DEF K, H, S

(* What they read of rollup_neighbor, of an observer and a source.          *)
LEMMA NeighborWindow ==
  ASSUME Exact, Loop, upto <= Len(log), NEW t, NeighborRows(log, t, upto),
         NEW o, NEW s, s # None, NEW from, NEW to, Window(from, to)
  PROVE  /\ Packets(t, InWindow(t, <<o, s>>, from, to))
              = Cardinality(PairHeard(<<o, s>>, from, to))
         /\ Cardinality(InWindow(t, <<o, s>>, from, to))
              = Cardinality(MinutesOf(PairHeard(<<o, s>>, from, to)))
         /\ InWindow(t, <<o, s>>, from, to) = {}
              <=> Cardinality(InWindow(t, <<o, s>>, from, to)) = 0
         /\ Cardinality(InWindow(t, <<o, s>>, from, to)) \in Nat
         /\ Cardinality(PairHeard(<<o, s>>, from, to)) \in Nat
<1> DEFINE K == InWindow(t, <<o, s>>, from, to)
           H == PairHeard(<<o, s>>, from, to)
           f == [i \in 1..upto |-> NeighborKey(log[i])]
           Sourced(i) == i \in 1..upto /\ IsPacket(log[i]) /\ log[i].src # None
<1>1. upto \in Nat
  BY DEF Loop
<1>2. \A k \in DOMAIN t : t[k].packets = Cardinality(PacketsFrom(log, k, 1, upto))
  BY DEF NeighborRows, NeighborTotals, Counts
<1>3. \A k : k \in DOMAIN t <=> \E i : Sourced(i) /\ NeighborKey(log[i]) = k
  BY DEF NeighborRows, PacketsFrom
<1>4. \A k : \A i : i \in PacketsFrom(log, k, 1, upto) <=> Sourced(i) /\ NeighborKey(log[i]) = k
  BY DEF PacketsFrom
<1>5. \A k : k \in K <=> k \in DOMAIN t /\ Front(k) = <<o, s>> /\ Between(Last(k), from, to)
  BY DEF InWindow, Between
<1>6. \A i : i \in H <=> /\ Sourced(i) /\ log[i].obs = o /\ log[i].src = s
                         /\ Between(log[i].ts, from, to)
  BY DEF PairHeard
<1>7. \A i : Sourced(i) => i \in 1..upto
  OBVIOUS
<1>8. \A i \in 1..upto : Between(log[i].ts, from, to) <=> Between(BucketOf(log[i].ts), from, to)
  BY WindowHolds
<1>9. \A i \in 1..upto : /\ f[i] = NeighborKey(log[i])
                         /\ Front(f[i]) = <<log[i].obs, log[i].src>>
                         /\ Last(f[i]) = BucketOf(log[i].ts)
                         /\ f[i] = <<log[i].obs, log[i].src, BucketOf(log[i].ts)>>
  BY KeysApart DEF NeighborKey
<1>10. IsFiniteSet(H)
  <2>1. IsFiniteSet(1..upto)
    BY <1>1, FS_Interval
  <2>2. H \subseteq 1..upto
    BY <1>6
  <2> HIDE DEF H
  <2>3. QED
    BY <2>1, <2>2, FS_Subset
<1> HIDE DEF K, H, f, Sourced, Between
<1>11. \A x, y, a, b : <<x, a>> = <<y, b>> => x = y /\ a = b
  OBVIOUS
<1>12. ASSUME NEW i \in H PROVE f[i] \in K /\ Last(f[i]) = BucketOf(log[i].ts)
  BY <1>3, <1>5, <1>6, <1>7, <1>8, <1>9
<1>13. ASSUME NEW k \in K PROVE \E i \in H : f[i] = k
  <2>1. PICK i : Sourced(i) /\ NeighborKey(log[i]) = k
    BY <1>3, <1>5
  <2>2. i \in 1..upto /\ f[i] = k /\ log[i].obs = o /\ log[i].src = s
    BY <1>5, <1>7, <1>9, <1>11, <2>1
  <2>3. Between(log[i].ts, from, to)
    BY <1>5, <1>8, <1>9, <2>2
  <2>4. QED
    BY <1>6, <2>1, <2>2, <2>3
<1>14. ASSUME NEW k \in K PROVE t[k].packets = Cardinality(OfKey(H, f, k))
  <2>1. ASSUME NEW i \in PacketsFrom(log, k, 1, upto) PROVE i \in H /\ f[i] = k
    <3>1. Sourced(i) /\ i \in 1..upto /\ f[i] = k /\ log[i].obs = o /\ log[i].src = s
      BY <1>4, <1>5, <1>7, <1>9, <1>11, <2>1
    <3>2. Between(log[i].ts, from, to)
      BY <1>5, <1>8, <1>9, <3>1
    <3>3. QED
      BY <1>6, <3>1, <3>2
  <2>2. ASSUME NEW i \in H, f[i] = k PROVE i \in PacketsFrom(log, k, 1, upto)
    BY <1>4, <1>6, <1>7, <1>9, <2>2
  <2>3. OfKey(H, f, k) = PacketsFrom(log, k, 1, upto)
    BY <2>1, <2>2 DEF OfKey
  <2>4. QED
    BY <1>2, <1>5, <2>3
<1>15. ASSUME NEW k \in K, NEW m \in K, Last(k) = Last(m) PROVE k = m
  <2>1. PICK i \in H : f[i] = k
    BY <1>13
  <2>2. PICK j \in H : f[j] = m
    BY <1>13
  <2>3. i \in 1..upto /\ j \in 1..upto /\ log[i].obs = o /\ log[j].obs = o
        /\ log[i].src = s /\ log[j].src = s
    BY <1>6, <1>7
  <2>4. k = <<o, s, Last(k)>> /\ m = <<o, s, Last(m)>>
    BY <1>9, <2>1, <2>2, <2>3
  <2>5. QED
    BY <1>15, <2>4
<1>16. /\ Packets(t, K) = Cardinality(H)
       /\ Cardinality(K) = Cardinality(Ends(K)) /\ Cardinality(H) \in Nat
       /\ Cardinality(K) \in Nat /\ (K = {} <=> Cardinality(K) = 0)
  <2>1. Keyed(t, H, H, f, K)
    BY <1>10, <1>12, <1>13, <1>14, <1>15 DEF Keyed
  <2>2. QED
    BY <2>1, KeysAdd, FS_EmptySet
<1>17. Ends(K) = MinutesOf(H)
  BY <1>12, <1>13 DEF MinutesOf, Ends
<1>18. QED
  BY <1>16, <1>17 DEF K, H

(* The windows of the two rules begin and end with a bucket, as those do    *)
(* that the code sets (src/internal/project/project.go:74).                 *)
WholeWindows ==
    \A w \in {Silent.recent, Silent.base, Gap.recent, Gap.base} : BucketOf(w) = w

LEMMA RuleWindows ==
  ASSUME WholeWindows, NEW m \in Nat, BucketOf(m) = m
  PROVE  /\ Window(m - Silent.base, m - Silent.recent) /\ Window(m - Silent.recent, m)
         /\ Window(m - Gap.recent - Gap.base, m - Gap.recent) /\ Window(m - Gap.recent, m)
<1>1. Whole(m)
  BY WholeBucket
<1>2. \A w \in {Silent.recent, Silent.base, Gap.recent, Gap.base} : w \in Nat /\ Whole(w)
  BY DetectorsAssumption, WholeBucket DEF WholeWindows
<1>3. ASSUME NEW w \in {Silent.recent, Silent.base, Gap.recent, Gap.base}
      PROVE  m - w \in Int /\ Whole(m - w)
  <2>1. w \in Int /\ Whole(w) /\ m \in Int
    BY <1>2
  <2>2. QED
    BY <1>1, <2>1, WholeDifference
<1>4. m - Gap.recent - Gap.base \in Int /\ Whole(m - Gap.recent - Gap.base)
  <2> DEFINE x == m - Gap.recent
             y == Gap.base
  <2>1. x \in Int /\ y \in Int /\ Whole(x) /\ Whole(y)
    BY <1>2, <1>3
  <2> HIDE DEF x, y
  <2>2. x - y \in Int /\ Whole(x - y)
    BY <2>1, WholeDifference
  <2>3. QED
    BY <2>2 DEF x, y
<1>5. m \in Int
  OBVIOUS
<1>6. QED
  BY <1>1, <1>3, <1>4, <1>5 DEF Window

(* observer_silent, on the rows and in the log.                             *)
SilenceOf(o) == [kind |-> "observer_silent", subject |-> o, obs |-> o, src |-> None]
QuietRows(t, o, m) ==
    /\ AveragesAtLeast(t, InWindow(t, <<o>>, m - Silent.base, m - Silent.recent), Silent.perMin)
    /\ Packets(t, InWindow(t, <<o>>, m - Silent.recent, m)) = 0

LEMMA SilenceTold ==
  ASSUME Exact, Loop, upto <= Len(log), NEW t, BucketRows(log, t, upto), AllFilled(log, t, upto),
         WholeWindows, NEW m \in Nat, BucketOf(m) = m, NEW o
  PROVE  /\ QuietRows(t, o, m) <=> WentSilent(o, m)
         /\ QuietRows(t, o, m) => <<o>> \in SeriesOf(t) /\ o \in LoggedObservers
<1> DEFINE from == m - Silent.base
           to == m - Silent.recent
           K == InWindow(t, <<o>>, from, to)
           H == HeardBy(o, from, to)
           S == H \cup FloorsBy(o, from, to)
           after == HeardBy(o, to, m)
           n == Cardinality(H)
           c == Cardinality(MinutesOf(S))
<1>1. WentSilent(o, m) <=> H # {} /\ 100 * n >= Silent.perMin * c /\ after = {}
  <2>1. /\ ReceivedIn(LAMBDA e : e.obs = o, from, to) = H
        /\ ReceivedIn(LAMBDA e : e.obs = o, to, m) = after
        /\ {i \in 1..upto : /\ log[i].kind = "status" /\ log[i].obs = o
                            /\ log[i].floor # None
                            /\ from <= log[i].ts /\ log[i].ts < to} = FloorsBy(o, from, to)
    BY DEF ReceivedIn, HeardBy, FloorsBy, Noises, Between
  <2>2. QED
    BY <2>1, Zenon DEF WentSilent
<1>2. Window(from, to) /\ Window(to, m)
  BY RuleWindows
<1> HIDE DEF from, to
<1>3. /\ Packets(t, K) = n /\ Cardinality(K) = c /\ (K = {} <=> S = {})
      /\ (K = {} <=> c = 0) /\ c \in Nat /\ n \in Nat /\ (H = {} <=> n = 0)
  BY <1>2, RollupWindow
<1>4. Packets(t, InWindow(t, <<o>>, to, m)) = 0 <=> after = {}
  BY <1>2, RollupWindow
<1>5. QuietRows(t, o, m) <=> K # {} /\ 100 * n >= Silent.perMin * c /\ after = {}
  BY <1>3, <1>4 DEF QuietRows, AveragesAtLeast, from, to
<1>6. ASSUME H # {} PROVE o \in LoggedObservers
  <2>1. PICK i \in 1..upto : IsPacket(log[i]) /\ log[i].obs = o
    BY <1>6 DEF HeardBy
  <2>2. log[i] \in Logged
    BY <2>1 DEF Logged
  <2>3. QED
    BY <2>1, <2>2 DEF LoggedObservers
<1>7. ASSUME K # {} PROVE <<o>> \in SeriesOf(t)
  <2>1. PICK k \in DOMAIN t : Front(k) = <<o>>
    BY <1>7 DEF InWindow
  <2>2. QED
    BY <2>1 DEF SeriesOf
<1>8. H # {} => S # {}
  OBVIOUS
<1> HIDE DEF K, H, S, after, n, c
<1>9. K # {} /\ 100 * n >= Silent.perMin * c => H # {}
  <2>1. SUFFICES ASSUME c \in Nat \ {0}, 100 * n >= Silent.perMin * c PROVE n # 0
    BY <1>3
  <2>2. Silent.perMin \in Nat \ {0}
    BY DetectorsAssumption
  <2>3. Silent.perMin * c >= 1
    BY <2>1, <2>2
  <2>4. QED
    BY <1>3, <2>1, <2>2, <2>3
<1>10. QED
  BY <1>1, <1>3, <1>5, <1>6, <1>7, <1>8, <1>9

LEMMA SilentTold ==
  ASSUME Exact, Loop, upto <= Len(log), NEW t, BucketRows(log, t, upto), AllFilled(log, t, upto),
         WholeWindows, NEW m \in Nat, BucketOf(m) = m
  PROVE  SilentAt(t, m) = {SilenceOf(o) : o \in {x \in LoggedObservers : WentSilent(x, m)}}
<1>1. ASSUME NEW o
      PROVE  /\ QuietRows(t, o, m) <=> WentSilent(o, m)
             /\ QuietRows(t, o, m) => <<o>> \in SeriesOf(t) /\ o \in LoggedObservers
  BY SilenceTold
<1>2. ASSUME NEW s \in SeriesOf(t) PROVE s = <<s[1]>>
  <2>1. PICK k \in DOMAIN t : s = Front(k)
    BY DEF SeriesOf
  <2>2. PICK i : KeyOf(log[i]) = k
    BY <2>1 DEF AllFilled, Fills, PacketsOf, NoisesOf
  <2>3. s = <<log[i].obs>>
    BY <2>1, <2>2, KeysApart
  <2>4. QED
    BY <2>3
<1> DEFINE Rows == {s \in SeriesOf(t) : QuietRows(t, s[1], m)}
           Told == {x \in LoggedObservers : WentSilent(x, m)}
<1>3. SilentAt(t, m) = {SilenceOf(s[1]) : s \in Rows}
  <2>1. ASSUME NEW s \in SeriesOf(t)
        PROVE  QuietRows(t, s[1], m) <=>
                 /\ AveragesAtLeast(t, InWindow(t, s, m - Silent.base, m - Silent.recent),
                                    Silent.perMin)
                 /\ Packets(t, InWindow(t, s, m - Silent.recent, m)) = 0
    BY <1>2, Zenon DEF QuietRows
  <2>2. QED
    BY <2>1, Zenon DEF SilentAt, SilenceOf
<1>4. \A s \in Rows : s[1] \in Told
  BY <1>1
<1>5. \A o \in Told : <<o>> \in Rows /\ <<o>>[1] = o
  BY <1>1
<1> HIDE DEF Rows, Told
<1>6. {SilenceOf(s[1]) : s \in Rows} = {SilenceOf(o) : o \in Told}
  BY <1>4, <1>5
<1>7. QED
  BY <1>3, <1>6 DEF Told

(* reception_gap, on the rows and in the log.                               *)
Baseline(p, m) == PairHeard(p, m - Gap.recent - Gap.base, m - Gap.recent)
Regular(p, m) ==
    /\ Cardinality(MinutesOf(Baseline(p, m))) >= Gap.samples
    /\ 100 * Cardinality(Baseline(p, m))
         >= Gap.perMin * Cardinality(MinutesOf(Baseline(p, m)))
Share(p, m) ==
    <<Cardinality(PairHeard(p, m - Gap.recent, m)) * Cardinality(MinutesOf(Baseline(p, m))),
      Cardinality(Baseline(p, m)) * (Gap.recent \div BucketDur)>>
Peers(o, s, m) == {p \in LoggedPairs : p[2] = s /\ p[1] # o /\ Regular(p, m)}
LessThan(o, s, m) ==
    /\ Cardinality(Peers(o, s, m)) >= Gap.peers
    /\ 100 * Share(<<o, s>>, m)[1] < Gap.maxRecent * Share(<<o, s>>, m)[2]
    /\ MedianAtLeast([p \in Peers(o, s, m) |-> Share(p, m)], Gap.minPeer)

LEMMA LostSourceSays ==
  ASSUME NEW o, NEW s, NEW m
  PROVE  LostSource(o, s, m) <=> /\ Regular(<<o, s>>, m) /\ LessThan(o, s, m)
                                 /\ HeardBy(o, m - Gap.recent, m) # {}
<1> DEFINE at == m - Gap.recent
           base == at - Gap.base
           heard == {i \in 1..upto : /\ IsPacket(log[i]) /\ log[i].obs = o
                                     /\ at <= log[i].ts /\ log[i].ts < m}
           R(p) == {i \in 1..upto : /\ IsPacket(log[i]) /\ <<log[i].obs, log[i].src>> = p
                                    /\ at <= log[i].ts /\ log[i].ts < m}
           B(p) == {i \in 1..upto : /\ IsPacket(log[i]) /\ <<log[i].obs, log[i].src>> = p
                                    /\ base <= log[i].ts /\ log[i].ts < at}
<1>1. /\ HeardBy(o, at, m) = heard
      /\ \A p : PairHeard(p, at, m) = R(p) /\ PairHeard(p, base, at) = B(p)
  BY DEF HeardBy, PairHeard, Between
<1> DEFINE n(p) == Cardinality(MinutesOf(B(p)))
           Reg(p) == n(p) >= Gap.samples /\ 100 * Cardinality(B(p)) >= Gap.perMin * n(p)
           Ratio(p) == <<Cardinality(R(p)) * n(p),
                         Cardinality(B(p)) * (Gap.recent \div BucketDur)>>
           P == {p \in LoggedPairs : p[2] = s /\ p[1] # o /\ Reg(p)}
<1>2. \A p : (Regular(p, m) <=> Reg(p)) /\ Share(p, m) = Ratio(p)
  BY <1>1, Zenon DEF Regular, Share, Baseline
<1>3. LostSource(o, s, m) <=>
        /\ Reg(<<o, s>>)
        /\ 100 * Ratio(<<o, s>>)[1] < Gap.maxRecent * Ratio(<<o, s>>)[2]
        /\ Cardinality(P) >= Gap.peers
        /\ MedianAtLeast([p \in P |-> Ratio(p)], Gap.minPeer)
        /\ heard # {}
  BY Zenon DEF LostSource, ReceivedIn
<1> HIDE DEF heard, Reg, Ratio
<1>4. P = Peers(o, s, m)
  BY <1>2, Zenon DEF Peers
<1> HIDE DEF P
<1>5. [p \in P |-> Ratio(p)] = [p \in P |-> Share(p, m)]
  BY <1>2, Zenon
<1>6. QED
  BY <1>1, <1>2, <1>3, <1>4, <1>5, Zenon DEF LessThan

(* The pairs that the neighbor rollup has rows of are those of the log.     *)
LEMMA PairsTold ==
  ASSUME NEW t, NeighborRows(log, t, upto)
  PROVE  /\ SeriesOf(t) = LoggedPairs
         /\ \A p \in LoggedPairs : p = <<p[1], p[2]>> /\ p[2] # None
<1> DEFINE Sourced(i) == i \in 1..upto /\ IsPacket(log[i]) /\ log[i].src # None
           P(i) == <<log[i].obs, log[i].src>>
<1>1. \A k : k \in DOMAIN t <=> \E i : Sourced(i) /\ NeighborKey(log[i]) = k
  BY DEF NeighborRows, PacketsFrom
<1>2. \A i : Front(NeighborKey(log[i])) = P(i)
  BY KeysApart
<1>3. \A p : p \in LoggedPairs <=> \E i : Sourced(i) /\ P(i) = p
  <2>1. \A e : e \in Logged <=> \E i \in 1..upto : IsPacket(log[i]) /\ log[i] = e
    BY DEF Logged
  <2>2. \A p : p \in LoggedPairs <=> \E e \in Logged : e.src # None /\ p = <<e.obs, e.src>>
    BY DEF LoggedPairs
  <2>3. QED
    BY <2>1, <2>2
<1>4. \A i : P(i) = <<P(i)[1], P(i)[2]>> /\ (Sourced(i) => P(i)[2] # None)
  OBVIOUS
<1> HIDE DEF Sourced, P
<1>5. \A p : p \in SeriesOf(t) <=> \E k \in DOMAIN t : p = Front(k)
  BY DEF SeriesOf
<1>6. \A p : p \in SeriesOf(t) <=> p \in LoggedPairs
  BY <1>1, <1>2, <1>3, <1>5
<1>7. QED
  BY <1>3, <1>4, <1>6

LEMMA PairTold ==
  ASSUME Exact, Loop, upto <= Len(log), NEW t, NeighborRows(log, t, upto),
         WholeWindows, NEW m \in Nat, BucketOf(m) = m, NEW p \in LoggedPairs
  PROVE  /\ p \in Baselined(t, m) <=> Regular(p, m)
         /\ RatioAt(t, p, m) = Share(p, m)
<1> DEFINE at == m - Gap.recent
           from == at - Gap.base
           K == InWindow(t, p, from, at)
<1>1. p = <<p[1], p[2]>> /\ p[2] # None /\ p \in SeriesOf(t)
  BY PairsTold
<1>2. Window(from, at) /\ Window(at, m)
  BY RuleWindows
<1> HIDE DEF at, from
<1>3. /\ Packets(t, K) = Cardinality(PairHeard(p, from, at))
      /\ Cardinality(K) = Cardinality(MinutesOf(PairHeard(p, from, at)))
      /\ K = {} <=> Cardinality(K) = 0
      /\ Cardinality(K) \in Nat
  BY <1>1, <1>2, NeighborWindow
<1>4. Packets(t, InWindow(t, p, at, m)) = Cardinality(PairHeard(p, at, m))
  BY <1>1, <1>2, NeighborWindow
<1>5. Baseline(p, m) = PairHeard(p, from, at)
  BY DEF Baseline, from, at
<1>6. RatioAt(t, p, m) = Share(p, m)
  BY <1>3, <1>4, <1>5 DEF RatioAt, Share, from, at
<1>7. p \in Baselined(t, m) <=> /\ Cardinality(K) >= Gap.samples
                                /\ AveragesAtLeast(t, K, Gap.perMin)
  BY <1>1 DEF Baselined, from, at
<1>8. Gap.samples \in Nat \ {0}
  BY DetectorsAssumption
<1>9. QED
  BY <1>3, <1>5, <1>6, <1>7, <1>8 DEF AveragesAtLeast, Regular

LossOf(p) == [kind |-> "reception_gap", subject |-> p[1], obs |-> p[1], src |-> p[2]]

LEMMA LossTold ==
  ASSUME Exact, Loop, upto <= Len(log), NEW t, NeighborRows(log, t, upto),
         NEW u, BucketRows(log, u, upto), AllFilled(log, u, upto),
         WholeWindows, NEW m \in Nat, BucketOf(m) = m
  PROVE  GapAt(u, t, m)
           = {LossOf(p) : p \in {x \in LoggedPairs : LostSource(x[1], x[2], m)}}
<1> DEFINE pairs == Baselined(t, m)
           peers(s) == {p \in pairs : p[2] = s[2] /\ p[1] # s[1]}
           heard(o) == Packets(u, InWindow(u, <<o>>, m - Gap.recent, m)) > 0
           lost(s) == /\ Cardinality(peers(s)) >= Gap.peers
                      /\ 100 * RatioAt(t, s, m)[1] < Gap.maxRecent * RatioAt(t, s, m)[2]
                      /\ MedianAtLeast([p \in peers(s) |-> RatioAt(t, p, m)], Gap.minPeer)
                      /\ heard(s[1])
           Rows == {x \in pairs : lost(x)}
           Told == {x \in LoggedPairs : LostSource(x[1], x[2], m)}
<1>1. GapAt(u, t, m) = {LossOf(s) : s \in Rows}
  BY Zenon DEF GapAt, LossOf
<1>2. ASSUME NEW p \in LoggedPairs
      PROVE  (p \in pairs <=> Regular(p, m)) /\ RatioAt(t, p, m) = Share(p, m)
  BY PairTold
<1>3. pairs \subseteq LoggedPairs
  BY PairsTold DEF Baselined
<1>4. ASSUME NEW o PROVE heard(o) <=> HeardBy(o, m - Gap.recent, m) # {}
  <2> DEFINE at == m - Gap.recent
  <2>1. Window(at, m)
    BY RuleWindows
  <2> HIDE DEF at
  <2>2. /\ Packets(u, InWindow(u, <<o>>, at, m)) = Cardinality(HeardBy(o, at, m))
        /\ Cardinality(HeardBy(o, at, m)) \in Nat
        /\ HeardBy(o, at, m) = {} <=> Cardinality(HeardBy(o, at, m)) = 0
    BY <2>1, RollupWindow
  <2>3. QED
    BY <2>2 DEF at
<1> HIDE DEF pairs, heard
<1>5. ASSUME NEW p \in LoggedPairs PROVE peers(p) = Peers(p[1], p[2], m)
  BY <1>2, <1>3 DEF Peers
<1>6. ASSUME NEW p \in LoggedPairs
      PROVE  p \in Rows <=> p \in Told
  <2> DEFINE P == Peers(p[1], p[2], m)
  <2>1. P \subseteq LoggedPairs
    BY DEF Peers
  <2>2. \A q \in P : RatioAt(t, q, m) = Share(q, m)
    BY <1>2, <2>1
  <2>3. p = <<p[1], p[2]>>
    BY PairsTold
  <2>4. peers(p) = P /\ RatioAt(t, p, m) = Share(p, m)
    BY <1>2, <1>5
  <2> HIDE DEF P
  <2>5. [q \in P |-> RatioAt(t, q, m)] = [q \in P |-> Share(q, m)]
    BY <2>2
  <2>6. lost(p) <=> /\ Cardinality(P) >= Gap.peers
                    /\ 100 * Share(p, m)[1] < Gap.maxRecent * Share(p, m)[2]
                    /\ MedianAtLeast([q \in P |-> Share(q, m)], Gap.minPeer)
                    /\ heard(p[1])
    BY <2>4, <2>5, Zenon
  <2>7. lost(p) <=> LessThan(p[1], p[2], m) /\ HeardBy(p[1], m - Gap.recent, m) # {}
    BY <1>4, <2>3, <2>6, Zenon DEF LessThan, P
  <2>8. LostSource(p[1], p[2], m) <=> Regular(p, m) /\ lost(p)
    BY <2>3, <2>7, LostSourceSays, Zenon
  <2>9. QED
    BY <1>2, <2>8
<1>7. Rows = Told
  BY <1>3, <1>6
<1> HIDE DEF Rows, Told
<1>8. QED
  BY <1>1, <1>7 DEF Told

(* So what is found in the rollups and counts packets holds in the log, and *)
(* the other way round.                                                     *)
LEMMA FindingsTold ==
  ASSUME Exact, Loop, upto <= Len(log), NEW t, NeighborRows(log, t, upto),
         NEW u, BucketRows(log, u, upto), AllFilled(log, u, upto),
         WholeWindows, NEW m \in Nat, BucketOf(m) = m
  PROVE  /\ \A f \in FindingsAt(u, t, m) : f.kind # "rssi_drop" => RowAt(f, m) \in Conditions(m)
         /\ \A c \in Conditions(m) : c.kind # "rssi_drop" =>
               \E f \in FindingsAt(u, t, m) : c = RowAt(f, m)
<1> DEFINE Mute == {o \in LoggedObservers : WentSilent(o, m)}
           Weaker == {p \in LoggedPairs : GotWeaker(p[1], p[2], m)}
           Lost == {p \in LoggedPairs : LostSource(p[1], p[2], m)}
           DropOf(p) == [kind |-> "rssi_drop", subject |-> p[2], obs |-> p[1], src |-> p[2]]
<1>1. SilentAt(u, m) = {SilenceOf(o) : o \in Mute}
  BY SilentTold
<1>2. GapAt(u, t, m) = {LossOf(p) : p \in Lost}
  BY LossTold
<1>3. Conditions(m) = {RowAt(SilenceOf(o), m) : o \in Mute}
                        \cup {RowAt(DropOf(p), m) : p \in Weaker}
                        \cup {RowAt(LossOf(p), m) : p \in Lost}
  BY Zenon DEF Conditions, SilenceOf, LossOf
<1>4. \A f \in DropAt(t, m) : f.kind = "rssi_drop"
  <2>1. \E S : DropAt(t, m) = {DropOf(s) : s \in S}
    BY Zenon DEF DropAt
  <2>2. \A s : DropOf(s).kind = "rssi_drop"
    OBVIOUS
  <2> HIDE DEF DropOf
  <2>3. QED
    BY <2>1, <2>2
<1>5. \A p : RowAt(DropOf(p), m).kind = "rssi_drop"
  BY DEF RowAt
<1> HIDE DEF Mute, Weaker, Lost, DropOf
<1>6. \A f \in FindingsAt(u, t, m) :
         f.kind # "rssi_drop" => f \in SilentAt(u, m) \cup GapAt(u, t, m)
  BY <1>4 DEF FindingsAt
<1>7. SilentAt(u, m) \cup GapAt(u, t, m) \subseteq FindingsAt(u, t, m)
  BY DEF FindingsAt
<1>8. \A f \in SilentAt(u, m) \cup GapAt(u, t, m) : RowAt(f, m) \in Conditions(m)
  BY <1>1, <1>2, <1>3
<1>9. ASSUME NEW c \in Conditions(m), c.kind # "rssi_drop"
      PROVE  \E f \in SilentAt(u, m) \cup GapAt(u, t, m) : c = RowAt(f, m)
  <2>1. CASE \E o \in Mute : c = RowAt(SilenceOf(o), m)
    BY <1>1, <2>1
  <2>2. CASE \E p \in Lost : c = RowAt(LossOf(p), m)
    BY <1>2, <2>2
  <2>3. QED
    BY <1>3, <1>5, <1>9, <2>1, <2>2
<1>10. QED
  BY <1>6, <1>7, <1>8, <1>9

(* The rollups are written by the time the anomalies stage reads them.      *)
LEMMA RollupsRead ==
  ASSUME Loop, Batch, RollupInv, NeighborInv, FilledInv, FlushesAnomalies
  PROVE  /\ BucketRows(log, tx["rollup_observer"], upto)
         /\ AllFilled(log, tx["rollup_observer"], upto)
         /\ NeighborRows(log, tx["rollup_neighbor"], upto)
         /\ upto <= Len(log) /\ "anomalies" \in StageSet
<1>1. ppc = "flush" /\ turn \in DOMAIN Stages /\ Stages[turn] = "anomalies"
  BY PipelineAssumption DEF FlushesAnomalies, Batch
<1>2. "anomalies" \in StageSet
  BY <1>1 DEF StageSet, RowsOf
<1>3. {"rollup_observer", "rollup_neighbor"} \subseteq StageSet
  BY <1>2, PipelineAssumption DEF StageSet
<1>4. ASSUME NEW s \in {"rollup_observer", "rollup_neighbor"} PROVE Flushed(s)
  <2>1. PICK i \in DOMAIN Stages : Stages[i] = s
    BY <1>3, <1>4 DEF StageSet, RowsOf
  <2>2. StageOrder[s] < StageOrder["anomalies"]
    BY <1>4 DEF StageOrder
  <2>3. /\ DOMAIN Stages = 1..Len(Stages) /\ Len(Stages) \in Nat
        /\ StageOrder[s] \in Nat /\ StageOrder["anomalies"] \in Nat
    BY <1>4, PipelineAssumption DEF StageOrder
  <2>4. i < turn
    <3>1. CASE i > turn
      <4>1. StageOrder["anomalies"] < StageOrder[s]
        BY <1>1, <2>1, <2>3, <3>1, PipelineAssumption
      <4>2. QED
        BY <2>2, <2>3, <4>1
    <3>2. CASE i = turn
      BY <1>1, <1>4, <2>1, <3>2
    <3>3. QED
      BY <1>1, <2>3, <3>1, <3>2
  <2>5. QED
    BY <2>1, <2>4 DEF Flushed
<1>5. upto <= Len(log)
  BY <1>1 DEF Loop
<1>6. QED
  BY <1>1, <1>2, <1>4, <1>5 DEF RollupInv, NeighborInv, FilledInv

(* Of two sets of rows, what a flush of these minutes owes the log.         *)
OfCounts(r) == r.kind # "rssi_drop"
Raises(minutes, old, new) ==
    /\ \A r \in new \ old :
          OfCounts(r) => r \in UNION {Conditions(t) : t \in minutes}
    /\ \A t \in minutes : \A c \in Conditions(t) :
          OfCounts(c) => \E r \in new : SameAlarm(r, c) /\ t - DedupWindow <= r.ts /\ r.ts <= t

(* A flush raises what holds in the log at the minutes it crosses, and      *)
(* nothing else, for the two conditions that count packets: the rollups'    *)
(* counters, rebuilt after crashes and resets, say what the packets say.    *)
(* The third condition compares averages, which are rounded.                *)
CountedAlarmsExact ==
    [][FlushesAnomalies =>
         Raises(Minutes(mem["anomalies"]), tx["anomalies"], tx'["anomalies"])]_vars

THEOREM CountedAlarmsExactHolds ==
  ASSUME "anomalies" \in StageSet, Faults \cap {"fail", "lostAck"} = {}, WholeWindows
  PROVE  Spec => CountedAlarmsExact
<1> DEFINE M == Minutes(mem["anomalies"])
           old == tx["anomalies"]
           new == tx'["anomalies"]
           u == tx["rollup_observer"]
           t == tx["rollup_neighbor"]
           Finds == FlushesAnomalies => Found(M, old, u, t, [rows |-> new, raised |-> {}])
           Told == FlushesAnomalies => Raises(M, old, new)
           Inv == Loop /\ Batch /\ SharesInv
<1>1. Exact
  BY DEF Exact
<1>2. "rollup_observer" \in StageSet /\ "rollup_neighbor" \in StageSet
  BY PipelineAssumption DEF StageSet
<1>3. ASSUME Inv, RollupInv, NeighborInv, FilledInv, AlarmsTyped, Finds PROVE Told
  <2> SUFFICES ASSUME FlushesAnomalies PROVE Raises(M, old, new)
    OBVIOUS
  <2>1. /\ BucketRows(log, u, upto) /\ AllFilled(log, u, upto)
        /\ NeighborRows(log, t, upto) /\ upto <= Len(log) /\ Loop
    BY <1>3, RollupsRead
  <2>2. \A m \in M : m \in Nat /\ BucketOf(m) = m
    <3> DEFINE a == mem["anomalies"]
    <3>1. a.cursor \in Nat /\ a.hwm \in Nat
      BY <1>3 DEF AlarmsTyped, AlarmMemory
    <3> HIDE DEF a
    <3>2. BucketOf(a.hwm) \in Nat
      BY <3>1, BucketAssumption DEF BucketOf
    <3>3. QED
      BY <3>1, <3>2 DEF Minutes, a
  <2>3. Found(M, old, u, t, [rows |-> new, raised |-> {}])
    BY <1>3
  <2> HIDE DEF u, t, old, M, new
  <2>4. ASSUME NEW m \in M
        PROVE  /\ \A f \in FindingsAt(u, t, m) :
                     f.kind # "rssi_drop" => RowAt(f, m) \in Conditions(m)
               /\ \A c \in Conditions(m) : c.kind # "rssi_drop" =>
                     \E f \in FindingsAt(u, t, m) : c = RowAt(f, m)
    BY <1>1, <2>1, <2>2, FindingsTold
  <2>5. \A f, m : RowAt(f, m).kind = f.kind /\ RowAt(f, m).subject = f.subject
    BY DEF RowAt
  <2>6. ASSUME NEW r \in new \ old, OfCounts(r) PROVE \E m \in M : r \in Conditions(m)
    <3>1. PICK m \in M : \E f \in FindingsAt(u, t, m) : r = RowAt(f, m)
      BY <2>3 DEF Found
    <3>2. QED
      BY <2>4, <2>5, <2>6, <3>1 DEF OfCounts
  <2>7. ASSUME NEW m \in M, NEW c \in Conditions(m), OfCounts(c)
        PROVE  \E r \in new : SameAlarm(r, c) /\ m - DedupWindow <= r.ts /\ r.ts <= m
    <3>1. PICK f \in FindingsAt(u, t, m) : c = RowAt(f, m)
      BY <2>4, <2>7 DEF OfCounts
    <3>2. PICK r \in new : SameAlarm(r, f) /\ m - DedupWindow <= r.ts /\ r.ts <= m
      BY <2>3, <3>1 DEF Found
    <3>3. QED
      BY <2>5, <3>1, <3>2 DEF SameAlarm
  <2>8. QED
    BY <2>6, <2>7 DEF Raises
<1>4. Init => NeighborInv
  BY <1>2, NeighborInit
<1>5. Spec => [](Loop /\ RollupInv)
  BY <1>2, RollupHolds
<1>6. ASSUME Inv, NeighborInv, [Next]_vars PROVE NeighborInv'
  BY <1>1, <1>2, <1>6, NeighborStep
<1>7. Spec => []FilledInv
  BY <1>2, FilledHolds
<1>8. Spec => []AlarmsTyped
  BY AlarmsTypedHold
<1>9. Spec => []Inv
  BY SharesHold
<1>10. Spec => [][Finds]_vars
  BY AlarmsFromRollupsHolds DEF AlarmsFromRollups
<1>11. QED
  BY <1>3, <1>4, <1>5, <1>6, <1>7, <1>8, <1>9, <1>10, PTL DEF Spec, CountedAlarmsExact
=============================================================================

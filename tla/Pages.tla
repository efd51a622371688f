------------------------------- MODULE Pages --------------------------------
(***************************************************************************)
(* The queries behind the pages that aggregate or page through tables:     *)
(* nodes, neighbors, an observer's neighbors and the topology.  They keep  *)
(* no state; each is an operator on the tables it reads.  since is the     *)
(* start of the 24 hours that a query looks back.  Row limits (100, 500)   *)
(* and the columns that are passed through are left out.                   *)
(***************************************************************************)
EXTENDS Nodes, RollupNeighbor, SequencesExt

-----------------------------------------------------------------------------
(* The nodes page.  The two sort columns that are texts are left out. *)

(* Anything but the known columns falls back to last_seen. *)
SortKey(row, sort) ==
    CASE sort = "advert_count"     -> row.count
      [] sort = "advert_timestamp" -> row.at
      [] sort = "first_seen"       -> row.first
      [] OTHER                     -> row.last

(* Some total order of the public keys. *)
KeyRank(nodes, key) == CHOOSE i \in DOMAIN SetToSeq(DOMAIN nodes) :
                           SetToSeq(DOMAIN nodes)[i] = key

(* Mutant of Precedes: rows with the same sort key come in any order. *)
PrecedesByColumn(nodes, sort, dir, k, l) ==
    LET a == SortKey(nodes[k], sort)
        b == SortKey(nodes[l], sort)
    IN  IF dir = "asc" THEN a < b ELSE a > b

(* ORDER BY the column, then public_key. *)
Precedes(nodes, sort, dir, k, l) ==
    LET a == SortKey(nodes[k], sort)
        b == SortKey(nodes[l], sort)
    IN  IF a = b THEN KeyRank(nodes, k) < KeyRank(nodes, l)
        ELSE IF dir = "asc" THEN a < b ELSE a > b

(* The orders in which one execution of the query may return the rows. *)
NodesOrders(nodes, sort, dir) ==
    {order \in SetToSeqs(DOMAIN nodes) :
        \A i, j \in DOMAIN order : i < j => ~Precedes(nodes, sort, dir, order[j], order[i])}

(* The handler's clamp of the size asked for. *)
PageSize(size) == CASE size <= 0 -> 50 [] size > 500 -> 500 [] OTHER -> size

(* LIMIT and OFFSET. *)
NodesOnPage(order, page, size) ==
    SubSeq(order, (page - 1) * size + 1, Earlier(page * size, Len(order)))

(* What the footer says of it: first and last row shown, number of pages. *)
NodesRangeStart(total, page, size) == IF total = 0 THEN 0 ELSE (page - 1) * size + 1
NodesRangeEnd(total, page, size) == Earlier(page * size, total)
NodesTotalPages(total, size) == IF total = 0 THEN 1 ELSE (total + size - 1) \div size

-----------------------------------------------------------------------------
(* The rows of rollup_neighbor_1m: observer, source and minute. *)
HeardSince(neighbors, since) == {k \in DOMAIN neighbors : k[3] >= since}

SumPackets(neighbors, keys) == MapThenSumSet(LAMBDA k : neighbors[k].packets, keys)

Sources(neighbors, since) == {k[2] : k \in HeardSince(neighbors, since)}

(* queryNeighbors: one row per source. *)
NeighborsPage(neighbors, since) ==
    [s \in Sources(neighbors, since) |->
        LET rows == {k \in HeardSince(neighbors, since) : k[2] = s}
        IN  [packets |-> SumPackets(neighbors, rows),
             heardBy |-> Cardinality({k[1] : k \in rows})]]

(* Mutant of ObserverNeighbors: heardBy is counted on the observer's rows. *)
ObserverNeighborsOwn(neighbors, o, since) ==
    [s \in {k[2] : k \in {l \in HeardSince(neighbors, since) : l[1] = o}} |->
        LET rows == {k \in HeardSince(neighbors, since) : k[2] = s}
            own == {k \in rows : k[1] = o}
        IN  [packets |-> SumPackets(neighbors, own),
             heardBy |-> Cardinality({k[1] : k \in own})]]

(* queryObserverDetail's neighbors: the packets are those of this observer, *)
(* heardBy is that of the source.                                           *)
ObserverNeighbors(neighbors, o, since) ==
    [s \in {k[2] : k \in {l \in HeardSince(neighbors, since) : l[1] = o}} |->
        LET rows == {k \in HeardSince(neighbors, since) : k[2] = s}
            own == {k \in rows : k[1] = o}
        IN  [packets |-> SumPackets(neighbors, own),
             heardBy |-> Cardinality({k[1] : k \in rows})]]

-----------------------------------------------------------------------------
(* queryTopology.  A node is an observer or a source; the layout gives every *)
(* one of them a place.                                                      *)
TopoNodes(observers, neighbors, since) ==
    {<<"obs", o>> : o \in DOMAIN observers}
      \cup {<<"src", s>> : s \in Sources(neighbors, since)}

(* Mutant of TopoEdges: the edges are not restricted to the last 24 hours. *)
TopoEdgesEver(neighbors, since) ==
    LET edge(k) == <<k[1], k[2]>>
    IN  {[from |-> <<"obs", e[1]>>, to |-> <<"src", e[2]>>,
          packets |-> SumPackets(neighbors, {k \in DOMAIN neighbors : edge(k) = e})] :
            e \in {edge(k) : k \in {l \in DOMAIN neighbors : neighbors[l].avg # None}}}

(* An edge whose average is NULL cannot be scanned and is left out. *)
TopoEdges(neighbors, since) ==
    LET recent == HeardSince(neighbors, since)
        edge(k) == <<k[1], k[2]>>
    IN  {[from |-> <<"obs", e[1]>>, to |-> <<"src", e[2]>>,
          packets |-> SumPackets(neighbors, {k \in recent : edge(k) = e})] :
            e \in {edge(k) : k \in {l \in recent : neighbors[l].avg # None}}}

(* The end of an edge that is no node stays at (0, 0). *)
Placed(end, observers, neighbors, since) == end \in TopoNodes(observers, neighbors, since)
=============================================================================

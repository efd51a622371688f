-------------------------------- MODULE Shown -------------------------------
(***************************************************************************)
(* What the pages owe their reader, in terms of the log: the queries read  *)
(* tables that other processes keep, so these hold or fail end to end.     *)
(***************************************************************************)
EXTENDS Projections, Pages

(* The moments that a look back of 24 hours may start at: now is not before *)
(* any reception, and rows come and go from it one reception at a time.     *)
Sinces == {ZeroTime} \cup {log[i].ts : i \in Projected}

(* Tables change by a commit alone (and by a reset, which empties them), so *)
(* the pages are judged right after each one.                               *)
Committing == ppc = "settle"

HeardFrom(s, since) ==
    PacketsWith(LAMBDA e : e.src = s /\ BucketOf(e.ts) >= since)

-----------------------------------------------------------------------------
(* Whatever each page's query returns, the pages show every node once, and  *)
(* as many as the footer says.                                              *)
Paged(nodes, sort, dir, size) ==
    LET total == Cardinality(DOMAIN nodes)
        pages == 1..NodesTotalPages(total, size)
    IN  \A order \in [pages -> NodesOrders(nodes, sort, dir)] :
            LET shown(p) == NodesOnPage(order[p], p, size)
            IN  /\ \A key \in DOMAIN nodes :
                      Cardinality({p \in pages : Contains(shown(p), key)}) = 1
                /\ total > 0 => \A p \in pages :
                      Len(shown(p)) = NodesRangeEnd(total, p, size)
                                        - NodesRangeStart(total, p, size) + 1

(* Going from the first page of nodes to the last shows every node exactly  *)
(* once, and the footer counts right, for every column, direction and size: *)
(* each page is a query of its own, so rows with equal keys must come in    *)
(* the same order every time.                                               *)
NodesPaged == Committing =>
    \A sort \in {"advert_count", "advert_timestamp", "first_seen", "last_seen"},
       dir \in {"asc", "desc"}, asked \in 0..2 :
        Paged(NodeRows, sort, dir, PageSize(asked))

(* The neighbors page and the pages of the observers tell the same of a      *)
(* source, and it is what the log says: how many packets each observer heard *)
(* from it, and how many observers heard it.                                 *)
NeighborsShown == Committing =>
    \A since \in Sinces :
        LET page == NeighborsPage(Neighbors, since)
            hearers(s) == {log[i].obs : i \in HeardFrom(s, since)}
            own(o, s) == {i \in HeardFrom(s, since) : log[i].obs = o}
        IN  \A s \in {log[i].src : i \in PacketsWith(LAMBDA e : e.src # None)} :
                /\ s \in DOMAIN page <=> hearers(s) # {}
                /\ s \in DOMAIN page =>
                      /\ page[s].packets = Cardinality(HeardFrom(s, since))
                      /\ page[s].heardBy = Cardinality(hearers(s))
                /\ \A o \in hearers(s) :
                      ObserverNeighbors(Neighbors, o, since)[s] =
                          [packets |-> Cardinality(own(o, s)), heardBy |-> page[s].heardBy]

(* The topology has an edge for every observer and source between which a   *)
(* packet with an RSSI was logged, counts all packets on it, and draws it   *)
(* between two places, unless the observer has never sent a status.         *)
LinksShown == Committing =>
    \A since \in Sinces :
        LET edges == TopoEdges(Neighbors, since)
            observers == tables["observers"]
            heard(o, s) == {i \in HeardFrom(s, since) : log[i].obs = o}
            reported == {log[i].obs : i \in StatusesWith(LAMBDA e : TRUE)}
            links == {<<log[i].obs, log[i].src>> :
                        i \in PacketsWith(LAMBDA e : /\ e.src # None /\ e.rssi # None
                                                     /\ BucketOf(e.ts) >= since)}
        IN  /\ edges = {[from |-> <<"obs", l[1]>>, to |-> <<"src", l[2]>>,
                         packets |-> Cardinality(heard(l[1], l[2]))] : l \in links}
            /\ \A e \in edges :
                  /\ Placed(e.to, observers, Neighbors, since)
                  /\ Placed(e.from, observers, Neighbors, since) <=> e.from[2] \in reported
=============================================================================

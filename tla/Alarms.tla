------------------------------- MODULE Alarms -------------------------------
(***************************************************************************)
(* What an anomaly means in terms of the log: the three conditions, stated *)
(* over the packets logged up to the end of the batch, with no rollup in   *)
(* between, and what the anomalies table owes them.                        *)
(***************************************************************************)
EXTENDS Projections

(* Packets of the log that satisfy P and were received in [from, to). *)
ReceivedIn(P(_), from, to) ==
    {i \in 1..upto : /\ IsPacket(log[i]) /\ P(log[i])
                     /\ from <= log[i].ts /\ log[i].ts < to}

MinutesOf(positions) == {BucketOf(log[i].ts) : i \in positions}

Logged == {log[i] : i \in {j \in 1..upto : IsPacket(log[j])}}
LoggedObservers == {e.obs : e \in Logged}
LoggedPairs == {<<e.obs, e.src>> : e \in {x \in Logged : x.src # None}}

(* A minute with a noise floor but no packet counts as a quiet one. *)
WentSilent(o, t) ==
    LET from == t - Silent.base
        to == t - Silent.recent
        before == ReceivedIn(LAMBDA e : e.obs = o, from, to)
        floors == {i \in 1..upto : /\ log[i].kind = "status" /\ log[i].obs = o
                                   /\ log[i].floor # None
                                   /\ from <= log[i].ts /\ log[i].ts < to}
    IN  /\ before # {}
        /\ 100 * Cardinality(before)
             >= Silent.perMin * Cardinality(MinutesOf(before \cup floors))
        /\ ReceivedIn(LAMBDA e : e.obs = o, to, t) = {}

(* The mean of the minutes' average RSSI fell by the threshold. *)
GotWeaker(o, s, t) ==
    LET between == t - Drop.recent
        from(a, b) == ReceivedIn(LAMBDA e : e.obs = o /\ e.src = s, a, b)
        base == from(between - Drop.base, between)
        curr == from(between, t)
        with(positions) == {i \in positions : log[i].rssi # None}
        minute(positions, m) ==
            LET of == {i \in with(positions) : BucketOf(log[i].ts) = m}
            IN  StoredAvg(MapThenSumSet(LAMBDA i : log[i].rssi, of), Cardinality(of))
        sum(positions) ==
            MapThenSumSet(LAMBDA m : minute(positions, m), MinutesOf(with(positions)))
        n(positions) == Cardinality(MinutesOf(with(positions)))
    IN  /\ Cardinality(MinutesOf(base)) >= Drop.samples
        /\ Cardinality(MinutesOf(curr)) >= Drop.samples
        /\ with(base) # {} /\ with(curr) # {}
        /\ sum(base) * n(curr) - sum(curr) * n(base)
             >= 100 * Drop.threshold * n(base) * n(curr)

(* Observer o lost source s, which its peers still hear, and is not deaf. *)
LostSource(o, s, t) ==
    LET between == t - Gap.recent
        base(p) == ReceivedIn(LAMBDA e : <<e.obs, e.src>> = p, between - Gap.base, between)
        recent(p) == ReceivedIn(LAMBDA e : <<e.obs, e.src>> = p, between, t)
        minutes(p) == Cardinality(MinutesOf(base(p)))
        regular(p) == /\ minutes(p) >= Gap.samples
                      /\ 100 * Cardinality(base(p)) >= Gap.perMin * minutes(p)
        ratio(p) == <<Cardinality(recent(p)) * minutes(p),
                      Cardinality(base(p)) * (Gap.recent \div BucketDur)>>
        peers == {p \in LoggedPairs : p[2] = s /\ p[1] # o /\ regular(p)}
    IN  /\ regular(<<o, s>>)
        /\ 100 * ratio(<<o, s>>)[1] < Gap.maxRecent * ratio(<<o, s>>)[2]
        /\ Cardinality(peers) >= Gap.peers
        /\ MedianAtLeast([p \in peers |-> ratio(p)], Gap.minPeer)
        /\ ReceivedIn(LAMBDA e : e.obs = o, between, t) # {}

Conditions(t) ==
    {RowAt([kind |-> "observer_silent", subject |-> o, obs |-> o, src |-> None], t) :
        o \in {x \in LoggedObservers : WentSilent(x, t)}}
    \cup
    {RowAt([kind |-> "rssi_drop", subject |-> p[2], obs |-> p[1], src |-> p[2]], t) :
        p \in {x \in LoggedPairs : GotWeaker(x[1], x[2], t)}}
    \cup
    {RowAt([kind |-> "reception_gap", subject |-> p[1], obs |-> p[1], src |-> p[2]], t) :
        p \in {x \in LoggedPairs : LostSource(x[1], x[2], t)}}

-----------------------------------------------------------------------------
Alarms == tables["anomalies"]

FlushesAnomalies ==
    /\ ppc = "flush" /\ turn <= Len(Stages)
    /\ turn' = turn + 1
    /\ Stages[turn] = "anomalies"

(* A flush raises the conditions that hold in the log at the minutes it     *)
(* crosses and nothing else: each row it adds is one of them, and each of   *)
(* them has a row of its kind and subject, there and then or within the     *)
(* deduplication window.  This is what ties the stage's place at the end of *)
(* the list, the rollups it reads (rebuilt after crashes) and the order of  *)
(* the minutes together.                                                    *)
AlarmsExact ==
    [][FlushesAnomalies =>
         LET minutes == Minutes(mem["anomalies"])
             rows == tx'["anomalies"]
             holds == UNION {Conditions(t) : t \in minutes}
         IN  /\ rows \ tx["anomalies"] \subseteq holds
             /\ \A c \in holds :
                   \E r \in rows : /\ r.kind = c.kind /\ r.subject = c.subject
                                   /\ c.ts - DedupWindow <= r.ts /\ r.ts <= c.ts]_vars

(* Browsers are told of anomalies that are in the table: once the batch is  *)
(* committed, what the stage collected for its notification is there.       *)
AnnouncedAlarms == ppc = "settle" => mem["anomalies"].emitted \subseteq Alarms
=============================================================================

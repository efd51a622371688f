----------------------------- MODULE Detectors ------------------------------
(***************************************************************************)
(* The three anomaly rules, as queries on the minute rollups.  A finding   *)
(* has a kind, the subject that deduplication goes by, and the (observer,  *)
(* source) it is about.  Fractions are compared by cross-multiplication,   *)
(* percentages are whole, avg_rssi and perMin are in hundredths.           *)
(***************************************************************************)
EXTENDS Buckets, SequencesExt

CONSTANTS
    Drop,    \* [recent, base, samples, threshold]: RSSIDrop's parameters
    Silent,  \* [recent, base, perMin]: ObserverSilent's
    Gap      \* [recent, base, samples, perMin, maxRecent, minPeer, peers]: ReceptionGap's

ASSUME DetectorsAssumption ==
    /\ Drop.recent \in Nat /\ Drop.base \in Nat
    /\ Drop.samples \in Nat \ {0} /\ Drop.threshold \in Nat
    /\ Silent.recent \in Nat /\ Silent.base \in Nat /\ Silent.perMin \in Nat \ {0}
    /\ Gap.recent \in Nat \ {0} /\ Gap.base \in Nat
    /\ Gap.samples \in Nat \ {0} /\ Gap.perMin \in Nat \ {0}
    /\ Gap.maxRecent \in Nat /\ Gap.minPeer \in Nat /\ Gap.peers \in Nat \ {0}

(* The keys of one series whose bucket lies in [from, to). *)
InWindow(table, series, from, to) ==
    {k \in DOMAIN table : /\ Front(k) = series
                          /\ from <= Last(k) /\ Last(k) < to}

SeriesOf(table) == {Front(k) : k \in DOMAIN table}

Packets(table, keys) == MapThenSumSet(LAMBDA k : table[k].packets, keys)

(* AVG(packets) >= min hundredths, the average being over rows that exist. *)
AveragesAtLeast(table, keys, min) ==
    keys # {} /\ 100 * Packets(table, keys) >= min * Cardinality(keys)

-----------------------------------------------------------------------------
(* ObserverSilent: a busy baseline, and nothing since. *)
SilentAt(rollup, t) ==
    {[kind |-> "observer_silent", subject |-> o[1], obs |-> o[1], src |-> None] :
        o \in {s \in SeriesOf(rollup) :
                 /\ AveragesAtLeast(rollup,
                      InWindow(rollup, s, t - Silent.base, t - Silent.recent),
                      Silent.perMin)
                 /\ Packets(rollup, InWindow(rollup, s, t - Silent.recent, t)) = 0}}

(* RSSIDrop: the averages of avg_rssi, which pass over NULL, have come apart. *)
DropAt(neighbors, t) ==
    LET fell(s) ==
            LET base == InWindow(neighbors, s, t - Drop.recent - Drop.base, t - Drop.recent)
                curr == InWindow(neighbors, s, t - Drop.recent, t)
                known(keys) == {k \in keys : neighbors[k].avg # None}
                sum(keys) == MapThenSumSet(LAMBDA k : neighbors[k].avg, known(keys))
                n(keys) == Cardinality(known(keys))
            IN  /\ Cardinality(base) >= Drop.samples
                /\ Cardinality(curr) >= Drop.samples
                /\ n(base) > 0 /\ n(curr) > 0
                /\ sum(base) * n(curr) - sum(curr) * n(base)
                     >= 100 * Drop.threshold * n(base) * n(curr)
    IN  {[kind |-> "rssi_drop", subject |-> s[2], obs |-> s[1], src |-> s[2]] :
            s \in {x \in SeriesOf(neighbors) : fell(x)}}

-----------------------------------------------------------------------------
(* ReceptionGap's baselined (observer, source) pairs. *)
Baselined(neighbors, t) ==
    {s \in SeriesOf(neighbors) :
        LET base == InWindow(neighbors, s, t - Gap.recent - Gap.base, t - Gap.recent)
        IN  /\ Cardinality(base) >= Gap.samples
            /\ AveragesAtLeast(neighbors, base, Gap.perMin)}

(* recent_pkts / (baseline_per_min * minutes), as numerator and denominator. *)
RatioAt(neighbors, s, t) ==
    LET base == InWindow(neighbors, s, t - Gap.recent - Gap.base, t - Gap.recent)
        recent == InWindow(neighbors, s, t - Gap.recent, t)
    IN  <<Packets(neighbors, recent) * Cardinality(base),
          Packets(neighbors, base) * (Gap.recent \div BucketDur)>>

AtMost(p, q) == p[1] * q[2] <= q[1] * p[2]

(* percentile_cont(0.5) of some ratios is at least this percentage: the     *)
(* middle one, or the mean of the two in the middle.                        *)
MedianAtLeast(ratio, percent) ==
    LET sorted == SetToSortSeq(DOMAIN ratio, LAMBDA p, q : AtMost(ratio[p], ratio[q]))
        low == ratio[sorted[(Len(sorted) + 1) \div 2]]
        high == ratio[sorted[(Len(sorted) \div 2) + 1]]
    IN  100 * (low[1] * high[2] + high[1] * low[2]) >= 2 * percent * low[2] * high[2]

(* Mutant of GapAt: the observer need not hear anything else. *)
GapOrOutageAt(rollup, neighbors, t) ==
    LET pairs == Baselined(neighbors, t)
        ratio(s) == RatioAt(neighbors, s, t)
        gap(s) ==
            LET peers == {p \in pairs : p[2] = s[2] /\ p[1] # s[1]}
            IN  /\ Cardinality(peers) >= Gap.peers
                /\ 100 * ratio(s)[1] < Gap.maxRecent * ratio(s)[2]
                /\ MedianAtLeast([p \in peers |-> ratio(p)], Gap.minPeer)
    IN  {[kind |-> "reception_gap", subject |-> s[1], obs |-> s[1], src |-> s[2]] :
            s \in {x \in pairs : gap(x)}}

(* ReceptionGap: this observer hears much less of the source than it used   *)
(* to, its peers do not, and it still hears something.                      *)
GapAt(rollup, neighbors, t) ==
    LET pairs == Baselined(neighbors, t)
        ratio(s) == RatioAt(neighbors, s, t)
        gap(s) ==
            LET peers == {p \in pairs : p[2] = s[2] /\ p[1] # s[1]}
            IN  /\ Cardinality(peers) >= Gap.peers
                /\ 100 * ratio(s)[1] < Gap.maxRecent * ratio(s)[2]
                /\ MedianAtLeast([p \in peers |-> ratio(p)], Gap.minPeer)
                /\ Packets(rollup, InWindow(rollup, <<s[1]>>, t - Gap.recent, t)) > 0
    IN  {[kind |-> "reception_gap", subject |-> s[1], obs |-> s[1], src |-> s[2]] :
            s \in {x \in pairs : gap(x)}}

FindingsAt(rollup, neighbors, t) ==
    DropAt(neighbors, t) \cup SilentAt(rollup, t) \cup GapAt(rollup, neighbors, t)
=============================================================================

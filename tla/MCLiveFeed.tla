----------------------------- MODULE MCLiveFeed -----------------------------
(* A small instance of LiveFeed: one page of the feed, one of an observer. *)
EXTENDS LiveFeed

Topics == {"live-feed", "overview", "anomalies", "a"}
TwoPages == [c \in Client |-> IF c = "x" THEN "live-feed" ELSE "a"]

(* Packets of two times, a status, and an anomaly. *)
FewBatches ==
    { [kind |-> "packets", obs |-> "a", ts |-> 1],
      [kind |-> "packets", obs |-> "a", ts |-> 2],
      [kind |-> "status", obs |-> "a", ts |-> 1],
      [kind |-> "anomaly", obs |-> "a", ts |-> 1] }
=============================================================================

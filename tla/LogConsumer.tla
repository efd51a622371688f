---------------------------- MODULE LogConsumer -----------------------------
(***************************************************************************)
(* What ingest and project promise together, apart from how: rows are      *)
(* appended to a log in id order, and a consumer works its way through it  *)
(* without ever stepping over a row.  It may be rewound to the beginning.  *)
(***************************************************************************)
EXTENDS Integers

CONSTANT Ids

VARIABLES committed, consumed

TypeOK ==
    /\ committed \subseteq Ids
    /\ consumed \subseteq committed

Init ==
    /\ committed = {}
    /\ consumed = {}

AppendRows ==
    /\ \E rows \in SUBSET (Ids \ committed) :
          /\ \A old \in committed, new \in rows : old < new
          /\ committed' = committed \cup rows
    /\ UNCHANGED consumed

(* The consumed rows always are the first ones of the log. *)
Consume ==
    /\ \E rows \in SUBSET (committed \ consumed) :
          /\ \A i \in consumed \cup rows, j \in committed \ (consumed \cup rows) : i < j
          /\ consumed' = consumed \cup rows
    /\ UNCHANGED committed

Rewind ==
    /\ consumed' = {}
    /\ UNCHANGED committed

Next == AppendRows \/ Consume \/ Rewind

Spec == Init /\ [][Next]_<<committed, consumed>>
=============================================================================

---------------------------- MODULE MCEventFlow -----------------------------
(* Small instances of EventFlow; the replicas are interchangeable. *)
EXTENDS EventFlow, TLC

Symmetry == Permutations(Replica)
=============================================================================

----------------------------- MODULE MCCluster -----------------------------
(***************************************************************************)
(* Instances of Cluster for TLC.                                           *)
(***************************************************************************)
EXTENDS Cluster, TLC

CONSTANTS a, b, c

\* b runs after a.
Chain == [n \in Nodes |-> IF n = b THEN {a} ELSE {}]

ServerSymmetry == Permutations(Servers)

============================================================================

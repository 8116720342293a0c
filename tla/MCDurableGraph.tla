--------------------------- MODULE MCDurableGraph ---------------------------
(* Small instances of DurableGraph for TLC. *)
EXTENDS DurableGraph, TLC

CONSTANTS x1, v1

(* The first extraction is clean for the first version of the order. *)
CleanPairs == {<<x1, v1>>}

Symmetry == Permutations(Executors)
=============================================================================

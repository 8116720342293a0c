---------------------------- MODULE MCIngestion ----------------------------
(* Small instances of Ingestion for TLC. *)
EXTENDS Ingestion, TLC

Symmetry == Permutations(Clients) \cup Permutations(Keys)
                \cup Permutations(Contents)
=============================================================================

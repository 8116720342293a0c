--------------------------- MODULE MCAttemptStore ---------------------------
(* Small instances of AttemptStore for TLC. *)
EXTENDS AttemptStore, TLC

Symmetry == Permutations(Workers) \cup Permutations(Keys)
=============================================================================

--------------------------- MODULE MCSearchThreads ---------------------------
(* Small instances of SearchThreads for TLC.                               *)
EXTENDS SearchThreads, TLC

Symmetry == Permutations(Workers) \cup Permutations(EvalThreads)

=============================================================================

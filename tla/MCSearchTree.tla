---------------------------- MODULE MCSearchTree ----------------------------
(* Small instances of SearchTree for TLC.                                  *)
EXTENDS SearchTree, TLC

Symmetry == Permutations(Workers) \cup Permutations(Moves)

=============================================================================

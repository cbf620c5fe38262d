------------------------- MODULE MCThreadAssignments ------------------------
(* Three threads compete for a stage with one slot and a stage with two.   *)
EXTENDS ThreadAssignments, TLC

MCMaxConcurrency == [s \in Stage |-> s + 1]

Symmetry == Permutations(Threads)
=============================================================================

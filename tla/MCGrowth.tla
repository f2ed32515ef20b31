------------------------------ MODULE MCGrowth ------------------------------
(* Instances of Growth for TLC. *)
EXTENDS Growth, TLC

Symmetry == Permutations(Worker) \cup Permutations(Pig) \cup Permutations(Look)
=============================================================================

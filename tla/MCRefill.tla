------------------------------ MODULE MCRefill ------------------------------
(* Instances of Refill for TLC. *)
EXTENDS Refill, TLC

Symmetry == Permutations(Request) \cup Permutations(Worker)
=============================================================================

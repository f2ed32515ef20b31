---------------------------- MODULE MCProtection ----------------------------
(* Instances of Protection for TLC. *)
EXTENDS Protection, TLC

Symmetry == Permutations(Client)
=============================================================================

---------------------------- MODULE MCGathering ----------------------------
(***************************************************************************)
(* Instances of Gathering for TLC.                                         *)
(***************************************************************************)
EXTENDS Gathering, TLC

Symmetry == Permutations(Proc) \cup Permutations(User) \cup Permutations(Group)
=============================================================================

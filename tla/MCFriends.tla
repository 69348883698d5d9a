----------------------------- MODULE MCFriends -----------------------------
(***************************************************************************)
(* Instances of Friends for TLC.                                           *)
(***************************************************************************)
EXTENDS Friends, TLC

CONSTANTS p1, p2

Symmetry == Permutations(Player)
=============================================================================

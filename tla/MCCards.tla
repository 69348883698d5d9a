------------------------------ MODULE MCCards ------------------------------
(***************************************************************************)
(* Instances of Cards for TLC.                                             *)
(***************************************************************************)
EXTENDS Cards, TLC

CONSTANTS p1, p2, c1, c2, c3

Symmetry == Permutations(Card)
=============================================================================

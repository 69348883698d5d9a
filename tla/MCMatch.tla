------------------------------ MODULE MCMatch ------------------------------
(* The instances of Match that TLC checks.                                 *)
EXTENDS Match, TLC

CONSTANTS p1, p2, p3

\* Players who can do the same are interchangeable.
Symmetry == Permutations(Restless) \cup Permutations(Player \ Restless)
=============================================================================

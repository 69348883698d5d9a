----------------------------- MODULE MCAccounts -----------------------------
(***************************************************************************)
(* Instances of Accounts for TLC.                                          *)
(***************************************************************************)
EXTENDS Accounts, TLC

CONSTANTS A, o1, o2, o3, c1, c2

OwnerOne == [o \in Object |-> A]
Symmetry == Permutations(Object) \cup Permutations(Change)
=============================================================================

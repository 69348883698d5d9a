----------------------------- MODULE MCSquares -----------------------------
(***************************************************************************)
(* Instances of Squares for TLC.                                           *)
(***************************************************************************)
EXTENDS Squares, TLC

CONSTANTS A, B, a1, a2, b1, x, y, z

\* Two accounts that log in once, and two of which the first logs in twice.
PairOwner == a1 :> A @@ b1 :> B
TwiceOwner == a1 :> A @@ a2 :> A @@ b1 :> B

\* Two numbers, and three Square objects that may carry each.
Squares2x3 == {1, 2} \X {x, y, z}
IdOfPair == [s \in Squares2x3 |-> s[1]]

\* The objects of a number are interchangeable: which of the unused ones is made
\* does not matter.
Symmetry == Permutations({x, y, z})
=============================================================================

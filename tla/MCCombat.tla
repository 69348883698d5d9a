------------------------------ MODULE MCCombat ------------------------------
(***************************************************************************)
(* Instances of Combat for TLC.                                            *)
(***************************************************************************)
EXTENDS Combat, TLC

CONSTANTS p1, p2, p3

MCOrder == <<p1, p2, p3>>
MCOf == (p1 :> {11, 12}) @@ (p2 :> {2}) @@ (p3 :> {3})
\* In Protect The Essence the one who comes back hurts the other of his team, who
\* outlives his object.
MCHarmful == ("PTE" :> {p1}) @@ ("VIP" :> {p3})
MCMortal == ("PTE" :> {p2}) @@ ("VIP" :> {p1, p2})
MCCarrying == ("PTE" :> {p1, p2, p3}) @@ ("VIP" :> {})
MCTeamOf == (p1 :> 1) @@ (p2 :> 1) @@ (p3 :> 2)
=============================================================================

---------------------------- MODULE Friendship -----------------------------
(***************************************************************************)
(* What QPang Essence promises of friendship: two become friends because   *)
(* one asked and the other accepted, and by nothing else; as long as one   *)
(* asks the other neither asks again, nor do friends; and either may end   *)
(* it.  Two may be torn apart, and nothing is promised of them any more.   *)
(***************************************************************************)
CONSTANT Player

VARIABLES
    asked,     \* who asked whom, and got no answer yet
    befriended,
    torn       \* who was torn apart

vars == <<asked, befriended, torn>>

Init == asked = {} /\ befriended = {} /\ torn = {}

Ask(p, q) ==
    /\ {p, q} \notin befriended \cup torn
    /\ <<p, q>> \notin asked /\ <<q, p>> \notin asked
    /\ asked' = asked \cup {<<p, q>>}
    /\ UNCHANGED <<befriended, torn>>

Accept(p, q) ==
    /\ <<q, p>> \in asked
    /\ asked' = asked \ {<<q, p>>}
    /\ befriended' = befriended \cup {{p, q}}
    /\ UNCHANGED torn

\* By who asked, or by who was asked.
TakeBack(p, q) ==
    /\ <<p, q>> \in asked
    /\ asked' = asked \ {<<p, q>>}
    /\ UNCHANGED <<befriended, torn>>

Part(p, q) ==
    /\ {p, q} \in befriended
    /\ befriended' = befriended \ {{p, q}}
    /\ UNCHANGED <<asked, torn>>

Tear ==
    /\ torn' \in SUBSET SUBSET Player /\ torn \subseteq torn'
    /\ asked' = {a \in asked : {a[1], a[2]} \notin torn'}
    /\ befriended' = befriended \ torn'

Next ==
    \/ \E p, q \in Player : Ask(p, q) \/ Accept(p, q) \/ TakeBack(p, q) \/ Part(p, q)
    \/ Tear

Spec == Init /\ [][Next]_vars
=============================================================================

----------------------------- MODULE Ownership -----------------------------
(***************************************************************************)
(* What the inventories of QPang Essence promise of a card: it is sold     *)
(* when it is nobody's, has one owner from then on, who may give it to     *)
(* another or delete it, and is a gift until the one who got it opens it.  *)
(* A card may go astray, and nothing is promised of it from then on.       *)
(***************************************************************************)
CONSTANTS Player, Card, None

VARIABLES
    owner,     \* of each card, and whether it is opened
    astray     \* the cards that went astray

vars == <<owner, astray>>

Own(p) == [owner |-> p, opened |-> TRUE]
Gift(p) == [owner |-> p, opened |-> FALSE]

Init == owner = [c \in Card |-> None] /\ astray = {}

\* Cards are sold together; of those for which the buyer has no place nothing is
\* promised.
Sell(p) ==
    \E new \in SUBSET (Card \ astray), missing \in SUBSET Card :
        /\ missing \subseteq new
        /\ \A c \in new : owner[c] = None
        /\ owner' = [c \in Card |-> IF c \in new \ missing THEN Own(p) ELSE owner[c]]
        /\ astray' = astray \cup missing

Give(p, q, c) ==
    /\ p # q
    /\ owner[c] = Own(p)
    /\ owner' = [owner EXCEPT ![c] = Gift(q)]
    /\ UNCHANGED astray

Open(p, c) ==
    /\ owner[c] = Gift(p)
    /\ owner' = [owner EXCEPT ![c] = Own(p)]
    /\ UNCHANGED astray

Delete(p, c) ==
    /\ owner[c] = Own(p)
    /\ owner' = [owner EXCEPT ![c] = None]
    /\ UNCHANGED astray

GoAstray ==
    \E some \in SUBSET Card :
        /\ owner' = [c \in Card |-> IF c \in some THEN None ELSE owner[c]]
        /\ astray' = astray \cup some

Next ==
    \/ \E p \in Player : Sell(p)
    \/ \E p \in Player, c \in Card : Open(p, c) \/ Delete(p, c)
    \/ \E p, q \in Player, c \in Card : Give(p, q, c)
    \/ GoAstray

Spec == Init /\ [][Next]_vars
=============================================================================

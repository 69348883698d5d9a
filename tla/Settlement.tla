----------------------------- MODULE Settlement -----------------------------
(***************************************************************************)
(* What a match of QPang Essence promises those who take part in it: when  *)
(* it ends, each is settled exactly once, be he still in it or gone, and   *)
(* nobody is settled at any other moment or without having taken part.     *)
(* Being settled means what RoomSessionPlayer::stop does: wear of the      *)
(* items, statistics, experience and the save of the account.              *)
(***************************************************************************)
EXTENDS Naturals

CONSTANT Player

VARIABLES
    on,        \* a match is under way
    part,      \* what each player is to it: "out", "in" or "left"
    settled    \* how often each was settled in it, or in the last one

vars == <<on, part, settled>>

Out == [p \in Player |-> "out"]
None == [p \in Player |-> 0]

Init == on = FALSE /\ part = Out /\ settled = None

Begin ==
    /\ ~on
    /\ on' = TRUE
    /\ settled' = None
    /\ UNCHANGED part

\* Entering, or coming back.
TakePart(p) ==
    /\ on
    /\ part[p] # "in"
    /\ part' = [part EXCEPT ![p] = "in"]
    /\ UNCHANGED <<on, settled>>

\* A player who joins the room again without having left the match, and is
\* made to spectate, gives up his part.
GiveUp(p) ==
    /\ part[p] = "in"
    /\ part' = [part EXCEPT ![p] = "out"]
    /\ UNCHANGED <<on, settled>>

Depart(p) ==
    /\ part[p] = "in"
    /\ part' = [part EXCEPT ![p] = "left"]
    /\ UNCHANGED <<on, settled>>

\* The end may come with a departure.
End ==
    /\ on
    /\ on' = FALSE
    /\ part' = Out
    /\ \E last \in {part} \cup
                   {[part EXCEPT ![p] = "left"] : p \in {q \in Player : part[q] = "in"}} :
          settled' = [p \in Player |-> IF last[p] = "out" THEN 0 ELSE 1]

\* The room was emptied by spectators: the match is forgotten with it.
Abandon ==
    /\ on
    /\ \A p \in Player : part[p] # "in"
    /\ on' = FALSE
    /\ part' = Out
    /\ UNCHANGED settled

Next ==
    \/ Begin
    \/ \E p \in Player : TakePart(p) \/ GiveUp(p) \/ Depart(p)
    \/ End
    \/ Abandon

Spec == Init /\ [][Next]_vars
=============================================================================

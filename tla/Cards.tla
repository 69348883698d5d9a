------------------------------- MODULE Cards -------------------------------
(***************************************************************************)
(* The cards of the players: InventoryManager, ShopManager::buy, the crane *)
(* and the handlers of the lobby that call them.                           *)
(*                                                                         *)
(* What a player has is in memory; the table player_items follows, some of *)
(* it at once (what is bought, drawn or deleted), some of it through the   *)
(* queue of DatabaseDispatcher (what is given and opened).  What he wears  *)
(* is saved through the queue too, but only when a round or he himself is  *)
(* finished or he makes a gift, and a card that player_equipment refers to *)
(* cannot be deleted.  Whoever logs in, or is looked up, is read from the  *)
(* tables, whatever is still queued.                                       *)
(***************************************************************************)
EXTENDS Naturals, Sequences, FiniteSets

CONSTANTS
    Player,
    Card,
    Space,           \* places for cards and gifts, 200
    GiftSpace,       \* and for gifts, 5
    Draws,           \* the numbers of cards that the crane sells at once
    Slots,           \* how many cards a player wears at most
    Wearer,          \* who wears any
    QueueBound,      \* the longest queue of writes considered
    AstrayBound,     \* the most cards that go astray, see reread and strayed
    None

\* Numbers of rows have a width; and no row is what stands for the lack of one.
ASSUME CardAssumption == IsFiniteSet(Card) /\ None \notin [owner : Player, opened : BOOLEAN]
ASSUME SpaceAssumption == Space \in Nat /\ GiftSpace \in Nat /\ Slots \in Nat
ASSUME WearerAssumption == Wearer \subseteq Player
ASSUME DrawsAssumption == Draws \subseteq Nat \ {0}

VARIABLES
    loaded,          \* whose object is in memory, online or cached
    cards,           \* InventoryManager::m_cards
    gifts,           \* InventoryManager::m_gifts
    worn,            \* the cards in EquipmentManager::m_equips
    rows,            \* the table player_items
    wornRows,        \* the table player_equipment
    queue,           \* DatabaseDispatcher::m_queries
    reread,          \* history: cards read while a write about them was queued
    strayed          \* history: cards whose row did not follow, see below

memory == <<cards, gifts, worn>>
tables == <<rows, wornRows>>
history == <<reread, strayed>>
vars == <<loaded, memory, tables, queue, history>>

Nobodys == [p \in Player |-> {}]
Init ==
    /\ loaded = {}
    /\ cards = Nobodys /\ gifts = Nobodys /\ worn = Nobodys
    /\ rows = [c \in Card |-> None] /\ wornRows = Nobodys
    /\ queue = <<>>
    /\ reread = {} /\ strayed = {}

-----------------------------------------------------------------------------
(* The database                                                            *)

Give(c, p) == [do |-> "give", who |-> p, what |-> {c}]
Open(c, p) == [do |-> "open", who |-> p, what |-> {c}]
\* EquipmentManager::save.
Save(p) == [do |-> "save", who |-> p, what |-> worn[p]]

Dispatch(writes) ==
    /\ Len(queue) + Len(writes) <= QueueBound
    /\ queue' = queue \o writes

\* The cards of which a write changes something.
About(w) ==
    IF w.do = "save" THEN (w.what \ wornRows[w.who]) \cup (wornRows[w.who] \ w.what) ELSE w.what
\* What went astray with a step, and how much of it is considered.
Astray(read, stray) ==
    /\ reread' = reread \cup read
    /\ strayed' = strayed \cup stray
Bearable(astray) == Cardinality(reread \cup strayed \cup astray) <= AstrayBound

Queued == UNION {About(queue[i]) : i \in 1..Len(queue)}

\* A gift that is opened already.
ExecutedOpened(table, w) ==
    [c \in Card |->
        IF w.do = "save" \/ c \notin w.what \/ table[c] = None THEN table[c]
        ELSE IF w.do = "give" THEN [table[c] EXCEPT !.owner = w.who]
        ELSE [table[c] EXCEPT !.opened = TRUE]]
\* The table player_items after a write: neither update inserts a row.
Executed(table, w) ==
    [c \in Card |->
        IF w.do = "save" \/ c \notin w.what \/ table[c] = None THEN table[c]
        ELSE IF w.do = "give" THEN [owner |-> w.who, opened |-> FALSE]
        ELSE [table[c] EXCEPT !.opened = TRUE]]

\* A step of DatabaseDispatcher::run.  What is worn is not saved when one of the
\* cards has no row.
Execute ==
    /\ queue # <<>>
    /\ LET w == Head(queue)
           refused == w.do = "save" /\ \E c \in w.what : rows[c] = None
       IN /\ rows' = Executed(rows, w)
          /\ wornRows' = IF w.do = "save" /\ ~refused
                         THEN [wornRows EXCEPT ![w.who] = w.what] ELSE wornRows
          /\ Astray({}, IF refused THEN About(w) ELSE {})
    /\ queue' = Tail(queue)
    /\ UNCHANGED <<loaded, memory>>

Of(p, opened) == {c \in Card : rows[c] = [owner |-> p, opened |-> opened]}

\* InventoryManager::initialize and EquipmentManager::initialize, for a login or
\* a lookup.
Load(p) ==
    /\ loaded' = loaded \cup {p}
    /\ cards' = [cards EXCEPT ![p] = Of(p, TRUE)]
    /\ gifts' = [gifts EXCEPT ![p] = Of(p, FALSE)]
    /\ worn' = [worn EXCEPT ![p] = wornRows[p]]
    /\ Queued = {} \/ Bearable(Queued)
    /\ Astray(Queued, {})
    /\ UNCHANGED <<tables, queue>>

Forget(p) ==
    /\ cards' = [cards EXCEPT ![p] = {}]
    /\ gifts' = [gifts EXCEPT ![p] = {}]
    /\ worn' = [worn EXCEPT ![p] = {}]

\* EquipmentManager::close; and the object is gone.
Close(p) ==
    /\ p \in loaded
    /\ loaded' = loaded \ {p}
    /\ Forget(p)
    /\ Dispatch(<<Save(p)>>)
    /\ UNCHANGED <<tables, history>>

\* The server is stopped and started again.
Restart ==
    /\ loaded' = {}
    /\ cards' = Nobodys /\ gifts' = Nobodys /\ worn' = Nobodys
    /\ queue' = <<>>
    /\ Queued = {} \/ Bearable(Queued)
    /\ Astray(Queued, {})
    /\ UNCHANGED tables

-----------------------------------------------------------------------------
(* The handlers                                                            *)

Held(p) == cards[p] \cup gifts[p]
HasSpace(p) == Cardinality(Held(p)) < Space
HasGiftSpace(p) == Cardinality(gifts[p]) < GiftSpace

\* Numbers of rows are not used again.
Unused ==
    {c \in Card : /\ rows[c] = None /\ c \notin Queued \cup reread \cup strayed
                  /\ \A p \in Player : c \notin cards[p] \cup gifts[p]}

Inserted(new, p) ==
    rows' = [c \in Card |-> IF c \in new THEN [owner |-> p, opened |-> TRUE] ELSE rows[c]]

\* ShopManager::buy.
Buy(p) ==
    /\ p \in loaded
    /\ HasSpace(p)
    /\ \E c \in Unused :
        /\ Inserted({c}, p)
        /\ cards' = [cards EXCEPT ![p] = @ \cup {c}]
    /\ UNCHANGED <<loaded, gifts, worn, wornRows, queue, history>>

\* UseCraneEvent: the gifts are not counted before the rows are inserted, but
\* addCard does.
UseCraneUncounted(p) ==
    /\ p \in loaded
    /\ \E new \in SUBSET Unused :
        /\ Cardinality(new) \in Draws
        /\ Inserted(new, p)
        /\ cards' = [cards EXCEPT ![p] = @ \cup new]
    /\ UNCHANGED <<loaded, gifts, worn, wornRows, queue, history>>
UseCrane(p) ==
    /\ p \in loaded
    /\ \E new \in SUBSET Unused :
        /\ Cardinality(new) \in Draws
        /\ Cardinality(cards[p]) + Cardinality(new) < Space
        /\ Inserted(new, p)
        /\ \E kept \in SUBSET new :
            /\ kept = new \/ Cardinality(Held(p) \cup kept) = Space
            /\ Cardinality(Held(p) \cup kept) <= Space
            /\ cards' = [cards EXCEPT ![p] = @ \cup kept]
            /\ kept = new \/ Bearable(new \ kept)
            /\ Astray({}, new \ kept)
    /\ UNCHANGED <<loaded, gifts, worn, wornRows, queue>>

\* InventoryManager::deleteCard: the card is out of memory before the row is
\* deleted, which fails when a player_equipment refers to it, and finds nothing
\* when the row is not his yet.
Delete(p, c) ==
    /\ c \in cards[p] \ worn[p]
    /\ cards' = [cards EXCEPT ![p] = @ \ {c}]
    /\ IF rows[c] # None /\ rows[c].owner = p /\ \A q \in Player : c \notin wornRows[q]
       THEN rows' = [rows EXCEPT ![c] = None] /\ Astray({}, {})
       ELSE UNCHANGED rows /\ Bearable({c}) /\ Astray({}, {c})
    /\ UNCHANGED <<loaded, gifts, worn, wornRows, queue>>

GiftCard(p, q, c) ==
    /\ {p, q} \subseteq loaded /\ p # q
    /\ c \in cards[p] \ worn[p]
    /\ HasSpace(q) /\ HasGiftSpace(q)
    /\ cards' = [cards EXCEPT ![p] = @ \ {c}]
    /\ gifts' = [gifts EXCEPT ![q] = @ \cup {c}]
    /\ Dispatch(<<Give(c, q), Save(p)>>)
    /\ UNCHANGED <<loaded, worn, tables, history>>

\* InventoryManager::openGift.
OpenGiftUnsaved(p, c) ==
    /\ c \in gifts[p]
    /\ gifts' = [gifts EXCEPT ![p] = @ \ {c}]
    /\ cards' = [cards EXCEPT ![p] = @ \cup {c}]
    /\ UNCHANGED <<loaded, worn, tables, queue, history>>
OpenGift(p, c) ==
    /\ c \in gifts[p]
    /\ gifts' = [gifts EXCEPT ![p] = @ \ {c}]
    /\ cards' = [cards EXCEPT ![p] = @ \cup {c}]
    /\ Dispatch(<<Open(c, p)>>)
    /\ UNCHANGED <<loaded, worn, tables, history>>

\* EquipmentManager::setWeapons and setArmor; and unequipItem when a card
\* expires, for which see Rounds.
WearAnything(p, what) ==
    /\ p \in loaded \cap Wearer
    /\ Cardinality(what) <= Slots
    /\ worn' = [worn EXCEPT ![p] = what]
    /\ UNCHANGED <<loaded, cards, gifts, tables, queue, history>>
Wear(p, what) ==
    /\ p \in loaded \cap Wearer
    /\ what \subseteq cards[p] /\ Cardinality(what) <= Slots
    /\ worn' = [worn EXCEPT ![p] = what]
    /\ UNCHANGED <<loaded, cards, gifts, tables, queue, history>>

\* EquipmentManager::finishRound, which saves what is worn.
FinishRound(p) ==
    /\ p \in loaded
    /\ Dispatch(<<Save(p)>>)
    /\ UNCHANGED <<loaded, memory, tables, history>>

Next ==
    \/ Execute \/ Restart
    \/ \E p \in Player : Load(p) \/ Close(p) \/ Buy(p) \/ UseCrane(p) \/ FinishRound(p)
    \/ \E p \in Player, c \in Card : Delete(p, c) \/ OpenGift(p, c)
    \/ \E p, q \in Player, c \in Card : GiftCard(p, q, c)
    \/ \E p \in Player, what \in SUBSET Card : Wear(p, what)

Spec == Init /\ [][Next]_vars

-----------------------------------------------------------------------------
(* Properties                                                              *)

\* Who wears a card has it, although a gift takes it from him in memory before his
\* row in player_equipment lets it go; and what that row, saved through the queue,
\* refers to is there, whatever was deleted at once.
WornHeld ==
    \A p \in Player :
        /\ worn[p] \subseteq cards[p] \cup reread \cup strayed
        /\ \A c \in wornRows[p] : rows[c] # None

\* The table once the queue is worked off.
WillHold ==
    LET after[i \in 0..Len(queue)] == IF i = 0 THEN rows ELSE Executed(after[i - 1], queue[i])
    IN after[Len(queue)]

\* What a player has in memory is what the table will hold, and so nobody holds what
\* another holds, however it was given on; except for what was read too early, a
\* card that the crane sold to a full inventory, and one that was deleted while a
\* row refused it, was not his yet, or was still to be worn.
RowsFollow ==
    \A p \in loaded, c \in Card \ (reread \cup strayed) :
        /\ c \in cards[p] <=> WillHold[c] = [owner |-> p, opened |-> TRUE]
        /\ c \in gifts[p] <=> WillHold[c] = [owner |-> p, opened |-> FALSE]

\* No inventory is fuller than it may be, although the checks come before the
\* rows, and before the gifts of others, unless a stray card was read.
WithinSpace ==
    \A p \in Player :
        /\ Cardinality(Held(p) \ (reread \cup strayed)) <= Space
        /\ Cardinality(gifts[p] \ (reread \cup strayed)) <= GiftSpace

\* Whose a card is, is what the table will say, unless the card went astray.
Owner == [c \in Card |-> IF c \in reread \cup strayed THEN None ELSE WillHold[c]]
O == INSTANCE Ownership WITH owner <- Owner, astray <- reread \cup strayed
\* A card changes hands only as its owner had it do: what each step of a handler, of
\* the queue and of a restart does to memory and the table, comes to a sale, a gift,
\* its opening, a deletion, or to a card that goes astray.
HandedOn == O!Spec
=============================================================================

------------------------------ MODULE Friends ------------------------------
(***************************************************************************)
(* Friends and requests for friendship: FriendManager and the handlers of  *)
(* the lobby that call it.                                                 *)
(*                                                                         *)
(* Each player's manager keeps his side of a relation, and each side has a *)
(* row of its own in the database.  A handler changes one side after the   *)
(* other, in memory at once, in the database through the queue of          *)
(* DatabaseDispatcher; what is in memory is read from the database when    *)
(* the player logs in or is looked up, whatever is still queued.  The      *)
(* handlers run one after the other on the lobby's thread.                 *)
(***************************************************************************)
EXTENDS Naturals, Sequences, FiniteSets

CONSTANTS
    Player,
    Lettered,        \* those whose nickname has a letter, which has two cases
    IncomingSlots,   \* FriendManager::m_incomingSlots
    OutgoingSlots,   \* FriendManager::m_outgoingSlots
    QueueBound,      \* the longest queue of writes considered
    TornBound        \* the most pairs torn by a race, see below

ASSUME LetteredAssumption == Lettered \subseteq Player
ASSUME SlotsAssumption == IncomingSlots \in Nat /\ OutgoingSlots \in Nat

\* The column status.
Accepted == 1
Sent == 2
Received == 4
Status == {Accepted, Sent, Received}

VARIABLES
    loaded,          \* whose object is in memory, online or cached
    friends,         \* FriendManager::m_friends
    outgoing,        \* FriendManager::m_outgoingFriends
    incoming,        \* FriendManager::m_incomingFriends
    rows,            \* the table of the database
    queue,           \* DatabaseDispatcher::m_queries
    torn             \* history: pairs read while their rows were yet to be written

memory == <<friends, outgoing, incoming>>
vars == <<loaded, memory, rows, queue, torn>>

Row == [from : Player, to : Player, status : Status]
Init ==
    /\ loaded = {}
    /\ friends = [p \in Player |-> {}]
    /\ outgoing = [p \in Player |-> {}]
    /\ incoming = [p \in Player |-> {}]
    /\ rows = {} /\ queue = <<>> /\ torn = {}

-----------------------------------------------------------------------------
(* The database                                                            *)

RowOf(p, q, s) == [from |-> p, to |-> q, status |-> s]
Insert(p, q, s) == [do |-> "insert", row |-> RowOf(p, q, s)]
SetState(p, q, s) == [do |-> "update", row |-> RowOf(p, q, s)]
Delete(p, q) == [do |-> "delete", row |-> RowOf(p, q, Accepted)]

Same(r, s) == r.from = s.from /\ r.to = s.to
About(table, r) == {s \in table : Same(s, r)}

ExecutedUnkeyed(table, w) ==
    CASE w.do = "insert" -> table \cup {w.row}
      [] w.do = "update" -> {IF s.from = w.row.from THEN [s EXCEPT !.status = w.row.status] ELSE s : s \in table}
      [] w.do = "delete" -> table \ About(table, w.row)
Executed(table, w) ==
    CASE w.do = "insert" -> table \cup {w.row}
      [] w.do = "update" -> {IF Same(s, w.row) THEN w.row ELSE s : s \in table}
      [] w.do = "delete" -> table \ About(table, w.row)

Dispatch(writes) ==
    /\ Len(queue) + Len(writes) <= QueueBound
    /\ queue' = queue \o writes

\* A step of DatabaseDispatcher::run.
Execute ==
    /\ queue # <<>>
    /\ rows' = Executed(rows, Head(queue))
    /\ queue' = Tail(queue)
    /\ UNCHANGED <<loaded, memory, torn>>

Tears(pairs) ==
    /\ torn' = torn \cup pairs
    /\ Cardinality(torn') <= TornBound

Queued(p) == {{p, queue[i].row.to} : i \in {j \in 1..Len(queue) : queue[j].row.from = p}}

InitializeFriendsOnly(p) ==
    LET of(s) == {r.to : r \in {x \in rows : x.from = p /\ x.status = s}}
    IN /\ friends' = [friends EXCEPT ![p] = of(Accepted)]
       /\ UNCHANGED <<outgoing, incoming>>
\* FriendManager::initialize.
Initialize(p) ==
    LET of(s) == {r.to : r \in {x \in rows : x.from = p /\ x.status = s}}
    IN /\ friends' = [friends EXCEPT ![p] = of(Accepted)]
       /\ outgoing' = [outgoing EXCEPT ![p] = of(Sent)]
       /\ incoming' = [incoming EXCEPT ![p] = of(Received)]

\* A login makes a new object; so does a lookup of somebody not in memory.
Load(p) ==
    /\ Initialize(p)
    /\ loaded' = loaded \cup {p}
    /\ Tears(Queued(p))
    /\ UNCHANGED <<rows, queue>>

\* The server is stopped and started again.
Restart ==
    /\ loaded' = {}
    /\ friends' = [p \in Player |-> {}]
    /\ outgoing' = [p \in Player |-> {}]
    /\ incoming' = [p \in Player |-> {}]
    /\ queue' = <<>>
    /\ Tears(UNION {Queued(p) : p \in Player})
    /\ UNCHANGED rows

-----------------------------------------------------------------------------
(* The handlers.  p sent the packet, q is the player it names, who has     *)
(* been looked up.                                                         *)

Both(p, q) == {p, q} \subseteq loaded

ContainsFriend(p, q) == q \in friends[p]
Contains(p, q) == q \in friends[p] \cup outgoing[p] \cup incoming[p]

HasOutgoingSlotsLeft(p) == Cardinality(outgoing[p]) < OutgoingSlots
HasIncomingSlotsLeftOrOne(p) == Cardinality(incoming[p]) <= IncomingSlots
HasIncomingSlotsLeft(p) == Cardinality(incoming[p]) < IncomingSlots

\* SendFriendRequestEvent.  Whether it is to oneself is seen by the nickname as
\* it is typed, and the player is found by it in lower case.
SendRequest(p, q) ==
    /\ Both(p, q)
    /\ p # q \/ p \in Lettered
    /\ HasOutgoingSlotsLeft(p) /\ HasIncomingSlotsLeft(q)
    /\ ~Contains(p, q) /\ ~Contains(q, p)
    /\ outgoing' = [outgoing EXCEPT ![p] = @ \cup {q}]
    /\ incoming' = [incoming EXCEPT ![q] = @ \cup {p}]
    /\ Dispatch(<<Insert(p, q, Sent), Insert(q, p, Received)>>)
    /\ UNCHANGED <<loaded, friends, rows, torn>>

\* acceptIncoming, then onOutgoingAccepted on the other side.  Neither looks at
\* the slots for friends.
Accept(p, q) ==
    LET mine == q \in incoming[p]
        theirs == p \in outgoing[q]
    IN /\ Both(p, q)
       /\ mine \/ theirs
       /\ friends' = [x \in Player |->
                        friends[x] \cup (IF mine /\ x = p THEN {q} ELSE {})
                                   \cup (IF theirs /\ x = q THEN {p} ELSE {})]
       /\ incoming' = [incoming EXCEPT ![p] = @ \ {q}]
       /\ outgoing' = [outgoing EXCEPT ![q] = @ \ {p}]
       /\ Dispatch((IF mine THEN <<SetState(p, q, Accepted)>> ELSE <<>>)
                   \o (IF theirs THEN <<SetState(q, p, Accepted)>> ELSE <<>>))
       /\ UNCHANGED <<loaded, rows, torn>>

\* removeIncoming of p and removeOutgoing of q: p denies, or q cancels and the
\* order of the two is the other.
TakeBack(p, q, order) ==
    LET mine == IF q \in incoming[p] THEN <<Delete(p, q)>> ELSE <<>>
        theirs == IF p \in outgoing[q] THEN <<Delete(q, p)>> ELSE <<>>
    IN /\ Both(p, q)
       /\ mine # <<>> \/ theirs # <<>>
       /\ incoming' = [incoming EXCEPT ![p] = @ \ {q}]
       /\ outgoing' = [outgoing EXCEPT ![q] = @ \ {p}]
       /\ Dispatch(IF order = "mine" THEN mine \o theirs ELSE theirs \o mine)
       /\ UNCHANGED <<loaded, friends, rows, torn>>
DenyAlone(p, q) ==
    /\ Both(p, q)
    /\ q \in incoming[p]
    /\ incoming' = [incoming EXCEPT ![p] = @ \ {q}]
    /\ Dispatch(<<Delete(p, q)>>)
    /\ UNCHANGED <<loaded, friends, outgoing, rows, torn>>
Deny(p, q) == TakeBack(p, q, "mine")
Cancel(q, p) == TakeBack(p, q, "theirs")

\* remove does not look whether q is a friend, so that the row of a mere request
\* goes while the request stays; onRemoved does.
Remove(p, q) ==
    LET theirs == p \in friends[q] /\ p # q
    IN /\ Both(p, q)
       /\ friends' = [x \in Player |-> CASE x = p -> friends[p] \ {q}
                                          [] x = q -> friends[q] \ {p}
                                          [] OTHER -> friends[x]]
       /\ Dispatch(<<Delete(p, q)>> \o (IF theirs THEN <<Delete(q, p)>> ELSE <<>>))
       /\ Tears(IF Contains(p, q) /\ q \notin friends[p] THEN {{p, q}} ELSE {})
       /\ UNCHANGED <<loaded, outgoing, incoming, rows>>

Next ==
    \/ Execute \/ Restart
    \/ \E p \in Player : Load(p)
    \/ \E p, q \in Player :
        SendRequest(p, q) \/ Accept(p, q) \/ Deny(p, q) \/ Cancel(p, q) \/ Remove(p, q)

Spec == Init /\ [][Next]_vars

-----------------------------------------------------------------------------
(* Properties                                                              *)

\* The two sides agree: friends are friends of each other, and who has sent a
\* request is the one it was received from.
Mutual ==
    \A p, q \in loaded : {p, q} \notin torn =>
        /\ q \in friends[p] <=> p \in friends[q]
        /\ q \in outgoing[p] <=> p \in incoming[q]

\* Requests keep to their slots, also after players are read again.
WithinSlots ==
    \A p \in Player \ UNION torn :
        Cardinality(outgoing[p]) <= OutgoingSlots /\ Cardinality(incoming[p]) <= IncomingSlots

\* The table once the queue is worked off.
WillHold ==
    LET after[i \in 0..Len(queue)] == IF i = 0 THEN rows ELSE Executed(after[i - 1], queue[i])
    IN after[Len(queue)]

\* What is in memory is what the database will hold.
RowsFollow ==
    \A p \in loaded, q \in Player : {p, q} \notin torn =>
        {r.status : r \in About(WillHold, RowOf(p, q, Accepted))} =
            (IF q \in friends[p] THEN {Accepted} ELSE {})
            \cup (IF q \in outgoing[p] THEN {Sent} ELSE {})
            \cup (IF q \in incoming[p] THEN {Received} ELSE {})

\* The rows of two players agree once the queue is worked off, whoever is in
\* memory: after a restart there is nothing else.
RowsMutual ==
    \A r \in WillHold : {r.from, r.to} \notin torn =>
        RowOf(r.to, r.from, CASE r.status = Accepted -> Accepted
                              [] r.status = Sent -> Received
                              [] r.status = Received -> Sent) \in WillHold

\* Who asked whom, and who are friends, by what the table will say of either of them,
\* unless they are torn.
Asked ==
    LET open == {r \in WillHold : r.status # Accepted /\ {r.from, r.to} \notin torn}
    IN {IF r.status = Sent THEN <<r.from, r.to>> ELSE <<r.to, r.from>> : r \in open}
Befriended == {{r.from, r.to} : r \in {x \in WillHold : x.status = Accepted}} \ torn
F == INSTANCE Friendship WITH asked <- Asked, befriended <- Befriended
\* What the handlers, the queue, logins and restarts do to the two sides of a pair and
\* to its two rows comes to one asking, being accepted or not, and parting: whichever
\* row one looks at, nobody becomes a friend whom he did not ask or accept.
ByConsent == F!Spec
=============================================================================

------------------------------ MODULE Squares ------------------------------
(***************************************************************************)
(* The squares of QPang Essence, the halls players walk about in between   *)
(* matches: SquareManager's list of Square objects, and Square's list of   *)
(* players.                                                                *)
(*                                                                         *)
(* Two threads work on them.  The square thread handles the connections to *)
(* the square server: JOIN_SQUARE, and the loss of a connection.  The lobby*)
(* thread closes a Player, by Player::close, when his lobby connection is  *)
(* lost or his account logs in again.  Each list has a mutex of its own,   *)
(* held for single operations only, so that the threads interleave between *)
(* one operation and the next: every step of a job below is one of these.  *)
(*                                                                         *)
(* Square::m_players is keyed by account; what is sent to the clients is   *)
(* left out.                                                               *)
(***************************************************************************)
EXTENDS Naturals, FiniteSets

CONSTANTS
    Account,      \* player ids
    Object,       \* Player objects: one for each login
    Owner,        \* the account of each
    Number,       \* the numbers of squares in use at a time
    Square,       \* Square objects
    Id,           \* Square::m_id
    Late,         \* Player objects whose connection to the square server may
                  \* come only after they were closed
    Capacity,     \* Square::m_capacity
    Crowd,        \* the number of players getAvailableSquare finds too many
    None

ASSUME OwnerAssumption == Owner \in [Object -> Account]
ASSUME NumbersAssumption ==
    /\ Number \subseteq Nat \ {0} /\ Id \in [Square -> Number]
    /\ \E s \in Square : \A i \in Number : Id[s] <= i
ASSUME LimitsAssumption == Capacity \in Nat \ {0} /\ Crowd \in 1..Capacity
ASSUME LateAssumption == Late \subseteq Object
ASSUME NullAssumption == None \notin Object \cup Square

Thread == {"lobby", "square"}
NoNumber == 0

VARIABLES
    listed,     \* SquareManager::m_squares
    players,    \* Square::m_players
    at,         \* the square of Player::m_squarePlayer, which may have expired
    online,     \* the Player objects that are not closed: Player::m_isClosed
    current,    \* the Player object Game::getPlayer finds for an account
    conn,       \* the Player objects with an open connection to the square server
    job,        \* what each thread is doing
    raced,      \* history: Player objects that were closed while they joined a
                \* square, or connected to the square server when closed
    contended   \* history: the numbers of squares both threads dealt with at once

squareVars == <<listed, players, at>>
playerVars == <<online, current, conn, raced>>
vars == <<squareVars, playerVars, job, contended>>

Listed == {i \in Number : listed[i] # None}

Pc == {"look", "erase", "empty", "last", "delete", "leave", "find", "check", "insert", "enter"}
Idle == [do |-> "idle", obj |-> None, sq |-> None, to |-> NoNumber, pc |-> "look"]
\* SquareManager::SquareManager creates the first square.
Init ==
    /\ LET s == CHOOSE q \in Square : \A i \in Number : Id[q] <= i
       IN listed = [i \in Number |-> IF i = Id[s] THEN s ELSE None]
    /\ players = [s \in Square |-> {}]
    /\ at = [o \in Object |-> None]
    /\ online = {}
    /\ current = [a \in Account |-> None]
    /\ conn = {}
    /\ job = [t \in Thread |-> Idle]
    /\ raced = {} /\ contended = {}

-----------------------------------------------------------------------------
(* Jobs                                                                    *)

Free(t) == job[t] = Idle
At(t, pc) == job[t].pc = pc /\ job[t] # Idle
Obj(t) == job[t].obj
Sq(t) == job[t].sq
Joins(t) == job[t].do = "join"

\* The thread t goes on with j.
Proceed(t, j) == job' = [job EXCEPT ![t] = j]
GoTo(t, pc) == Proceed(t, [job[t] EXCEPT !.pc = pc])
GoToIn(t, pc, s) == Proceed(t, [job[t] EXCEPT !.pc = pc, !.sq = s])
Adds(t, s) == Proceed(t, [job[t] EXCEPT !.pc = "check", !.sq = s, !.to = NoNumber])

\* After Square::remove: a JOIN_SQUARE goes on, Player::close is done and lets
\* go of the SquarePlayer.
Removed(t) ==
    IF Joins(t)
    THEN GoTo(t, "leave") /\ UNCHANGED at
    ELSE /\ Proceed(t, Idle)
         /\ at' = IF Obj(t) \notin players[Sq(t)] /\ at[Obj(t)] = Sq(t)
                  THEN [at EXCEPT ![Obj(t)] = None] ELSE at

\* The entries of an account in a square.
EntriesOf(o, s) == {q \in players[s] : Owner[q] = Owner[o]}

\* Player::m_squarePlayer expires for the entries that go.
Expired(qs) == [o \in Object |-> IF o \in qs THEN None ELSE at[o]]

\* Player::m_squarePlayer.lock(): Square::m_players owns the SquarePlayer, and a
\* thread that leaves the square holds on to it.
SquareOf(o) ==
    IF \/ at[o] # None /\ o \in players[at[o]]
       \/ \E t \in Thread : /\ Obj(t) = o /\ Sq(t) = at[o]
                            /\ job[t].pc \in {"erase", "empty", "last", "delete", "leave"}
    THEN at[o] ELSE None

-----------------------------------------------------------------------------
(* Logging in, connecting, and being closed                                *)

\* A Player object that nothing of this module refers to.
NewObject(o) ==
    /\ o \notin online \cup conn
    /\ \A s \in Square : o \notin players[s]
    /\ \A t \in Thread : Obj(t) # o

\* Game::createPlayer, which has closed the account's Player object before.
Login(o) ==
    /\ Free("lobby")
    /\ NewObject(o)
    /\ \A q \in online : Owner[q] # Owner[o]
    /\ online' = online \cup {o}
    /\ current' = [current EXCEPT ![Owner[o]] = o]
    /\ at' = Expired({o})
    /\ raced' = raced \ {o}
    /\ UNCHANGED <<listed, players, conn, job>>

\* ConnectRequest.  The Player found may be closed: the lobby connection was
\* lost meanwhile.
ConnectRequest(o) ==
    /\ Free("square")
    /\ o = current[Owner[o]]
    /\ o \in online \cup Late
    /\ conn' = conn \cup {o}
    /\ raced' = IF o \notin online THEN raced \cup {o} ELSE raced
    /\ UNCHANGED <<squareVars, online, current, job>>

\* Player::close, up to the end of its critical section: by the lobby thread
\* when the lobby connection is lost or the account logs in again, by the square
\* thread when the connection to the square is lost or he is disconnected or
\* banned by a command.
Close(t, o) ==
    /\ Free(t)
    /\ o \in online
    /\ online' = online \ {o}
    /\ conn' = conn \ {o}
    /\ raced' = IF \E u \in Thread : Obj(u) = o THEN raced \cup {o} ELSE raced
    /\ Proceed(t, [do |-> "close", obj |-> o, sq |-> None, to |-> NoNumber, pc |-> "look"])
    /\ UNCHANGED <<squareVars, current>>

\* Game::onSquareConnectionClosed for a Player that is closed already.
Disconnect(o) ==
    /\ Free("square")
    /\ o \in conn \ online
    /\ conn' = conn \ {o}
    /\ UNCHANGED <<squareVars, online, current, raced, job>>

\* JOIN_SQUARE for the square with number i, which is looked at only by one who
\* is in a square.
JoinSquare(o, i) ==
    /\ Free("square")
    /\ o \in conn
    /\ Proceed("square", [do |-> "join", obj |-> o, sq |-> None, to |-> i, pc |-> "look"])
    /\ UNCHANGED <<squareVars, playerVars>>

-----------------------------------------------------------------------------
(* The steps of a job                                                      *)

\* Is the player in a square?
LookOnlyToJoin(t) ==
    /\ At(t, "look")
    /\ IF Joins(t)
       THEN IF SquareOf(Obj(t)) = None THEN GoTo(t, "find")
                                       ELSE GoToIn(t, "erase", SquareOf(Obj(t)))
       ELSE Proceed(t, Idle)
    /\ UNCHANGED <<squareVars, playerVars>>
Look(t) ==
    /\ At(t, "look")
    /\ IF SquareOf(Obj(t)) # None THEN GoToIn(t, "erase", SquareOf(Obj(t)))
       ELSE IF Joins(t) THEN GoTo(t, "find")
       ELSE Proceed(t, Idle)
    /\ UNCHANGED <<squareVars, playerVars>>

\* Square::remove: whatever object of the account is there is taken out...
Erase(t) ==
    /\ At(t, "erase")
    /\ players' = [players EXCEPT ![Sq(t)] = @ \ EntriesOf(Obj(t), Sq(t))]
    /\ at' = Expired(EntriesOf(Obj(t), Sq(t)) \ {Obj(t)})
    /\ GoTo(t, "empty")
    /\ UNCHANGED <<listed, playerVars>>

\* ...and an empty square is closed.
Empty(t) ==
    /\ At(t, "empty")
    /\ IF players[Sq(t)] = {} THEN GoTo(t, "last") /\ UNCHANGED at ELSE Removed(t)
    /\ UNCHANGED <<listed, players, playerVars>>

\* SquareManager::close, before its lock...
Last(t) ==
    /\ At(t, "last")
    /\ IF Cardinality(Listed) = 1 THEN Removed(t) ELSE GoTo(t, "delete") /\ UNCHANGED at
    /\ UNCHANGED <<listed, players, playerVars>>

\* ...and under it: the square is erased by its number.
Delete(t) ==
    /\ At(t, "delete")
    /\ listed' = [listed EXCEPT ![Id[Sq(t)]] = None]
    /\ Removed(t)
    /\ UNCHANGED <<players, playerVars>>

\* Player::leaveSquare, and SquareManager::get of the square to join.
Leave(t) ==
    /\ At(t, "leave")
    /\ at' = [at EXCEPT ![Obj(t)] = None]
    /\ LET s == listed[job[t].to]
       IN IF s = None THEN Proceed(t, Idle) ELSE Adds(t, s)
    /\ UNCHANGED <<listed, players, playerVars>>

\* SquareManager::create puts a new square on the list.
CreateUnlisted(s) == UNCHANGED listed
Create(s) == listed' = [listed EXCEPT ![Id[s]] = s]

\* A Square object that nothing refers to yet, or any more.
Fresh(s) ==
    /\ s \notin {listed[i] : i \in Number} /\ players[s] = {}
    /\ \A t \in Thread : Sq(t) # s
    /\ \A o \in Object : at[o] # s

Unused(i) == {s \in Square : Id[s] = i /\ Fresh(s)}

\* SquareManager::getAvailableSquare: the first square that is not crowded, or
\* a new one under the lowest number that is free.
Find(t) ==
    /\ At(t, "find")
    /\ LET open == {i \in Listed : Cardinality(players[listed[i]]) < Crowd}
           Lowest(i, ns) == i \in ns /\ \A j \in ns : i <= j
       IN \/ \E i \in Listed :
                /\ Lowest(i, open)
                /\ Adds(t, listed[i])
                /\ UNCHANGED squareVars
          \/ \E i \in Number :
                /\ open = {} /\ Lowest(i, Number \ Listed)
                /\ Unused(i) # {}
                /\ LET s == CHOOSE q \in Unused(i) : TRUE
                   IN Create(s) /\ Adds(t, s)
                /\ UNCHANGED <<players, at>>
    /\ UNCHANGED playerVars

\* Square::add: is the square full?
CheckBeyondCapacity(t) ==
    /\ At(t, "check")
    /\ IF Cardinality(players[Sq(t)]) > Capacity THEN Proceed(t, Idle) ELSE GoTo(t, "insert")
    /\ UNCHANGED <<squareVars, playerVars>>
Check(t) ==
    /\ At(t, "check")
    /\ IF Cardinality(players[Sq(t)]) >= Capacity THEN Proceed(t, Idle) ELSE GoTo(t, "insert")
    /\ UNCHANGED <<squareVars, playerVars>>

\* The entry of the account is made, or replaced...
Insert(t) ==
    /\ At(t, "insert")
    /\ players' = [players EXCEPT ![Sq(t)] = (@ \ EntriesOf(Obj(t), Sq(t))) \cup {Obj(t)}]
    /\ at' = Expired(EntriesOf(Obj(t), Sq(t)))
    /\ GoTo(t, "enter")
    /\ UNCHANGED <<listed, playerVars>>

\* ...and Player::enterSquare lets the Player know.
EnterUnknown(t) ==
    /\ At(t, "enter")
    /\ Proceed(t, Idle)
    /\ UNCHANGED <<squareVars, playerVars>>
Enter(t) ==
    /\ At(t, "enter")
    /\ at' = [at EXCEPT ![Obj(t)] = Sq(t)]
    /\ Proceed(t, Idle)
    /\ UNCHANGED <<listed, players, playerVars>>

Step ==
    \/ \E o \in Object : Login(o)
    \/ \E o \in Object : ConnectRequest(o)
    \/ \E t \in Thread, o \in Object : Close(t, o)
    \/ \E o \in Object : Disconnect(o)
    \/ \E o \in Object, i \in Number : JoinSquare(o, i)
    \/ \E t \in Thread : Look(t)
    \/ \E t \in Thread : Erase(t)
    \/ \E t \in Thread : Empty(t)
    \/ \E t \in Thread : Last(t)
    \/ \E t \in Thread : Delete(t)
    \/ \E t \in Thread : Leave(t)
    \/ \E t \in Thread : Find(t)
    \/ \E t \in Thread : Check(t)
    \/ \E t \in Thread : Insert(t)
    \/ \E t \in Thread : Enter(t)

\* The numbers of the squares that both threads deal with.
DealtWithByBoth ==
    {i \in Number : \A t \in Thread : Sq(t) # None /\ Id[Sq(t)] = i}

Next == Step /\ contended' = contended \cup DealtWithByBoth'

Spec == Init /\ [][Next]_vars

-----------------------------------------------------------------------------
(* Properties                                                              *)

\* "50 players max": although the check of the capacity and the insertion are
\* apart and without a common lock, no square ever has more.
SquareWithinCapacity == \A s \in Square : Cardinality(players[s]) <= Capacity

\* Whatever the other thread does while he changes squares, a player is in one
\* square at most.
OneSquareEach ==
    \A s, q \in Square : s # q => players[s] \cap players[q] = {}

\* A closed player has left his square, unless he was closed in the middle of
\* joining one, or connected to the square server only then: these are the only
\* ways to stay behind in it.
ClosedPlayersGone ==
    \A s \in Square : \A o \in players[s] :
        o \notin online => o \in raced \/ \E t \in Thread : Obj(t) = o

\* A square with players in it is on the list, where others can find it, unless
\* both threads have dealt with squares of its number at once.
PlayersInListedSquares ==
    \A s \in Square :
        players[s] # {} => listed[Id[s]] = s \/ Id[s] \in contended

\* "We can't remove the last square".
LastSquareStays == Listed # {}
=============================================================================

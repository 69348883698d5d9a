------------------------------- MODULE Locks -------------------------------
(***************************************************************************)
(* The mutexes of the server and the order its threads take them in.       *)
(*                                                                         *)
(* An operation is the sequence of the locks it takes and releases: what   *)
(* it does under them is the matter of the other modules.  Three threads   *)
(* run operations for ever: the lobby's and the square's, a packet at a    *)
(* time, and the room server's, each under m_connMx.  The locks of one     *)
(* player stand for everybody's; theirs is the inventory of the other      *)
(* player that a gift goes to.  Left out are mutexes under which no other  *)
(* is taken: of the dispatcher, the cache, the squares, the equipment.     *)
(***************************************************************************)
EXTENDS Naturals, Sequences, FiniteSets

CONSTANTS
    Operations    \* the operations that may be run

Thread == {"lobby", "square", "room"}

Recursive == {"conn", "rooms", "room", "session", "leavers", "players", "db", "functionCards"}
Plain == {"friends", "inventory", "theirs"}
Lock == Recursive \cup Plain

-----------------------------------------------------------------------------
(* Operations                                                              *)

In(l) == [on |-> l, take |-> TRUE]
Out(l) == [on |-> l, take |-> FALSE]
Under(l, steps) == <<In(l)>> \o steps \o <<Out(l)>>
Brief(l) == Under(l, <<>>)

\* FriendManager::send: each friend is looked for among the players online.
Appear == Under("friends", Brief("players"))

\* FriendManager::initialize keeps its statement, and with it the database,
\* to the end.  Nobody else knows the object that is read.
Initialize == Brief("db") \o Under("db", Brief("players"))

GetPlayer == Brief("players") \o Initialize

PlayerCloseUnderInventory == Under("inventory", Appear)
\* Player::close: setOnlineStatus, and the managers' close.
PlayerClose == Appear \o Brief("inventory") \o Appear

RemoveClient == Brief("players")

\* EquipmentManager::finishRound: useCard for what is worn, and for each
\* function card, which may be removed.
FinishRound ==
    Brief("inventory")
    \o Under("functionCards", Under("inventory", Brief("functionCards")))
    \o Brief("inventory")

\* RoomSession::finish and Room::finish.
Finish ==
    Under("leavers", FinishRound)
    \o Brief("session") \o FinishRound \o Brief("session")
    \o Under("session", Brief("leavers"))
    \o Brief("room")

\* RoomSession::removePlayer takes and releases by hand, on three ways out: of who is
\* not in the match...
NotInMatchUnreleased == <<In("session")>>
NotInMatch == <<In("session"), Out("session")>>

\* ...of a spectator, the others being told while the mutex is held...
TakenOut == <<In("session")>> \o Brief("session") \o <<Out("session")>>

\* ...and of a player, who is listed.
RemoveFromMatch == TakenOut \o <<In("leavers"), Out("leavers")>>

\* InventoryManager::storeCard: the statement lives to the end of the function.
StoreCard == Under("db", Brief("db") \o Brief("inventory"))

(* Of the lobby                                                            *)

CreatePlayer == Under("players", PlayerClose \o Initialize)
LobbyClosed == PlayerClose \o RemoveClient
AddFriend == GetPlayer \o Brief("friends")
ListRooms == Brief("rooms")
DeleteCard == Brief("inventory") \o Under("inventory", Brief("db"))
SetCardActive == Under("inventory", Brief("functionCards"))
UseCrane == Brief("inventory") \o StoreCard
Buy == Under("db", Brief("db") \o Under("db", Brief("db")) \o Brief("inventory"))
GiftCard == GetPlayer \o Under("inventory", Brief("theirs"))
GiftCardToSelf == GetPlayer \o Under("inventory", Brief("inventory"))

(* Of the square, and of the commands typed there                          *)

SquareClosed == PlayerClose \o RemoveClient
EnterSquare == Appear
Disconnect == Brief("players") \o PlayerClose
Ban == GetPlayer \o PlayerClose
Broadcast == Brief("players")
CloseRoom == Under("room", Brief("conn") \o Brief("rooms"))
ForceStart == Brief("room")

(* Of the room server, all under m_connMx                                  *)

Authenticate == Under("conn", Under("conn", Brief("players")))
Terminated == Under("conn", Brief("conn"))
CreateRoom == Under("conn", Brief("rooms") \o Brief("rooms") \o Brief("room"))
LeaveRoomWith(removal) == Under("conn", Under("room", Brief("room") \o removal \o Brief("rooms")))
LeaveUnplayed == LeaveRoomWith(NotInMatch)
LeaveSpectating == LeaveRoomWith(TakenOut)
LeaveRoom == LeaveRoomWith(RemoveFromMatch)
LeaveAndFinish == LeaveRoomWith(RemoveFromMatch \o Finish)
StartMatch == Under("conn", Brief("room"))
EnterMatch == Under("conn", Brief("session") \o Brief("leavers"))
Tick == Under("conn", Under("rooms", Brief("session") \o Finish))
TickOfEssence == Under("conn", Under("rooms", Under("session", Finish)))

Steps ==
    [createPlayer |-> CreatePlayer, lobbyClosed |-> LobbyClosed, getPlayer |-> GetPlayer,
     addFriend |-> AddFriend, listRooms |-> ListRooms, deleteCard |-> DeleteCard,
     setCardActive |-> SetCardActive, useCrane |-> UseCrane, buy |-> Buy, giftCard |-> GiftCard,
     giftCardToSelf |-> GiftCardToSelf,
     squareClosed |-> SquareClosed, enterSquare |-> EnterSquare, disconnect |-> Disconnect,
     ban |-> Ban, broadcast |-> Broadcast, closeRoom |-> CloseRoom, finishMatch |-> Finish,
     forceStart |-> ForceStart,
     authenticate |-> Authenticate, terminated |-> Terminated, createRoom |-> CreateRoom,
     leaveUnplayed |-> LeaveUnplayed, leaveSpectating |-> LeaveSpectating,
     leaveRoom |-> LeaveRoom, leaveAndFinish |-> LeaveAndFinish, startMatch |-> StartMatch,
     enterMatch |-> EnterMatch, tick |-> Tick, tickOfEssence |-> TickOfEssence]

By(t) ==
    CASE t = "lobby" ->
            {"createPlayer", "lobbyClosed", "getPlayer", "addFriend", "listRooms", "deleteCard",
             "setCardActive", "useCrane", "buy", "giftCard", "giftCardToSelf"}
      [] t = "square" ->
            {"squareClosed", "enterSquare", "disconnect", "ban", "broadcast", "closeRoom",
             "finishMatch", "forceStart"}
      [] t = "room" ->
            {"authenticate", "terminated", "createRoom", "leaveUnplayed",
             "leaveSpectating", "leaveRoom", "leaveAndFinish", "startMatch",
             "enterMatch", "tick", "tickOfEssence"}

ASSUME OperationsAssumption == Operations \subseteq UNION {By(t) : t \in Thread}

-----------------------------------------------------------------------------

VARIABLES
    left,         \* the steps that each thread has left of its operation
    held          \* how many times it holds each lock

vars == <<left, held>>

Init ==
    /\ left = [t \in Thread |-> <<>>]
    /\ held = [t \in Thread |-> [l \in Lock |-> 0]]

Busy(t) == left[t] # <<>>

Begin(t) ==
    /\ ~Busy(t)
    /\ \E op \in By(t) \cap Operations : left' = [left EXCEPT ![t] = Steps[op]]
    /\ UNCHANGED held

\* The locks t has to wait for, because another thread holds them or because
\* he holds them himself and they are not recursive.
Waits(t, u) ==
    /\ Busy(t)
    /\ Head(left[t]).take
    /\ held[u][Head(left[t]).on] > 0
    /\ t = u => Head(left[t]).on \in Plain

Take(t) ==
    /\ Busy(t)
    /\ Head(left[t]).take
    /\ \A u \in Thread : ~Waits(t, u)
    /\ held' = [held EXCEPT ![t][Head(left[t]).on] = @ + 1]
    /\ left' = [left EXCEPT ![t] = Tail(@)]

Release(t) ==
    /\ Busy(t)
    /\ ~Head(left[t]).take
    /\ held' = [held EXCEPT ![t][Head(left[t]).on] = @ - 1]
    /\ left' = [left EXCEPT ![t] = Tail(@)]

Next == \E t \in Thread : Begin(t) \/ Take(t) \/ Release(t)

Spec == Init /\ [][Next]_vars

-----------------------------------------------------------------------------
(* Properties                                                              *)

\* Threads that wait for one another.
Deadlocked(threads) ==
    threads # {} /\ \A t \in threads : \E u \in threads : Waits(t, u)

Wanted(t) == Head(left[t]).on

\* The orders in which the code does take the same locks.
Inversions ==
    {{"room", "conn"},               \* Room::close against whatever the room server does
     {"room", "rooms"},              \* and, once it is past m_connMx, against its tick
     {"inventory", "functionCards"}, \* setCardActive against finishRound
     {"players", "friends"},         \* createPlayer against whoever appears to his friends
     {"players", "db"},              \* createPlayer against the reading of somebody offline
     {"inventory"}}                  \* a gift to oneself

\* Any threads that wait for one another for ever do so for one of the inversions
\* above: the other orders, such as session before room in one place and after it
\* in another, are safe since m_connMx is held.
KnownDeadlocks ==
    \A threads \in SUBSET Thread :
        Deadlocked(threads) => \E some \in SUBSET threads :
            Deadlocked(some) /\ {Wanted(t) : t \in some} \in Inversions

\* A thread between two operations holds no lock.
NothingKept == \A t \in Thread : Busy(t) \/ \A l \in Lock : held[t][l] = 0
=============================================================================

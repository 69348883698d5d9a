--------------------------- MODULE RoomLifecycle ---------------------------
(***************************************************************************)
(* Game rooms, their members and the game connections that carry them, as  *)
(* kept by the room server of QPang Essence: RoomServer (the connection    *)
(* registry and the disposal queue), RoomManager (the list of rooms) and   *)
(* Room (membership and the master).                                       *)
(*                                                                         *)
(* Every event of a game connection is handled on the room-server thread,  *)
(* one at a time, so a handler is one action.  Logging in and out happens  *)
(* on other threads and interleaves with them.                             *)
(*                                                                         *)
(* Objects are told apart from the numbers that name them: a Conn is a     *)
(* GameConnection object, a Login is a Player object (a player who logs in *)
(* again gets a new one), a Room is a Room object, and a RoomId is the     *)
(* number RoomManager lists it under.  An object that nothing refers to    *)
(* any more may be used again as a new one.                                *)
(*                                                                         *)
(* Team, ready flags and the match itself are the subject of module Match. *)
(***************************************************************************)
EXTENDS Naturals, FiniteSets

CONSTANTS
    Player,       \* account ids
    Login,        \* Player objects
    Owner,        \* Owner[l]: the account the Player object l belongs to
    Conn,         \* GameConnection objects
    Room,         \* Room objects
    MaxRooms,     \* GAME_MAX_ROOMS
    MaxPlayers,   \* Room::m_maxPlayers
    NoPlayer, NoLogin, NoConn, NoRoom

ASSUME OwnerAssumption == Owner \in [Login -> Player]
ASSUME LimitsAssumption == MaxRooms \in Nat \ {0} /\ MaxPlayers \in Nat \ {0}
ASSUME NullAssumption ==
    /\ NoPlayer \notin Player
    /\ NoLogin \notin Login
    /\ NoConn \notin Conn
    /\ NoRoom \notin Room

\* getAvailableRoomId hands out the lowest free number and at most MaxRooms
\* rooms are listed, so no other number is ever used.
RoomId == 1..MaxRooms

VARIABLES
    online,       \* Game::m_players: the Player object of each account
    alive,        \* the connections TNL has in state Connected
    connLogin,    \* GameConnection::m_player
    registry,     \* RoomServer::m_connections
    toDispose,    \* RoomServer::m_connsToDispose
    draining,     \* the connection, disconnected by the handler of one of its
                  \* own events, whose packet still has events to deliver
    disposing,    \* the disposal loop of RoomServer::tick is under way
    rooms,        \* RoomManager::m_rooms
    roomId,       \* Room::m_id
    members,      \* Room::m_players: the connection of each RoomPlayer
    master,       \* Room::m_masterPlayerId
    cur,          \* Player::m_roomPlayer, the room of the RoomPlayer last set
    closedIds,    \* history: the numbers on which a :close was executed
    strayed       \* history: the players who entered a second room, or
                  \* authenticated a second connection, before the first was
                  \* disposed of

connVars == <<alive, connLogin, registry, toDispose, draining, disposing>>
roomVars == <<rooms, roomId, members, master, cur>>
histVars == <<closedIds, strayed>>
vars == <<online, connVars, roomVars, histVars>>

TypeOK ==
    /\ online \in [Player -> Login \cup {NoLogin}]
    /\ alive \subseteq Conn
    /\ connLogin \in [Conn -> Login \cup {NoLogin}]
    /\ registry \in [Player -> Conn \cup {NoConn}]
    /\ toDispose \subseteq Player
    /\ draining \in Conn \cup {NoConn}
    /\ disposing \in BOOLEAN
    /\ rooms \in [RoomId -> Room \cup {NoRoom}]
    /\ roomId \in [Room -> RoomId]
    /\ members \in [Room -> [Player -> Conn \cup {NoConn}]]
    /\ master \in [Room -> Player \cup {NoPlayer}]
    /\ cur \in [Login -> Room \cup {NoRoom}]
    /\ closedIds \subseteq RoomId
    /\ strayed \subseteq Player

Init ==
    /\ online = [p \in Player |-> NoLogin]
    /\ alive = {}
    /\ connLogin = [c \in Conn |-> NoLogin]
    /\ registry = [p \in Player |-> NoConn]
    /\ toDispose = {}
    /\ draining = NoConn
    /\ disposing = FALSE
    /\ rooms = [i \in RoomId |-> NoRoom]
    /\ roomId = [r \in Room |-> 1]
    /\ members = [r \in Room |-> [p \in Player |-> NoConn]]
    /\ master = [r \in Room |-> NoPlayer]
    /\ cur = [l \in Login |-> NoRoom]
    /\ closedIds = {}
    /\ strayed = {}

-----------------------------------------------------------------------------
(* Membership                                                              *)

MembersOf(r) == {p \in Player : members[r][p] # NoConn}

\* Player::getRoomPlayer: the weak pointer has expired once the RoomPlayer was
\* erased from its room, or replaced there by one of another Player object.
InRoom(l, r) ==
    /\ cur[l] = r
    /\ r \in Room
    /\ members[r][Owner[l]] # NoConn
    /\ connLogin[members[r][Owner[l]]] = l

\* Room::findNewMaster takes the first entry of an unordered_map: any member.
NewMasterNeverElected(r, p) == {master[r]}
NewMasterOnlyCloses(r, p) == IF p = master[r] THEN {NoPlayer} ELSE {master[r]}
NewMaster(r, p) ==
    IF p # master[r] THEN {master[r]}
    ELSE IF MembersOf(r) = {p} THEN {NoPlayer}
    ELSE MembersOf(r) \ {p}

\* Room::removePlayer, for a member p.  A room left without a master is taken
\* off the list by its number.  (The loop that disconnects the members of a
\* room without a master never has one to disconnect: see MasterIsMember.)
RemovePlayerUnlisted(r, p) ==
    /\ members' = [members EXCEPT ![r][p] = NoConn]
    /\ \E m \in NewMaster(r, p) : master' = [master EXCEPT ![r] = m]
    /\ UNCHANGED <<rooms, roomId, cur>>
RemovePlayer(r, p) ==
    /\ members' = [members EXCEPT ![r][p] = NoConn]
    /\ \E m \in NewMaster(r, p) :
          /\ master' = [master EXCEPT ![r] = m]
          /\ rooms' = IF m = NoPlayer
                      THEN [rooms EXCEPT ![roomId[r]] = NoRoom]
                      ELSE rooms
    /\ UNCHANGED <<roomId, cur>>

\* Room::addPlayer: nothing takes the player out of the room he was in.
AddPlayer(r, c) ==
    LET l == connLogin[c]
        p == Owner[l]
    IN /\ members' = [members EXCEPT ![r][p] = c]
       /\ master' = IF MembersOf(r) = {} THEN [master EXCEPT ![r] = p]
                                         ELSE master
       /\ cur' = [cur EXCEPT ![l] = r]
       /\ strayed' = IF \E s \in Room \ {r} : InRoom(l, s)
                     THEN strayed \cup {p} ELSE strayed

-----------------------------------------------------------------------------
(* Connections                                                             *)

\* GameConnection::onConnectionTerminated calls RoomServer::dropConnection
\* with the account of the connection, not with the connection.
DroppedPlayersForgotten(cs) == {}
DroppedPlayers(cs) ==
    {p \in Player :
        /\ registry[p] # NoConn
        /\ \E c \in cs \cap alive : connLogin[c] # NoLogin /\ Owner[connLogin[c]] = p}

\* NetInterface::disconnect, and the connections TNL reports as terminated.
Terminated(cs) ==
    /\ alive' = alive \ cs
    /\ toDispose' = toDispose \cup DroppedPlayers(cs)
    /\ UNCHANGED <<connLogin, registry, disposing>>

\* RoomServer::run is between two packets.
Idle == draining = NoConn /\ ~disposing

\* RoomServer::processEvent passes on the events of a connection that has a
\* player.  A connection its own handler disconnected still delivers the rest
\* of the packet, and nothing else runs on this thread before that.
Handles(c) ==
    /\ connLogin[c] # NoLogin
    /\ (Idle /\ c \in alive) \/ c = draining

Unreferenced(c) ==
    /\ c \notin alive
    /\ c # draining
    /\ \A p \in Player : registry[p] # c
    /\ \A r \in Room, p \in Player : members[r][p] # c

\* The handler of c's event answers with conn->disconnect.
Refuse(c) ==
    /\ Terminated({c})
    /\ draining' = c
    /\ UNCHANGED <<online, roomVars, histVars>>

-----------------------------------------------------------------------------
(* Actions of the other threads                                            *)

\* Game::createPlayer: a new Player object takes the place of the account's
\* old one, which keeps its game connection and its place in a room.
CreatePlayer(l) ==
    /\ online[Owner[l]] # l
    /\ \A c \in Conn : connLogin[c] = l => Unreferenced(c)
    /\ online' = [online EXCEPT ![Owner[l]] = l]
    /\ cur' = [cur EXCEPT ![l] = NoRoom]
    /\ UNCHANGED <<connVars, rooms, roomId, members, master, histVars>>

\* Game::removeClient.
RemoveClient(p) ==
    /\ online[p] # NoLogin
    /\ online' = [online EXCEPT ![p] = NoLogin]
    /\ UNCHANGED <<connVars, roomVars, histVars>>

-----------------------------------------------------------------------------
(* Actions of the room-server thread                                       *)

\* TNL accepts a connection.
Connect(c) ==
    /\ Idle
    /\ Unreferenced(c)
    /\ alive' = alive \cup {c}
    /\ connLogin' = [connLogin EXCEPT ![c] = NoLogin]
    /\ UNCHANGED <<online, registry, toDispose, draining, disposing, roomVars, histVars>>

\* A connection ends: the client disconnects, connects anew from the same
\* address, times out, or sends a malformed packet.
ConnectionTerminated(c) ==
    /\ Idle
    /\ c \in alive
    /\ Terminated({c})
    /\ UNCHANGED <<online, draining, roomVars, histVars>>

\* CGAuth::handle and RoomServer::createConnection.  The registry entry of the
\* account is overwritten; an account that is not online is answered FAIL.
CreateConnection(c, p) ==
    /\ Idle
    /\ c \in alive
    /\ connLogin[c] = NoLogin
    /\ online[p] # NoLogin
    /\ connLogin' = [connLogin EXCEPT ![c] = online[p]]
    /\ registry' = [registry EXCEPT ![p] = c]
    /\ strayed' = IF registry[p] # NoConn THEN strayed \cup {p} ELSE strayed
    /\ UNCHANGED <<online, alive, toDispose, draining, disposing, roomVars, closedIds>>

\* RoomManager::getAvailableRoomId: the lowest free number.  Empty when
\* list().size() has reached GAME_MAX_ROOMS.
AvailableRoomId ==
    {i \in RoomId : rooms[i] = NoRoom /\ \A j \in 1..(i - 1) : rooms[j] # NoRoom}

\* CGRoom::handle, CREATE_ROOM: RoomManager::create then Room::addPlayer.
CreateRoom(c, r) ==
    /\ Handles(c)
    /\ \A p \in Player : members[r][p] = NoConn
    /\ \A i \in RoomId : rooms[i] # r
    /\ \E i \in AvailableRoomId :
          /\ rooms' = [rooms EXCEPT ![i] = r]
          /\ roomId' = [roomId EXCEPT ![r] = i]
    /\ AddPlayer(r, c)
    /\ UNCHANGED <<online, connVars, closedIds>>

\* CREATE_ROOM with an unknown mode or map, by a rank that may not host an
\* event room, or with the list full, disconnects the client.
CreateRoomRefused(c) == Handles(c) /\ Refuse(c)

\* JOIN_ROOM.
JoinRoom(c, i) ==
    /\ Handles(c)
    /\ rooms[i] # NoRoom
    /\ Cardinality(MembersOf(rooms[i])) < MaxPlayers
    /\ AddPlayer(rooms[i], c)
    /\ UNCHANGED <<online, connVars, rooms, roomId, closedIds>>

JoinRoomRefused(c, i) ==
    /\ Handles(c)
    /\ rooms[i] # NoRoom => Cardinality(MembersOf(rooms[i])) >= MaxPlayers
    /\ Refuse(c)

\* CGExit::handle, LEAVE.
LeaveRoom(c, r) ==
    /\ Handles(c)
    /\ InRoom(connLogin[c], r)
    /\ RemovePlayer(r, Owner[connLogin[c]])
    /\ UNCHANGED <<online, connVars, histVars>>

\* CGExit::handle, KICK, by the master.  A kicked player keeps his connection.
KickPlayer(c, r, p) ==
    /\ Handles(c)
    /\ InRoom(connLogin[c], r)
    /\ Owner[connLogin[c]] = master[r]
    /\ p \in MembersOf(r)
    /\ RemovePlayer(r, p)
    /\ UNCHANGED <<online, connVars, histVars>>

\* The :close command typed in the room.  Room::close disconnects the members
\* and takes the room's number off the list; they stay members until each
\* connection is disposed of.
CloseRoom(c, r) ==
    LET cs == {members[r][p] : p \in MembersOf(r)}
    IN /\ Handles(c)
       /\ InRoom(connLogin[c], r)
       /\ Terminated(cs)
       /\ draining' = IF c \in cs THEN c ELSE draining
       /\ rooms' = [rooms EXCEPT ![roomId[r]] = NoRoom]
       /\ closedIds' = closedIds \cup {roomId[r]}
       /\ UNCHANGED <<online, roomId, members, master, cur, strayed>>

\* The packet of a connection disconnected by its own handler is exhausted.
PacketDone ==
    /\ draining # NoConn
    /\ draining' = NoConn
    /\ UNCHANGED <<online, alive, connLogin, registry, toDispose, disposing, roomVars, histVars>>

\* One turn of the disposal loop of RoomServer::tick; only the other threads
\* run between two turns.  The connection it finds in the registry is the
\* account's latest, which need not be the one that was terminated.
\* Disconnecting it queues nothing: p is queued already.
DisposeKeepsRoom(p) ==
    LET c == registry[p]
    IN /\ draining = NoConn
       /\ p \in toDispose
       /\ registry' = [registry EXCEPT ![p] = NoConn]
       /\ toDispose' = toDispose \ {p}
       /\ disposing' = (toDispose # {p})
       /\ alive' = alive \ {c}
       /\ UNCHANGED <<online, connLogin, draining, roomVars, histVars>>
DisposeClearsQueue(p) ==
    LET c == registry[p]
    IN /\ draining = NoConn
       /\ p \in toDispose
       /\ registry' = [registry EXCEPT ![p] = NoConn]
       /\ toDispose' = {}
       /\ disposing' = FALSE
       /\ alive' = alive \ {c}
       /\ \E r \in Room : InRoom(connLogin[c], r) /\ RemovePlayer(r, p)
       /\ UNCHANGED <<online, connLogin, draining, histVars>>
DisposeConnection(p) ==
    LET c == registry[p]
    IN /\ draining = NoConn
       /\ p \in toDispose
       /\ registry' = [registry EXCEPT ![p] = NoConn]
       /\ toDispose' = toDispose \ {p}
       /\ disposing' = (toDispose # {p})
       /\ alive' = alive \ {c}
       /\ IF c # NoConn /\ \E r \in Room : InRoom(connLogin[c], r)
          THEN \E r \in Room : InRoom(connLogin[c], r) /\ RemovePlayer(r, p)
          ELSE UNCHANGED roomVars
       /\ UNCHANGED <<online, connLogin, draining, histVars>>

Next ==
    \/ \E l \in Login : CreatePlayer(l)
    \/ \E p \in Player : RemoveClient(p)
    \/ \E c \in Conn : Connect(c)
    \/ \E c \in Conn : ConnectionTerminated(c)
    \/ \E c \in Conn, p \in Player : CreateConnection(c, p)
    \/ \E c \in Conn, r \in Room : CreateRoom(c, r)
    \/ \E c \in Conn : CreateRoomRefused(c)
    \/ \E c \in Conn, i \in RoomId : JoinRoom(c, i)
    \/ \E c \in Conn, i \in RoomId : JoinRoomRefused(c, i)
    \/ \E c \in Conn, r \in Room : LeaveRoom(c, r)
    \/ \E c \in Conn, r \in Room, p \in Player : KickPlayer(c, r, p)
    \/ \E c \in Conn, r \in Room : CloseRoom(c, r)
    \/ PacketDone
    \/ \E p \in Player : DisposeConnection(p)

Spec == Init /\ [][Next]_vars

\* RoomServer::run turns its loop for ever: a packet being read is read to its
\* end, and every turn of the loop ends with a tick, outside any packet, that
\* executes the queued disposals.  Packets arriving again and again between
\* two ticks must not starve it, hence the strong fairness.
Fairness ==
    /\ WF_vars(PacketDone)
    /\ \A p \in Player : SF_vars(DisposeConnection(p))

FairSpec == Spec /\ Fairness

-----------------------------------------------------------------------------
(* Properties                                                              *)

\* A room with members has one of them as its master, whatever sequence of
\* leaving, kicking and disposal emptied and refilled it; an empty room has
\* none.  Room::removePlayer relies on it to tell that a room is empty.
MasterIsMember ==
    \A r \in Room :
        IF MembersOf(r) = {} THEN master[r] = NoPlayer
                             ELSE master[r] \in MembersOf(r)

\* The room list never offers an empty room, and lists a room under the
\* number the room itself carries: the number removePlayer and close use.
ListedRoomsAreLive ==
    \A i \in RoomId : rooms[i] # NoRoom =>
        /\ MembersOf(rooms[i]) # {}
        /\ roomId[rooms[i]] = i

\* A room that still has members disappears from the list only as a
\* consequence of :close, of itself or of an earlier room of the same number:
\* the last member of a closed room, disposed of after the number was given
\* out again, takes the new room off the list.
RoomsStayListed ==
    \A r \in Room :
        MembersOf(r) # {} /\ rooms[roomId[r]] # r => roomId[r] \in closedIds

\* The registry of connections never holds a dead one without its account
\* being queued for disposal, though the queue holds accounts and a new
\* connection may replace the one that died; and all that is queued is in the
\* registry, as the disposal loop expects.
DeadConnectionsQueued ==
    /\ \A p \in Player :
          registry[p] # NoConn /\ registry[p] \notin alive => p \in toDispose
    /\ \A p \in toDispose : registry[p] # NoConn

\* A member of a room is within reach of the disposal of his account's
\* connection, registry -> Player object -> RoomPlayer -> room, unless he
\* entered a second room or authenticated a second connection while the first
\* was not disposed of.  Those are the ways to leave a member behind for good.
MembersReachable ==
    \A r \in Room, p \in Player :
        \/ members[r][p] = NoConn
        \/ members[r][p] = registry[p] /\ InRoom(connLogin[registry[p]], r)
        \/ p \in strayed

\* The disposal of an account's connection takes the account out of the room
\* its Player object is in, whichever of its connections had died.
DisposalLeavesRoom ==
    [][\A p \in Player, r \in Room :
          /\ registry[p] # NoConn
          /\ registry'[p] = NoConn
          /\ InRoom(connLogin[registry[p]], r)
          => members'[r][p] = NoConn]_vars

\* A member whose connection has died does not stay: he is removed, or
\* replaced in the room by a live connection of his account, or he strayed.
DeadMembersLeave ==
    \A r \in Room, p \in Player :
        (members[r][p] # NoConn /\ members[r][p] \notin alive)
            ~> \/ members[r][p] \in alive \cup {NoConn}
               \/ p \in strayed
=============================================================================

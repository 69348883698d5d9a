------------------------ MODULE RoomLifecycleProofs ------------------------
(***************************************************************************)
(* Proofs about RoomLifecycle, for every number of accounts, Player        *)
(* objects, connections and rooms.                                         *)
(***************************************************************************)
EXTENDS RoomLifecycle, TLAPS

USE OwnerAssumption, LimitsAssumption, NullAssumption

\* The numbers rooms are listed under; 1 is the one Init gives.
LEMMA RoomIdFacts == RoomId \subseteq Nat /\ 1 \in RoomId
  BY DEF RoomId

\* Whoever follows a master that leaves is an account, or nobody.
LEMMA NewMasterType ==
    ASSUME TypeOK, NEW r \in Room, NEW p \in Player
    PROVE  NewMaster(r, p) \subseteq Player \cup {NoPlayer}
  BY DEF NewMaster, MembersOf, TypeOK

\* Every variable keeps its type: one step per action.
THEOREM TypeCorrect == Spec => []TypeOK
<1>1. Init => TypeOK
  <2> SUFFICES ASSUME Init PROVE TypeOK
    OBVIOUS
  <2> QED BY RoomIdFacts DEF Init, TypeOK
<1>2. TypeOK /\ [Next]_vars => TypeOK'
  <2> SUFFICES ASSUME TypeOK, [Next]_vars PROVE TypeOK'
    OBVIOUS
  <2> USE DEF TypeOK, connVars, roomVars, histVars
  <2>rem. ASSUME NEW r \in Room, NEW p \in Player, RemovePlayer(r, p)
          PROVE  /\ rooms' \in [RoomId -> Room \cup {NoRoom}]
                 /\ roomId' \in [Room -> RoomId]
                 /\ members' \in [Room -> [Player -> Conn \cup {NoConn}]]
                 /\ master' \in [Room -> Player \cup {NoPlayer}]
                 /\ cur' \in [Login -> Room \cup {NoRoom}]
    BY <2>rem, NewMasterType DEF RemovePlayer
  <2>add. ASSUME NEW r \in Room, NEW c \in Conn, connLogin[c] # NoLogin, AddPlayer(r, c)
          PROVE  /\ members' \in [Room -> [Player -> Conn \cup {NoConn}]]
                 /\ master' \in [Room -> Player \cup {NoPlayer}]
                 /\ cur' \in [Login -> Room \cup {NoRoom}]
                 /\ strayed' \subseteq Player
    BY <2>add DEF AddPlayer
  <2>ref. ASSUME NEW c \in Conn, Refuse(c) PROVE TypeOK'
    BY <2>ref DEF Refuse, Terminated, DroppedPlayers
  <2>1. ASSUME NEW l \in Login, CreatePlayer(l) PROVE TypeOK'
    BY <2>1 DEF CreatePlayer
  <2>2. ASSUME NEW p \in Player, RemoveClient(p) PROVE TypeOK'
    BY <2>2 DEF RemoveClient
  <2>3. ASSUME NEW c \in Conn, Connect(c) PROVE TypeOK'
    BY <2>3 DEF Connect
  <2>4. ASSUME NEW c \in Conn, ConnectionTerminated(c) PROVE TypeOK'
    BY <2>4 DEF ConnectionTerminated, Terminated, DroppedPlayers
  <2>5. ASSUME NEW c \in Conn, NEW p \in Player, CreateConnection(c, p) PROVE TypeOK'
    BY <2>5 DEF CreateConnection
  <2>6. ASSUME NEW c \in Conn, NEW r \in Room, CreateRoom(c, r) PROVE TypeOK'
    BY <2>6, <2>add DEF CreateRoom, Handles, Idle, AvailableRoomId
  <2>7. ASSUME NEW c \in Conn, CreateRoomRefused(c) PROVE TypeOK'
    BY <2>7, <2>ref DEF CreateRoomRefused
  <2>8. ASSUME NEW c \in Conn, NEW i \in RoomId, JoinRoom(c, i) PROVE TypeOK'
    BY <2>8, <2>add DEF JoinRoom, Handles, Idle
  <2>9. ASSUME NEW c \in Conn, NEW i \in RoomId, JoinRoomRefused(c, i) PROVE TypeOK'
    BY <2>9, <2>ref DEF JoinRoomRefused
  <2>10. ASSUME NEW c \in Conn, NEW r \in Room, LeaveRoom(c, r) PROVE TypeOK'
    BY <2>10, <2>rem DEF LeaveRoom, Handles, Idle
  <2>11. ASSUME NEW c \in Conn, NEW r \in Room, NEW p \in Player, KickPlayer(c, r, p) PROVE TypeOK'
    BY <2>11, <2>rem DEF KickPlayer
  <2>12. ASSUME NEW c \in Conn, NEW r \in Room, CloseRoom(c, r) PROVE TypeOK'
    BY <2>12 DEF CloseRoom, Terminated, DroppedPlayers
  <2>13. ASSUME PacketDone PROVE TypeOK'
    BY <2>13 DEF PacketDone
  <2>14. ASSUME NEW p \in Player, DisposeConnection(p) PROVE TypeOK'
    <3>1. registry' \in [Player -> Conn \cup {NoConn}] /\ toDispose' \subseteq Player
          /\ alive' \subseteq Conn
      BY <2>14 DEF DisposeConnection
    <3>2. /\ rooms' \in [RoomId -> Room \cup {NoRoom}]
          /\ roomId' \in [Room -> RoomId]
          /\ members' \in [Room -> [Player -> Conn \cup {NoConn}]]
          /\ master' \in [Room -> Player \cup {NoPlayer}]
          /\ cur' \in [Login -> Room \cup {NoRoom}]
      BY <2>14, <2>rem DEF DisposeConnection
    <3> QED BY <2>14, <3>1, <3>2 DEF DisposeConnection
  <2>15. CASE UNCHANGED vars
    BY <2>15 DEF vars
  <2> QED
    BY <2>1, <2>2, <2>3, <2>4, <2>5, <2>6, <2>7, <2>8, <2>9, <2>10, <2>11,
       <2>12, <2>13, <2>14, <2>15 DEF Next
<1> QED BY <1>1, <1>2, PTL DEF Spec
-----------------------------------------------------------------------------
(* The inductive invariant.  The three conjuncts that are not checked      *)
(* properties say that an account's connections and Player objects belong  *)
(* to it, and that only a strayed account has an authenticated connection  *)
(* besides the one in the registry.                                        *)

OnlineOwned ==
    \A p \in Player : online[p] # NoLogin => Owner[online[p]] = p

ConnectionsOwned ==
    /\ \A p \in Player : registry[p] # NoConn =>
          connLogin[registry[p]] # NoLogin /\ Owner[connLogin[registry[p]]] = p
    /\ \A r \in Room, p \in Player : members[r][p] # NoConn =>
          connLogin[members[r][p]] # NoLogin /\ Owner[connLogin[members[r][p]]] = p

SpareConnectionsStray ==
    \A c \in Conn :
        (c \in alive \/ c = draining) /\ connLogin[c] # NoLogin =>
            \/ registry[Owner[connLogin[c]]] = c
            \/ Owner[connLogin[c]] \in strayed

\* The conjuncts that depend on the rooms alone, and on the history of :close.
RoomInv == MasterIsMember /\ ListedRoomsAreLive /\ RoomsStayListed

\* The conjuncts that relate connections, accounts and membership.
ConnInv ==
    /\ DeadConnectionsQueued
    /\ MembersReachable
    /\ OnlineOwned
    /\ ConnectionsOwned
    /\ SpareConnectionsStray

IInv == TypeOK /\ RoomInv /\ ConnInv

\* Room::removePlayer keeps what is said of rooms: the master it elects is a
\* member, and it takes the room off the list just when it is empty.
LEMMA RemovePlayerRooms ==
    ASSUME TypeOK, RoomInv, NEW r \in Room, NEW p \in MembersOf(r),
           RemovePlayer(r, p), UNCHANGED closedIds
    PROVE  RoomInv'
<1> USE DEF TypeOK, RoomInv
<1>1. PICK m \in NewMaster(r, p) :
         /\ master' = [master EXCEPT ![r] = m]
         /\ rooms' = IF m = NoPlayer THEN [rooms EXCEPT ![roomId[r]] = NoRoom] ELSE rooms
  BY DEF RemovePlayer
<1>2. members' = [members EXCEPT ![r][p] = NoConn] /\ roomId' = roomId
  BY DEF RemovePlayer
<1>3. p \in Player /\ members[r][p] # NoConn /\ master[r] \in MembersOf(r)
  BY DEF MembersOf, MasterIsMember
<1>4. MembersOf(r)' = MembersOf(r) \ {p}
  BY <1>2, <1>3 DEF MembersOf
<1>5. \A s \in Room \ {r} : MembersOf(s)' = MembersOf(s)
  BY <1>2 DEF MembersOf
<1>6. IF MembersOf(r)' = {} THEN m = NoPlayer ELSE m \in MembersOf(r)'
  BY <1>1, <1>3, <1>4 DEF NewMaster, MembersOf
<1>7. (m = NoPlayer) <=> (MembersOf(r)' = {})
  BY <1>6, NullAssumption DEF MembersOf
<1>8. MasterIsMember'
  BY <1>1, <1>5, <1>6 DEF MasterIsMember
<1>9. ListedRoomsAreLive'
  BY <1>1, <1>2, <1>4, <1>5, <1>7 DEF ListedRoomsAreLive
<1>10. RoomsStayListed'
  BY <1>1, <1>2, <1>4, <1>5, <1>7, RoomIdFacts DEF RoomsStayListed, ListedRoomsAreLive
<1> QED BY <1>8, <1>9, <1>10

\* Room::addPlayer keeps it too, into a room with members or into the new,
\* empty room that has just been listed under a free number.
LEMMA AddPlayerRooms ==
    ASSUME TypeOK, RoomInv, NEW r \in Room, NEW c \in Conn, connLogin[c] # NoLogin,
           AddPlayer(r, c), UNCHANGED closedIds,
           \/ UNCHANGED <<rooms, roomId>> /\ MembersOf(r) # {}
           \/ /\ MembersOf(r) = {}
              /\ \A i \in RoomId : rooms[i] # r
              /\ \E i \in RoomId : /\ rooms[i] = NoRoom
                                   /\ rooms' = [rooms EXCEPT ![i] = r]
                                   /\ roomId' = [roomId EXCEPT ![r] = i]
    PROVE  RoomInv'
<1> USE DEF TypeOK, RoomInv
<1> DEFINE p == Owner[connLogin[c]]
<1>1. p \in Player
  OBVIOUS
<1>2. /\ members' = [members EXCEPT ![r][p] = c]
      /\ master' = IF MembersOf(r) = {} THEN [master EXCEPT ![r] = p] ELSE master
  BY DEF AddPlayer
<1> HIDE DEF p
<1>3. MembersOf(r)' = MembersOf(r) \cup {p}
  BY <1>1, <1>2, NullAssumption DEF MembersOf
<1>4. \A s \in Room \ {r} : MembersOf(s)' = MembersOf(s)
  BY <1>1, <1>2 DEF MembersOf
<1>5. MasterIsMember'
  BY <1>1, <1>2, <1>3, <1>4 DEF MasterIsMember
<1>6. ListedRoomsAreLive' /\ RoomsStayListed'
  <2>1. CASE UNCHANGED <<rooms, roomId>> /\ MembersOf(r) # {}
    BY <2>1, <1>3, <1>4 DEF ListedRoomsAreLive, RoomsStayListed
  <2>2. CASE /\ MembersOf(r) = {}
             /\ \A i \in RoomId : rooms[i] # r
             /\ \E i \in RoomId : /\ rooms[i] = NoRoom
                                  /\ rooms' = [rooms EXCEPT ![i] = r]
                                  /\ roomId' = [roomId EXCEPT ![r] = i]
    <3>1. PICK i \in RoomId : /\ rooms[i] = NoRoom
                              /\ rooms' = [rooms EXCEPT ![i] = r]
                              /\ roomId' = [roomId EXCEPT ![r] = i]
      BY <2>2
    <3>2. ASSUME NEW j \in RoomId, NEW s \in Room, rooms'[j] = s
          PROVE  MembersOf(s)' # {} /\ roomId'[s] = j
      <4>1. CASE j = i
        <5>1. s = r /\ roomId'[s] = j
          BY <3>1, <3>2, <4>1
        <5> QED BY <5>1, <1>1, <1>3
      <4>2. CASE j # i
        <5>1. rooms[j] = s /\ s # r
          BY <2>2, <3>1, <3>2, <4>2
        <5>2. MembersOf(s) # {} /\ roomId[s] = j
          BY <5>1, NullAssumption DEF ListedRoomsAreLive
        <5>3. roomId'[s] = j
          BY <3>1, <5>1, <5>2
        <5> QED BY <1>4, <5>1, <5>2, <5>3
      <4> QED BY <4>1, <4>2
    <3>3. \A j \in RoomId : rooms'[j] \in Room \cup {NoRoom}
      BY <3>1
    <3>4. ListedRoomsAreLive'
      BY <3>2, <3>3 DEF ListedRoomsAreLive
    <3>5. ASSUME NEW s \in Room, MembersOf(s)' # {}, (rooms[roomId[s]] # s)'
          PROVE  roomId'[s] \in closedIds'
      <4>1. s # r /\ roomId'[s] = roomId[s] /\ MembersOf(s) # {}
        BY <3>1, <3>5, <1>4
      <4>2. rooms[roomId[s]] # s
        BY <3>1, <3>5, <4>1
      <4> QED BY <4>1, <4>2 DEF RoomsStayListed
    <3> QED BY <3>4, <3>5 DEF RoomsStayListed
  <2> QED BY <2>1, <2>2
<1> QED BY <1>5, <1>6
-----------------------------------------------------------------------------
(* What the parts that several handlers share do to ConnInv.               *)

\* Ending connections queues the account of each one that is in the registry.
LEMMA TerminatedConnections ==
    ASSUME TypeOK, ConnInv, NEW cs \in SUBSET Conn, Terminated(cs),
           draining' \in alive \cup {draining, NoConn},
           UNCHANGED <<online, members, cur, strayed>>
    PROVE  ConnInv'
<1> USE DEF TypeOK, ConnInv
<1>1. alive' = alive \ cs /\ toDispose' = toDispose \cup DroppedPlayers(cs)
      /\ UNCHANGED <<connLogin, registry>>
  BY DEF Terminated
<1>2. DeadConnectionsQueued'
  <2>1. ASSUME NEW p \in Player, registry[p] # NoConn, registry[p] \notin alive'
        PROVE  p \in toDispose'
    BY <1>1, <2>1 DEF DeadConnectionsQueued, ConnectionsOwned, DroppedPlayers
  <2> QED BY <1>1, <2>1 DEF DeadConnectionsQueued, DroppedPlayers
<1>3. MembersReachable' /\ ConnectionsOwned' /\ OnlineOwned'
  BY <1>1 DEF MembersReachable, InRoom, ConnectionsOwned, OnlineOwned
<1>4. SpareConnectionsStray'
  BY <1>1 DEF SpareConnectionsStray
<1> QED BY <1>2, <1>3, <1>4

\* Leaving a room disturbs nobody else's place in it.
LEMMA RemovePlayerConnections ==
    ASSUME TypeOK, ConnInv, NEW r \in Room, NEW p \in Player, RemovePlayer(r, p),
           UNCHANGED <<online, connVars, histVars>>
    PROVE  ConnInv'
<1> USE DEF TypeOK, ConnInv, connVars, histVars
<1>1. members' = [members EXCEPT ![r][p] = NoConn] /\ cur' = cur
  BY DEF RemovePlayer
<1>2. MembersReachable'
  <2> SUFFICES ASSUME NEW s \in Room, NEW q \in Player,
                      members'[s][q] # NoConn, q \notin strayed
               PROVE  members'[s][q] = registry[q] /\ InRoom(connLogin[registry[q]], s)'
    BY DEF MembersReachable
  <2>1. members'[s][q] = members[s][q]
    BY <1>1
  <2>2. members[s][q] = registry[q] /\ InRoom(connLogin[registry[q]], s)
    BY <2>1 DEF MembersReachable
  <2>3. registry[q] \in Conn /\ Owner[connLogin[registry[q]]] = q
    BY <2>1, <2>2 DEF ConnectionsOwned
  <2> QED BY <1>1, <2>1, <2>2, <2>3 DEF InRoom
<1>3. ConnectionsOwned'
  BY <1>1 DEF ConnectionsOwned
<1>4. DeadConnectionsQueued' /\ OnlineOwned' /\ SpareConnectionsStray'
  BY DEF DeadConnectionsQueued, OnlineOwned, SpareConnectionsStray
<1> QED BY <1>2, <1>3, <1>4

\* Entering a room: the player's connection is the one in the registry, or he
\* strayed; and when he was in another room, he strays now.
LEMMA AddPlayerConnections ==
    ASSUME TypeOK, ConnInv, NEW r \in Room, NEW c \in Conn, Handles(c),
           AddPlayer(r, c), UNCHANGED <<online, connVars>>
    PROVE  ConnInv'
<1> USE DEF TypeOK, ConnInv, connVars
<1> DEFINE l == connLogin[c]
           p == Owner[l]
<1>1. l \in Login /\ p \in Player /\ (c \in alive \/ c = draining)
  BY DEF Handles, Idle
<1>2. /\ members' = [members EXCEPT ![r][p] = c]
      /\ cur' = [cur EXCEPT ![l] = r]
      /\ strayed' = IF \E s \in Room \ {r} : InRoom(l, s) THEN strayed \cup {p} ELSE strayed
  BY DEF AddPlayer
<1>3. MembersReachable'
  <2> SUFFICES ASSUME NEW s \in Room, NEW q \in Player,
                      members'[s][q] # NoConn, q \notin strayed'
               PROVE  members'[s][q] = registry[q] /\ InRoom(connLogin[registry[q]], s)'
    BY DEF MembersReachable
  <2>1. q \notin strayed
    BY <1>2
  <2>2. CASE q # p
    <3>1. members'[s][q] = members[s][q]
      BY <1>1, <1>2, <2>2
    <3>2. members[s][q] = registry[q] /\ InRoom(connLogin[registry[q]], s)
      BY <2>1, <3>1 DEF MembersReachable
    <3>3. /\ registry[q] \in Conn
          /\ Owner[connLogin[registry[q]]] = q
          /\ connLogin[registry[q]] # l
      BY <2>2, <3>1, <3>2 DEF ConnectionsOwned
    <3> QED BY <1>1, <1>2, <3>1, <3>2, <3>3 DEF InRoom
  <2>3. CASE q = p
    <3>1. registry[p] = c
      BY <1>1, <2>1, <2>3 DEF SpareConnectionsStray
    <3>2. s = r
      <4> SUFFICES ASSUME s # r PROVE FALSE
        OBVIOUS
      <4>1. members[s][p] # NoConn
        BY <1>1, <1>2, <2>3
      <4>2. InRoom(l, s)
        BY <1>1, <2>1, <2>3, <3>1, <4>1 DEF MembersReachable
      <4> QED BY <1>2, <2>3, <4>2
    <3> QED BY <1>1, <1>2, <2>3, <3>1, <3>2 DEF InRoom
  <2> QED BY <2>2, <2>3
<1>4. ConnectionsOwned'
  BY <1>1, <1>2 DEF ConnectionsOwned
<1>5. SpareConnectionsStray'
  BY <1>1, <1>2 DEF SpareConnectionsStray
<1>6. DeadConnectionsQueued' /\ OnlineOwned'
  BY DEF DeadConnectionsQueued, OnlineOwned
<1> QED BY <1>3, <1>4, <1>5, <1>6
-----------------------------------------------------------------------------
(* The invariant is inductive.                                             *)

\* The conjuncts about rooms survive a step that changes no room.
LEMMA RoomsUnchanged ==
    ASSUME RoomInv, UNCHANGED <<rooms, roomId, members, master, closedIds>>
    PROVE  RoomInv'
  BY DEF RoomInv, MasterIsMember, ListedRoomsAreLive, RoomsStayListed, MembersOf

\* A disposal: the connection found in the registry is the account's own, so
\* no other account loses its connection; and when the account did not stray,
\* the room its Player object is in is the only one it is a member of.
LEMMA DisposalPreserves ==
    ASSUME IInv, NEW p \in Player, DisposeConnection(p)
    PROVE  RoomInv' /\ ConnInv'
<1> USE DEF TypeOK, IInv, ConnInv, roomVars, histVars
<1> DEFINE c == registry[p]
<1>1. /\ p \in toDispose /\ draining = NoConn /\ draining' = NoConn
      /\ registry' = [registry EXCEPT ![p] = NoConn]
      /\ toDispose' = toDispose \ {p}
      /\ alive' = alive \ {c}
      /\ UNCHANGED <<online, connLogin, closedIds, strayed>>
  BY DEF DisposeConnection
<1>2. c \in Conn /\ connLogin[c] \in Login /\ Owner[connLogin[c]] = p
  BY <1>1 DEF DeadConnectionsQueued, ConnectionsOwned
<1>3. \A q \in Player \ {p} : registry'[q] = registry[q] /\ registry[q] # c
  BY <1>1, <1>2 DEF ConnectionsOwned
<1>4. \/ \E r \in Room : InRoom(connLogin[c], r) /\ RemovePlayer(r, p)
      \/ UNCHANGED roomVars /\ \A r \in Room : ~InRoom(connLogin[c], r)
  BY <1>2 DEF DisposeConnection
<1>5. DeadConnectionsQueued' /\ OnlineOwned'
  BY <1>1, <1>3 DEF DeadConnectionsQueued, OnlineOwned
<1>6. SpareConnectionsStray'
  BY <1>1, <1>3 DEF SpareConnectionsStray
<1>7. CASE UNCHANGED roomVars /\ \A r \in Room : ~InRoom(connLogin[c], r)
  <2>1. RoomInv'
    BY <1>1, <1>7, RoomsUnchanged
  <2>2. ConnectionsOwned'
    BY <1>1, <1>3, <1>7 DEF ConnectionsOwned
  <2>3. MembersReachable'
    <3> SUFFICES ASSUME NEW s \in Room, NEW q \in Player,
                        members[s][q] # NoConn, q \notin strayed
                 PROVE  members[s][q] = registry'[q] /\ InRoom(connLogin[registry[q]], s)'
      BY <1>1, <1>7 DEF MembersReachable
    <3>1. members[s][q] = registry[q] /\ InRoom(connLogin[registry[q]], s)
      BY DEF MembersReachable
    <3>2. q # p
      BY <1>7, <3>1
    <3> QED BY <1>1, <1>3, <1>7, <3>1, <3>2 DEF InRoom
  <2> QED BY <1>5, <1>6, <2>1, <2>2, <2>3
<1>8. CASE \E r \in Room : InRoom(connLogin[c], r) /\ RemovePlayer(r, p)
  <2>1. PICK r \in Room : InRoom(connLogin[c], r) /\ RemovePlayer(r, p)
    BY <1>8
  <2>2. p \in MembersOf(r)
    BY <1>2, <2>1 DEF InRoom, MembersOf
  <2>3. RoomInv'
    BY <1>1, <2>1, <2>2, RemovePlayerRooms
  <2>4. members' = [members EXCEPT ![r][p] = NoConn] /\ cur' = cur
    BY <2>1 DEF RemovePlayer
  <2>5. ConnectionsOwned'
    BY <1>1, <1>3, <2>4 DEF ConnectionsOwned
  <2>6. MembersReachable'
    <3> SUFFICES ASSUME NEW s \in Room, NEW q \in Player,
                        members'[s][q] # NoConn, q \notin strayed
                 PROVE  members'[s][q] = registry'[q] /\ InRoom(connLogin[registry[q]], s)'
      BY <1>1, <1>3, <2>4 DEF MembersReachable
    <3>1. members'[s][q] = members[s][q]
      BY <2>4
    <3>2. members[s][q] = registry[q] /\ InRoom(connLogin[registry[q]], s)
      BY <3>1 DEF MembersReachable
    <3>3. q # p
      BY <2>1, <2>4, <3>2 DEF InRoom
    <3>4. registry[q] \in Conn /\ Owner[connLogin[registry[q]]] = q
      BY <3>1, <3>2 DEF ConnectionsOwned
    <3> QED BY <1>1, <1>3, <2>4, <3>1, <3>2, <3>3, <3>4 DEF InRoom
  <2> QED BY <1>5, <1>6, <2>3, <2>5, <2>6
<1> QED BY <1>4, <1>7, <1>8

\* Authenticating a connection: it was no member's and in no registry entry,
\* and if it replaces another in the registry its account strays.
LEMMA CreateConnectionPreserves ==
    ASSUME TypeOK, ConnInv, NEW c \in Conn, NEW p \in Player, CreateConnection(c, p)
    PROVE  ConnInv'
<1> USE DEF TypeOK, ConnInv, roomVars
<1>1. /\ c \in alive /\ connLogin[c] = NoLogin /\ online[p] \in Login
      /\ connLogin' = [connLogin EXCEPT ![c] = online[p]]
      /\ registry' = [registry EXCEPT ![p] = c]
      /\ strayed' = IF registry[p] # NoConn THEN strayed \cup {p} ELSE strayed
      /\ UNCHANGED <<online, alive, toDispose, draining, members, cur>>
  BY DEF CreateConnection
<1>2. Owner[online[p]] = p
  BY <1>1 DEF OnlineOwned
<1>3. /\ \A q \in Player : registry[q] # c
      /\ \A s \in Room, q \in Player : members[s][q] # c
  BY <1>1 DEF ConnectionsOwned
<1>4. DeadConnectionsQueued' /\ OnlineOwned'
  BY <1>1 DEF DeadConnectionsQueued, OnlineOwned
<1>5. ConnectionsOwned'
  BY <1>1, <1>2, <1>3 DEF ConnectionsOwned
<1>6. SpareConnectionsStray'
  BY <1>1, <1>2 DEF SpareConnectionsStray
<1>7. MembersReachable'
  <2> SUFFICES ASSUME NEW s \in Room, NEW q \in Player,
                      members[s][q] # NoConn, q \notin strayed'
               PROVE  members[s][q] = registry'[q] /\ InRoom(connLogin[registry[q]], s)'
    BY <1>1 DEF MembersReachable
  <2>1. members[s][q] = registry[q] /\ InRoom(connLogin[registry[q]], s)
    BY <1>1 DEF MembersReachable
  <2>2. q # p
    BY <1>1, <2>1
  <2>3. registry[q] \in Conn /\ Owner[connLogin[registry[q]]] = q
    BY <2>1 DEF ConnectionsOwned
  <2> QED BY <1>1, <1>3, <2>1, <2>2, <2>3 DEF InRoom
<1> QED BY <1>4, <1>5, <1>6, <1>7

\* Init, and one step per action.
LEMMA InductiveInvariant == Spec => []IInv
<1>1. Init => IInv
  <2> SUFFICES ASSUME Init PROVE IInv
    OBVIOUS
  <2>1. TypeOK
    BY RoomIdFacts DEF Init, TypeOK
  <2>2. RoomInv
    BY DEF Init, RoomInv, MasterIsMember, ListedRoomsAreLive, RoomsStayListed, MembersOf
  <2>3. ConnInv
    BY DEF Init, ConnInv, DeadConnectionsQueued, MembersReachable, OnlineOwned,
           ConnectionsOwned, SpareConnectionsStray
  <2> QED BY <2>1, <2>2, <2>3 DEF IInv
<1>2. IInv /\ TypeOK' /\ [Next]_vars => IInv'
  <2> SUFFICES ASSUME IInv, TypeOK', [Next]_vars PROVE RoomInv' /\ ConnInv'
    BY DEF IInv
  <2> USE DEF IInv, connVars, roomVars, histVars
  <2>ref. ASSUME NEW c \in Conn, Handles(c), Refuse(c) PROVE RoomInv' /\ ConnInv'
    <3>1. RoomInv'
      BY <2>ref, RoomsUnchanged DEF Refuse
    <3>2. draining' \in alive \cup {draining, NoConn}
      BY <2>ref DEF Refuse, Handles, Idle
    <3> QED BY <2>ref, <3>1, <3>2, TerminatedConnections DEF Refuse
  <2>1. ASSUME NEW l \in Login, CreatePlayer(l) PROVE RoomInv' /\ ConnInv'
    <3>1. RoomInv'
      BY <2>1, RoomsUnchanged DEF CreatePlayer
    <3>2. MembersReachable'
      <4> SUFFICES ASSUME NEW s \in Room, NEW q \in Player,
                          members[s][q] # NoConn, q \notin strayed
                   PROVE  members[s][q] = registry[q] /\ InRoom(connLogin[registry[q]], s)'
        BY <2>1 DEF CreatePlayer, MembersReachable
      <4>1. members[s][q] = registry[q] /\ InRoom(connLogin[registry[q]], s)
        BY DEF ConnInv, MembersReachable
      <4>2. registry[q] \in Conn /\ connLogin[registry[q]] # l
        BY <2>1, <4>1 DEF CreatePlayer, Unreferenced, TypeOK
      <4> QED BY <2>1, <4>1, <4>2 DEF CreatePlayer, InRoom, TypeOK
    <3>3. OnlineOwned'
      BY <2>1 DEF CreatePlayer, OnlineOwned, ConnInv, TypeOK
    <3>4. DeadConnectionsQueued' /\ ConnectionsOwned' /\ SpareConnectionsStray'
      BY <2>1 DEF CreatePlayer, ConnInv, DeadConnectionsQueued, ConnectionsOwned, SpareConnectionsStray
    <3> QED BY <3>1, <3>2, <3>3, <3>4 DEF ConnInv
  <2>2. ASSUME NEW p \in Player, RemoveClient(p) PROVE RoomInv' /\ ConnInv'
    <3>1. RoomInv'
      BY <2>2, RoomsUnchanged DEF RemoveClient
    <3>2. OnlineOwned'
      BY <2>2 DEF RemoveClient, OnlineOwned, ConnInv, TypeOK
    <3>3. DeadConnectionsQueued' /\ MembersReachable' /\ ConnectionsOwned' /\ SpareConnectionsStray'
      BY <2>2 DEF RemoveClient, ConnInv, DeadConnectionsQueued, MembersReachable, InRoom,
                  ConnectionsOwned, SpareConnectionsStray
    <3> QED BY <3>1, <3>2, <3>3 DEF ConnInv
  <2>3. ASSUME NEW c \in Conn, Connect(c) PROVE RoomInv' /\ ConnInv'
    <3>1. RoomInv'
      BY <2>3, RoomsUnchanged DEF Connect
    <3>2. /\ \A q \in Player : registry[q] # c
          /\ \A s \in Room, q \in Player : members[s][q] # c
          /\ connLogin' = [connLogin EXCEPT ![c] = NoLogin]
          /\ alive' = alive \cup {c}
          /\ UNCHANGED <<online, registry, toDispose, draining, members, cur, strayed>>
      BY <2>3 DEF Connect, Unreferenced
    <3>3. ConnectionsOwned'
      BY <3>2 DEF ConnInv, ConnectionsOwned, TypeOK
    <3>4. MembersReachable'
      <4> SUFFICES ASSUME NEW s \in Room, NEW q \in Player,
                          members[s][q] # NoConn, q \notin strayed
                   PROVE  members[s][q] = registry[q] /\ InRoom(connLogin[registry[q]], s)'
        BY <3>2 DEF MembersReachable
      <4>1. members[s][q] = registry[q] /\ InRoom(connLogin[registry[q]], s)
        BY DEF ConnInv, MembersReachable
      <4>2. registry[q] \in Conn \ {c} /\ Owner[connLogin[registry[q]]] = q
        BY <3>2, <4>1 DEF ConnInv, ConnectionsOwned, TypeOK
      <4> QED BY <3>2, <4>1, <4>2 DEF InRoom, TypeOK
    <3>5. DeadConnectionsQueued' /\ OnlineOwned' /\ SpareConnectionsStray'
      BY <3>2 DEF ConnInv, DeadConnectionsQueued, OnlineOwned, SpareConnectionsStray, TypeOK
    <3> QED BY <3>1, <3>3, <3>4, <3>5 DEF ConnInv
  <2>4. ASSUME NEW c \in Conn, ConnectionTerminated(c) PROVE RoomInv' /\ ConnInv'
    <3>1. RoomInv'
      BY <2>4, RoomsUnchanged DEF ConnectionTerminated
    <3> QED BY <2>4, <3>1, TerminatedConnections DEF ConnectionTerminated
  <2>5. ASSUME NEW c \in Conn, NEW p \in Player, CreateConnection(c, p)
        PROVE  RoomInv' /\ ConnInv'
    <3>1. RoomInv'
      BY <2>5, RoomsUnchanged DEF CreateConnection
    <3> QED BY <2>5, <3>1, CreateConnectionPreserves
  <2>6. ASSUME NEW c \in Conn, NEW r \in Room, CreateRoom(c, r) PROVE RoomInv' /\ ConnInv'
    <3>1. /\ MembersOf(r) = {}
          /\ \A i \in RoomId : rooms[i] # r
          /\ \E i \in RoomId : /\ rooms[i] = NoRoom
                               /\ rooms' = [rooms EXCEPT ![i] = r]
                               /\ roomId' = [roomId EXCEPT ![r] = i]
      BY <2>6 DEF CreateRoom, MembersOf, AvailableRoomId
    <3>2. RoomInv'
      BY <2>6, <3>1, AddPlayerRooms DEF CreateRoom, Handles, Idle
    <3> QED BY <2>6, <3>2, AddPlayerConnections DEF CreateRoom
  <2>7. ASSUME NEW c \in Conn, CreateRoomRefused(c) PROVE RoomInv' /\ ConnInv'
    BY <2>7, <2>ref DEF CreateRoomRefused
  <2>8. ASSUME NEW c \in Conn, NEW i \in RoomId, JoinRoom(c, i) PROVE RoomInv' /\ ConnInv'
    <3>1. rooms[i] \in Room /\ MembersOf(rooms[i]) # {}
      BY <2>8 DEF JoinRoom, RoomInv, ListedRoomsAreLive, TypeOK
    <3>2. RoomInv'
      BY <2>8, <3>1, AddPlayerRooms DEF JoinRoom, Handles, Idle
    <3> QED BY <2>8, <3>1, <3>2, AddPlayerConnections DEF JoinRoom
  <2>9. ASSUME NEW c \in Conn, NEW i \in RoomId, JoinRoomRefused(c, i)
        PROVE  RoomInv' /\ ConnInv'
    BY <2>9, <2>ref DEF JoinRoomRefused
  <2>10. ASSUME NEW c \in Conn, NEW r \in Room, LeaveRoom(c, r) PROVE RoomInv' /\ ConnInv'
    <3> DEFINE p == Owner[connLogin[c]]
    <3>1. p \in Player /\ p \in MembersOf(r) /\ RemovePlayer(r, p)
      BY <2>10 DEF LeaveRoom, Handles, Idle, InRoom, MembersOf, TypeOK
    <3>2. UNCHANGED <<online, connVars, histVars>>
      BY <2>10 DEF LeaveRoom
    <3> HIDE DEF p
    <3> QED BY <3>1, <3>2, RemovePlayerRooms, RemovePlayerConnections
  <2>11. ASSUME NEW c \in Conn, NEW r \in Room, NEW p \in Player, KickPlayer(c, r, p)
         PROVE  RoomInv' /\ ConnInv'
    BY <2>11, RemovePlayerRooms, RemovePlayerConnections DEF KickPlayer
  <2>12. ASSUME NEW c \in Conn, NEW r \in Room, CloseRoom(c, r) PROVE RoomInv' /\ ConnInv'
    <3> DEFINE cs == {members[r][p] : p \in MembersOf(r)}
    <3>1. cs \subseteq Conn
      BY DEF MembersOf, TypeOK
    <3>2. /\ Handles(c) /\ Terminated(cs)
          /\ draining' = IF c \in cs THEN c ELSE draining
          /\ rooms' = [rooms EXCEPT ![roomId[r]] = NoRoom]
          /\ closedIds' = closedIds \cup {roomId[r]}
          /\ UNCHANGED <<online, roomId, members, master, cur, strayed>>
      BY <2>12 DEF CloseRoom
    <3> HIDE DEF cs
    <3>3. RoomInv'
      BY <3>2 DEF RoomInv, MasterIsMember, ListedRoomsAreLive, RoomsStayListed, MembersOf, TypeOK
    <3>4. draining' \in alive \cup {draining, NoConn}
      BY <3>2 DEF Handles, Idle
    <3> QED BY <3>1, <3>2, <3>3, <3>4, TerminatedConnections
  <2>13. ASSUME PacketDone PROVE RoomInv' /\ ConnInv'
    <3>1. RoomInv'
      BY <2>13, RoomsUnchanged DEF PacketDone
    <3>2. ConnInv'
      BY <2>13 DEF PacketDone, ConnInv, DeadConnectionsQueued, MembersReachable, InRoom,
                   OnlineOwned, ConnectionsOwned, SpareConnectionsStray
    <3> QED BY <3>1, <3>2
  <2>14. ASSUME NEW p \in Player, DisposeConnection(p) PROVE RoomInv' /\ ConnInv'
    BY <2>14, DisposalPreserves
  <2>15. CASE UNCHANGED vars
    <3>1. RoomInv'
      BY <2>15, RoomsUnchanged DEF vars
    <3>2. ConnInv'
      BY <2>15 DEF vars, ConnInv, DeadConnectionsQueued, MembersReachable, InRoom,
                   OnlineOwned, ConnectionsOwned, SpareConnectionsStray
    <3> QED BY <3>1, <3>2
  <2> QED
    BY <2>1, <2>2, <2>3, <2>4, <2>5, <2>6, <2>7, <2>8, <2>9, <2>10, <2>11,
       <2>12, <2>13, <2>14, <2>15 DEF Next
<1> QED BY <1>1, <1>2, TypeCorrect, PTL DEF Spec
-----------------------------------------------------------------------------
(* The theorems.                                                           *)

\* A room with members has one of them as its master, an empty one none.
THEOREM MasterCorrect == Spec => []MasterIsMember
<1>1. IInv => MasterIsMember
  BY DEF IInv, RoomInv
<1> QED BY <1>1, InductiveInvariant, PTL

\* The room list holds live rooms only, each under its own number.
THEOREM RoomListCorrect == Spec => []ListedRoomsAreLive
<1>1. IInv => ListedRoomsAreLive
  BY DEF IInv, RoomInv
<1> QED BY <1>1, InductiveInvariant, PTL

\* Nothing but :close makes a room with members disappear from the list.
THEOREM RoomsOnlyClosed == Spec => []RoomsStayListed
<1>1. IInv => RoomsStayListed
  BY DEF IInv, RoomInv
<1> QED BY <1>1, InductiveInvariant, PTL

\* A dead connection in the registry is queued for disposal, and what is
\* queued is in the registry.
THEOREM DisposalQueueCorrect == Spec => []DeadConnectionsQueued
<1>1. IInv => DeadConnectionsQueued
  BY DEF IInv, ConnInv
<1> QED BY <1>1, InductiveInvariant, PTL

\* Whoever did not stray can be taken out of his room by a disposal.
THEOREM MembersStayReachable == Spec => []MembersReachable
<1>1. IInv => MembersReachable
  BY DEF IInv, ConnInv
<1> QED BY <1>1, InductiveInvariant, PTL

\* The disposal of a connection leaves the room of its Player object: only
\* DisposeConnection clears a registry entry.
THEOREM DisposalLeaves == Spec => DisposalLeavesRoom
<1> DEFINE A == \A p \in Player, r \in Room :
                    /\ registry[p] # NoConn
                    /\ registry'[p] = NoConn
                    /\ InRoom(connLogin[registry[p]], r)
                    => members'[r][p] = NoConn
<1>1. IInv /\ [Next]_vars => [A]_vars
  <2> SUFFICES ASSUME IInv, Next, NEW p \in Player, NEW r \in Room,
                      registry[p] # NoConn, registry'[p] = NoConn,
                      InRoom(connLogin[registry[p]], r)
               PROVE  members'[r][p] = NoConn
    OBVIOUS
  <2>1. DisposeConnection(p)
    <3>1. registry' # registry
      OBVIOUS
    <3>2. ASSUME NEW c \in Conn, NEW q \in Player, CreateConnection(c, q) PROVE FALSE
      BY <3>2 DEF CreateConnection, IInv, TypeOK
    <3>3. ASSUME NEW q \in Player, DisposeConnection(q) PROVE q = p
      BY <3>3 DEF DisposeConnection, IInv, TypeOK
    <3>4. ASSUME NEW c \in Conn, ConnectionTerminated(c) \/ Refuse(c) PROVE FALSE
      BY <3>1, <3>4 DEF ConnectionTerminated, Refuse, Terminated
    <3>5. ASSUME NEW c \in Conn, NEW s \in Room, CloseRoom(c, s) PROVE FALSE
      BY <3>1, <3>5 DEF CloseRoom, Terminated
    <3> QED BY <3>1, <3>2, <3>3, <3>4, <3>5 DEF Next, CreatePlayer, RemoveClient, Connect,
               CreateRoom, CreateRoomRefused, JoinRoom, JoinRoomRefused, LeaveRoom,
               KickPlayer, PacketDone, connVars
  <2>2. PICK s \in Room : InRoom(connLogin[registry[p]], s) /\ RemovePlayer(s, p)
    BY <2>1 DEF DisposeConnection
  <2>3. s = r
    BY <2>2 DEF InRoom
  <2> QED BY <2>2, <2>3 DEF RemovePlayer, IInv, TypeOK
<1> QED BY <1>1, InductiveInvariant, PTL DEF Spec, DisposalLeavesRoom
=============================================================================

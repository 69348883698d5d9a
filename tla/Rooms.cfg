CONSTANTS
    p1 = p1  p2 = p2
    l1 = l1  l3 = l3
    NoPlayer = NoPlayer  NoLogin = NoLogin  NoConn = NoConn  NoRoom = NoRoom
    Player = {p1, p2}
    Login = {l1, l3}
    Conn = {c1, c2}
    Room = {r1, r2}
    Owner <- OneLoginEach
    MaxRooms = 1
    MaxPlayers = 2
SPECIFICATION FairSpec
INVARIANTS
    MasterIsMember
    ListedRoomsAreLive
    MembersReachable
    RoomsStayListed
    DeadConnectionsQueued
PROPERTIES
    DisposalLeavesRoom
    DeadMembersLeave
\* The connections of a model can all be held by members who strayed.
CHECK_DEADLOCK FALSE

CONSTANTS
    p1 = p1  p2 = p2  p3 = p3
    NoPlayer = NoPlayer
    Player = {p1, p2}
    Modes = {"DM", "TDM", "PTE"}
    Limits = {2, 4}
    InitialLimit = 4
    Goals = {TRUE, FALSE}
    Spectator = {p1}
    Commander = {p1}
    Restless = {p2}
SPECIFICATION FairSpec
INVARIANTS
    SessionTeamIsRoomTeam
    EveryoneHasATeam
PROPERTIES
    TimedMatchEnds
\* A closed room whose members have all strayed stays as it is.
CHECK_DEADLOCK FALSE

CONSTANTS
    p1 = p1  p2 = p2  p3 = p3
    NoPlayer = NoPlayer
    Player = {p1, p2, p3}
    Modes = {"TDM"}
    Limits = {4}
    InitialLimit = 4
    Goals = {TRUE}
    Spectator = {}
    Commander = {}
    Restless = {p1}
SPECIFICATION Spec
SYMMETRY Symmetry
INVARIANTS
    SessionWithinRoom
    ListedForSettlementOnce
PROPERTIES
    SettlesOnce
    TeamsStayEven
\* A closed room whose members have all strayed stays as it is.
CHECK_DEADLOCK FALSE

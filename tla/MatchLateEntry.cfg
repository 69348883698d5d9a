CONSTANTS
    p1 = p1  p2 = p2  p3 = p3
    NoPlayer = NoPlayer
    Player = {p1, p2}
    Modes = {"TDM"}
    Limits = {2}
    InitialLimit = 2
    Goals = {TRUE, FALSE}
    Spectator = {}
    Commander = {}
    Restless = {}
SPECIFICATION Spec
PROPERTIES
    NoLateEntry

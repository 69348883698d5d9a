\* Two players, who may ask themselves too, with few slots; one pair may be torn apart.
SPECIFICATION Spec
CONSTANTS
    p1 = p1  p2 = p2
    Player = {p1, p2}
    Lettered = {p1, p2}
    IncomingSlots = 1
    OutgoingSlots = 1
    QueueBound = 3
    TornBound = 1
SYMMETRY Symmetry
INVARIANTS
    Mutual
    WithinSlots
    RowsFollow
    RowsMutual
PROPERTIES
    ByConsent

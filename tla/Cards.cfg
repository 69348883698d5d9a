\* Two players, each with places for two of three cards, one of which may go astray.
\* One of the players wears cards.
SPECIFICATION Spec
CONSTANTS
    p1 = p1  p2 = p2
    c1 = c1  c2 = c2  c3 = c3
    Player = {p1, p2}
    Card = {c1, c2, c3}
    Space = 2
    GiftSpace = 2
    Draws = {1}
    Slots = 1
    Wearer = {p1}
    QueueBound = 2
    AstrayBound = 1
    None = None
SYMMETRY Symmetry
INVARIANTS
    WornHeld
    RowsFollow
    WithinSpace
PROPERTIES
    HandedOn

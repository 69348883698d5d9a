\* An account that logs in twice, and another.
SPECIFICATION Spec
CONSTANTS
    A = A  B = B
    a1 = a1  a2 = a2  b1 = b1
    Account = {A, B}
    Object = {a1, a2, b1}
    Owner <- TwiceOwner
    Late = {a1}
    Number = {1, 2}
    Square <- Squares2x3
    Id <- IdOfPair
    Capacity = 1
    Crowd = 1
    None = None
    x = x  y = y  z = z
SYMMETRY Symmetry
\* Every Player object of the instance may have stayed behind in a square.
CHECK_DEADLOCK FALSE
INVARIANTS
    SquareWithinCapacity
    OneSquareEach
    ClosedPlayersGone
    PlayersInListedSquares

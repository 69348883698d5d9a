\* Two players, and one place in each square before another is opened.
SPECIFICATION Spec
CONSTANTS
    A = A  B = B
    a1 = a1  a2 = a2  b1 = b1
    Account = {A, B}
    Object = {a1, b1}
    Owner <- PairOwner
    Late = {}
    Number = {1, 2}
    Square <- Squares2x3
    Id <- IdOfPair
    Capacity = 2
    Crowd = 1
    None = None
    x = x  y = y  z = z
\* Every Player object of the instance may have stayed behind in a square.
CHECK_DEADLOCK FALSE
INVARIANTS
    LastSquareStays

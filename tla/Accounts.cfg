\* Two Player objects of one account and a change of its money, with lookups of who is offline.
SPECIFICATION Spec
CONSTANTS
    A = A
    o1 = o1  o2 = o2  o3 = o3
    c1 = c1  c2 = c2
    Account = {A}
    Object = {o1, o2}
    Owner <- OwnerOne
    Capital = {A}
    Change = {c1}
    QueueBound = 2
    Requests = TRUE
    None = None
SYMMETRY Symmetry
INVARIANTS
    ConnectedIsOnline
    OnlineIsOpen
    ChangesKept
    NamesAgree

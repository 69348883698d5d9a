\* A window of four packets, and numbers that wrap around at eight, or two for events.
SPECIFICATION Spec
CONSTANTS
    client = client  server = server
    End = {client, server}
    Window = 4
    SeqMod = 8
    AckMod = 8
    AckUnit = 1
    EventMod = 2
    EventWindow = 2
    Delay = 3
    Room = 2
    Pinging = {server}
    NetBound = 2
    First = 6
    Ordered <- MCOrdered
    Unordered <- MCUnordered
    MaxSend <- MCMaxSend
INVARIANTS
    TypeOK
    ProcessedOnceInOrder
    NothingLost

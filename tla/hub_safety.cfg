SPECIFICATION Spec
CONSTANTS
    w1 = w1
    w2 = w2
    u1 = u1
    u2 = u2
    Empty = Empty
    Workspaces = {w1, w2}
    Users = {u1, u2}
    Requests <- SomeRequests
    Calls <- TwoCalls
    Clients = {c1, c2}
    Publishers = {p1}
    SendCap = 1
    QueueCap = 1
    MaxEvents = 3
INVARIANTS
    RoomsExact
    GapFree
    NothingLost
    HubInv
SYMMETRY ConnSymmetry
CHECK_DEADLOCK FALSE

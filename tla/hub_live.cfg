SPECIFICATION FairSpec
CONSTANTS
    w1 = w1
    w2 = w2
    u1 = u1
    u2 = u2
    Empty = Empty
    Workspaces = {w1, w2}
    Users = {u1, u2}
    Requests <- OneRequest
    Calls <- OneCall
    Clients = {c1}
    Publishers = {p1, p2}
    SendCap = 1
    QueueCap = 1
    MaxEvents = 4
PROPERTIES
    ImplementsFeed
    EventsArrive
    EvictedIsReaped
    ShutdownClosesRegistered
    PublishedWhileRunning
CHECK_DEADLOCK FALSE

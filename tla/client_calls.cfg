SPECIFICATION ClientSpec
CONSTANTS
    Callers = {x1, x2}
    Ids = {i1, i2, i3}
    TTL = 2
    Timeout = 1
    Cap = 1
    MaxTime = 6
    Me = me
    Other = other
    Refs = {x1, x2}
    Skews <- MCSkews
    Window = 1
    CallTimeout = 1
    TaskIds = {i1, i2, i3}
    MaxCalls = 2
    MaxPosts = 1
    MaxClock = 2
    Readers = {x1, x2}
    Grants <- MCGrants
    Asked <- MCAsked
    Cells <- MCCells
    Bots = {bot}
    Threads = {x1, x2}
    Aliases = {"", "t"}
    MaxRows = 2
    MaxCells = 12
    MaxCopies = 2
INVARIANTS
    ClientInv
    StaleAtMost
    NilMeansDone
    CallbacksSound
    AnswerIsDocks
    ScopesAsGranted
    CollectedIsInserted
PROPERTY
    OverCapIsRecent
SYMMETRY ClientSymmetry
CHECK_DEADLOCK FALSE

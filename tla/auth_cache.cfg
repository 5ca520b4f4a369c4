SPECIFICATION Spec
CONSTANTS
    t1 = t1
    a1 = a1
    Empty = Empty
    Callers = {p1, p2}
    Tokens = {t1}
    AgentTokens = {a1}
    Workspaces = {w1}
    TTL = 2
    Timeout = 1
    Cap = 1
    TokenExpiry <- SomeExpire
    MaxTime = 5
INVARIANTS
    AnswersTheQuestion
    DeadSoonRefused
    OverCapIsRecent
    CacheInv
PROPERTY
    FreshIsKept
SYMMETRY CallerSymmetry

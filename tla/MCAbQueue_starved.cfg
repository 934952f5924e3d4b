SPECIFICATION LiveSpec
CONSTANTS
    b1 = b1
    b2 = b2
    r1 = r1
    r2 = r2
    u1 = u1
    p1 = p1
    p2 = p2
    Loop = Loop
    NoReq = NoReq
    Books <- MCTwoBooks
    Owner <- MCTwoOwner
    Rules = {p1}
    Segs <- MCSegs
    Scopes <- MCScopes
    Reqs <- MCTwoReqs
    Book <- MCTwoBook
    Scope <- MCTwoScope
    Priority <- MCTwoPriority
    MayDelete = TRUE
    DbFaults = FALSE
    MaxStores = 0
    MaxLive = 0
    MaxForeground = 0
    MaxRestarts = 0
PROPERTIES EveryRowServed

SPECIFICATION LiveSpec
CONSTANTS
    b1 = b1
    b2 = b2
    r1 = r1
    r2 = r2
    u1 = u1
    p1 = p1
    p2 = p2
    Loop = Loop
    NoReq = NoReq
    Books <- MCTwoBooks
    Owner <- MCTwoOwner
    Rules = {p1}
    Segs <- MCShortSegs
    Scopes <- MCShortScopes
    Reqs <- MCTwoReqs
    Book <- MCTwoBook
    Scope <- MCShortScope
    Priority <- MCTwoPriority
    MayDelete = FALSE
    DbFaults = FALSE
    MaxStores = 0
    MaxLive = 1
    MaxForeground = 1
    MaxRestarts = 1
PROPERTIES EveryRowServed

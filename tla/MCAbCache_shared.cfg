SPECIFICATION Spec
CONSTANTS
    b1 = b1
    b2 = b2
    l1 = l1
    l2 = l2
    l3 = l3
    None = None
    Books <- MCTwoBooks
    Listeners <- MCNobody
    BookOfL <- MCNoBookOfL
    SegOfL <- MCNoSegOfL
    Segs <- MCSegs
    Shared = TRUE
    Faults = FALSE
INVARIANTS PublishedIsWhole
CHECK_DEADLOCK FALSE

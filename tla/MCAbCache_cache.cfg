SPECIFICATION LiveSpec
CONSTANTS
    b1 = b1
    b2 = b2
    l1 = l1
    l2 = l2
    l3 = l3
    None = None
    Books <- MCOneBook
    Listeners <- MCListeners
    BookOfL <- MCBookOfL
    SegOfL <- MCSegOfL
    Segs <- MCSegs
    Shared = FALSE
    Faults = TRUE
INVARIANTS PublishedIsWhole
PROPERTIES LiveNeverTwice ListenersServed
CHECK_DEADLOCK FALSE

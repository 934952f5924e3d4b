CONSTANTS
    j1 = j1
    j2 = j2
    j3 = j3
    alice = alice
    bob = bob
    NoJob = NoJob
    Jobs <- MCJobs
    Users <- MCUsers
    Owner <- MCSoleOwner
    MaxAttempts = 2
    MaxHistory = 1
    MaxActive = 2
    MaxQueued = 1
    Replicated = FALSE
    DbFaults = FALSE
    MaxRestarts = 1
SPECIFICATION Spec
SYMMETRY MCSoleSymmetry
INVARIANT NothingLost
INVARIANT Answered
INVARIANT RowsFollow
PROPERTY AbsSpec
CHECK_DEADLOCK FALSE

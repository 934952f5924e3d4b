CONSTANTS
    j1 = j1
    j2 = j2
    j3 = j3
    alice = alice
    bob = bob
    NoJob = NoJob
    Jobs <- MCPair
    Users <- MCUsers
    Owner <- MCPairOwner
    MaxAttempts = 1
    MaxHistory = 1
    MaxActive = 2
    MaxQueued = 2
    Replicated = TRUE
    DbFaults = FALSE
    MaxRestarts = 0
SPECIFICATION LiveSpec
PROPERTY EveryCallerAnswered
CHECK_DEADLOCK FALSE

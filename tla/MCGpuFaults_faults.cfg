CONSTANTS
    j1 = j1
    j2 = j2
    alice = alice
    bob = bob
    NoJob = NoJob
    Jobs <- MCPair
    Users <- MCUsers
    Owner <- MCPairOwner
    MaxAttempts = 2
    MaxHistory = 1
    MaxActive = 2
    MaxQueued = 1
    Replicated = TRUE
    DbFaults = TRUE
    MaxRestarts = 1
    Services <- MCServices
    Gpus <- MCGpus
    NoGpu = NoGpu
    GpuOf <- MCGpuOf
    Unloaders <- MCUnloaders
    Protected <- MCProtected
    Capacity <- MCCapacity
    Footprint <- MCFootprint
    Estimate <- MCEstimate
    Tolerance <- MCTolerance
    Others <- MCOthers
    Known <- MCKnown
    Comfy = "comfyui"
    UnknownLimit = 1
    FailOpen = FALSE
    MaxChanges = 4
SPECIFICATION MCSpec
INVARIANT CancelWins
INVARIANT AdmittedFits
INVARIANT DeniedOnlyWhenFull
PROPERTY EveryJobEnds
CHECK_DEADLOCK FALSE

SPECIFICATION RepairSpec
CONSTANTS
    NoCue = NoCue
    EchoWindow = 2
    AudibleWindow = 0
    Cues <- MCCues
    Segs <- MCSegs
    Requests <- MCRequests
    MaxAttempts = 2
INVARIANTS DeliveredIsSound RepairNeverWaived
PROPERTIES PassedStay

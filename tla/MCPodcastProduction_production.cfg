SPECIFICATION LiveSpec
CONSTANTS
    s1 = s1
    a1 = a1
    a2 = a2
    e1 = e1
    t1 = t1
    Takes <- MCTakes
    NoAudio = NoAudio
    Scripts <- MCOneScript
    Audios <- MCAudios
    Editors <- MCOneEditor
    Legacy = Legacy
    MayAbandon = TRUE
    MayCleanup = TRUE
    MayDelete = TRUE
    MaxRestarts = 1
INVARIANTS ActiveOwnsStatus
PROPERTIES AudioStaysPlayable AudioMatchesScript ProductionsEnd
CHECK_DEADLOCK FALSE

SPECIFICATION Spec
CONSTANTS
    s1 = s1
    a1 = a1
    a2 = a2
    e1 = e1
    t1 = t1
    Takes <- MCTakes
    NoAudio = NoAudio
    Scripts <- MCNobody
    Audios <- MCAudios
    Editors <- MCNobody
    Legacy = Legacy
    MayAbandon = FALSE
    MayCleanup = FALSE
    MayDelete = FALSE
    MaxRestarts = 0
INVARIANTS ReadyAudioIsWhole
CHECK_DEADLOCK FALSE

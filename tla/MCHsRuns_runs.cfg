SPECIFICATION MCSpec
CONSTANTS
    r1 = r1
    r2 = r2
    Runs <- MCRuns
    Kinds = {"pipeline", "reconcile", "repair", "render"}
    Editors = {e1}
    None = None
    MaxRestarts = 1
INVARIANTS OldAudioIsStale TimelineFitsAudio
PROPERTIES RevisionsTellAudioApart RunsEnd
CHECK_DEADLOCK FALSE

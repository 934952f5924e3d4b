SPECIFICATION MCSpec
CONSTANTS
    c1 = c1
    l1 = l1
    l2 = l2
    m1 = m1
    m2 = m2
    f1 = f1
    f2 = f2
    None = None
    Episodes = {1, 2, 3}
    Chapters = 2
    Figures <- MCFigures
    Appears <- MCAppears
    Package = 2
    MaxRemaps = 2
    NoOne = NoOne
    Callers <- MCCallers
    Logins <- MCLogins
    Models <- MCModels
    MaxUpdates = 1
    BuiltIn = BuiltIn
    Chain <- MCChain
    Attempts = 2
    CliTries = 2
    NetTries = 2
    MaxLogins = 1
    BusyWait = 1
    ConnectWait = 1
    MaxRestarts = 1
INVARIANTS
    ActiveIsWhole
    LockHasOneHolder
    EveryCliHasItsSession
    IntroducedAtFirst
PROPERTIES
    CallsEnd

SPECIFICATION LiveSpec
CONSTANTS
    r1 = r1
    r2 = r2
    Runs = {r1}
    Kinds = {"realign", "rewrite", "render"}
    Editors = {e1}
    None = None
    MaxRestarts = 1
PROPERTY EditingIsLockedTemporarily
CHECK_DEADLOCK FALSE

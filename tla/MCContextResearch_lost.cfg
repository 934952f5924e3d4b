SPECIFICATION ResearchSpec
CONSTANTS
    f1 = f1
    f2 = f2
    None = None
    Episodes = {1, 2, 3}
    Chapters = 2
    Figures <- MCFigures
    Appears <- MCAppears
    Package = 2
    MaxRemaps = 0
PROPERTIES
    FinishedPackagesStay

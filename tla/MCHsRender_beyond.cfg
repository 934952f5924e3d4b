SPECIFICATION RenderSpec
CONSTANTS
  GapMargin = 1  MinGap = 2  SnapMargin = 1  MaxShift = 3
  Near <- MCNear  SameBands <- MCSameBands
  MaxOffsets = 4  MatchGap = 2  SpanGap = 1  Pad = 2  Radius = 1
  MinIntro = 3  MinEnding = 2  MinBumper = 2  ClusterRadius = 3
  Interval = 10  Window = 12  Spacing = 6  GapCap = 10
  OpenFrom = 3  OpenTo = 18  OpenGap = 3  OpenMin = 8  OpenWords = 4  OpenSlack = 1
  SlackPlan = 1  MaxLead = 4  MaxAnchor = 6  SpeechMargin = 1  ForcedSpacing = 20
  Context = 4  MinPrefix = 8  MinSuffix = 6  MinDetail = 3
  EstPer = 2  EstMin = 2  EstCap = 8  OpeningCap = 6
  Cases <- MCCases
  ClipLimit = 4  CadenceIn = 1  CadenceOut = 1  EndPause = 1
  CheckMargin = 1  MaxSilence = 40  MaxRenders = 2
INVARIANTS LongCutsAreReported InsertsStartAtTheirScene LengthNeverFails
CHECK_DEADLOCK FALSE

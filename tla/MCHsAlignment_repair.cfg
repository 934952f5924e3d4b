SPECIFICATION Spec
CONSTANTS
  EpisodeOf <- MCEpisodeOf
  Mute <- MCMute
  Homes <- MCHomes
  Naming <- MCNaming
  Aliases <- MCAliases
  FirstSeen <- MCFirstSeen
  HintAt <- MCHintAt
  Offers <- MCOffers
  Edges <- MCEdges
  Requests <- MCRequests
  HeardCut <- MCHeardCut
  MaxGap = 4
  Floor = 2
  MaxCues = 2
  MaxIntros = 1
  LosesLocks = TRUE
  MaxRuns = 3
INVARIANT NothingDropped
PROPERTIES LockedStay GapsClosed RetryContinues
CHECK_DEADLOCK FALSE

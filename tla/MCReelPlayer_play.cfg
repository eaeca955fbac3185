SPECIFICATION FairSpec
CONSTANTS
  None = None
  RealPeers <- Observing
  Recordings <- TwoReels
  MAX_EVENTS = 4
  MAX_SAMPLES = 2
  SCORE_HISTORY = 2
  DURATION = 2
  Speeds = {1, 2}
  MaxTick = 2
  MaxLoads = 2
  MaxOps = 3
CHECK_DEADLOCK FALSE
INVARIANTS
  LoadedIsEntered
  ScrubberTellsTruth
PROPERTIES
  ShowsThePosition
  PlayEnds

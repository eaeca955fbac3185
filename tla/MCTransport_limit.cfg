SPECIFICATION FairSpec
CONSTANTS
  None = None
  RealPeers <- NoPeers
  MAX_EVENTS = 1
  MAX_SAMPLES = 1
  SCORE_HISTORY = 1
  DURATION = 1
  Durations = {2}
  Length = 2
  MaxTime = 2
  MaxWire = 1
  MaxCalls = 2
  MaxOps = 2
PROPERTIES
  ButtonSettles
  PausesAtLimit

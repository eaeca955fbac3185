SPECIFICATION FairSpec
CONSTANTS
  None = None
  RealPeers <- NoPeers
  MAX_EVENTS = 1
  MAX_SAMPLES = 1
  SCORE_HISTORY = 1
  DURATION = 2
  Sockets = {s1, s2}
  Timers = {t1, t2}
  MaxFaults = 1
  MaxWire = 2
INVARIANTS
  LinkOfThePage
  LinkReadsTrue
PROPERTY Reconnects

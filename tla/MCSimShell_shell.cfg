SPECIFICATION Spec
CONSTANTS
  None = None
  RealPeers <- OneObserver
  SimPeers <- OnePeer
  MAX_EVENTS = 1
  MAX_SAMPLES = 1
  SCORE_HISTORY = 1
  DURATION = 2
  MaxCalls = 1
  MaxOps = 4
  MaxUpsets = 1
INVARIANTS LayoutReturns LinkIsTheView
PROPERTIES EscapeGetsOut
CHECK_DEADLOCK FALSE

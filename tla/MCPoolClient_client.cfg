CONSTANTS
  None = None
  Device = {a, b}
  Seeds = {a}
  Reporters = {a}
  FeedSize = 2
  MaxNews = 2
SPECIFICATION FairSpec
INVARIANTS
  FeedNeverRepeats
  NothingSkipped
PROPERTIES
  StoppedLoopStops
  Reconnects
CHECK_DEADLOCK FALSE

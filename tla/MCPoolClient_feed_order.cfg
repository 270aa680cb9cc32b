CONSTANTS
  None = None
  Device = {a}
  Seeds = {a}
  Reporters = {a}
  FeedSize = 2
  MaxNews = 2
SPECIFICATION Spec
INVARIANT FeedInOrder
CHECK_DEADLOCK FALSE

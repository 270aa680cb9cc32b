SPECIFICATION Spec
CONSTANTS
  a = a
  b = b
  c = c
  NoRow = NoRow
  Device <- Pair
  Seeds <- JoinEachOther
  Pool <- OnePool
  Discovering <- NoDiscovery
  Fanout = 2
  ClockMayStepBack = TRUE
  Changes = {}
  MaxIncarnation = 2
  MaxHeartbeat = 2
  MaxExchanges = 1
CHECK_DEADLOCK FALSE
INVARIANTS NobodyAhead

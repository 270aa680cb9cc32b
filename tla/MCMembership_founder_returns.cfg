SPECIFICATION FounderReturnsSpec
CONSTANTS
  a = a
  b = b
  c = c
  NoRow = NoRow
  Device <- Trio
  Seeds <- JoinThroughA
  Pool <- OnePool
  Discovering <- NoDiscovery
  Fanout = 2
  ClockMayStepBack = FALSE
  Changes = {}
  MaxIncarnation = 2
  MaxHeartbeat = 2
  MaxExchanges = 2
CHECK_DEADLOCK FALSE
PROPERTIES Converges

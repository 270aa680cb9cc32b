SPECIFICATION FairSpec
CONSTANTS
  a = a
  b = b
  c = c
  NoRow = NoRow
  Device <- Pair
  Seeds <- JoinThroughA
  Pool <- OnePool
  Discovering <- FullDiscovery
  Fanout = 2
  ClockMayStepBack = FALSE
  Changes = {}
  MaxIncarnation = 2
  MaxHeartbeat = 2
  MaxExchanges = 1
CHECK_DEADLOCK FALSE
INVARIANTS NobodyAhead OnlyOwnerWrites
PROPERTIES OnlyNewsRevives Converges

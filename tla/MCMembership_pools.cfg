SPECIFICATION Spec
CONSTANTS
  a = a
  b = b
  c = c
  NoRow = NoRow
  Device <- Trio
  Seeds <- JoinThroughA
  Pool <- CElsewhere
  Discovering <- NoDiscovery
  Fanout = 1
  ClockMayStepBack = FALSE
  Changes = {"left"}
  MaxIncarnation = 1
  MaxHeartbeat = 2
  MaxExchanges = 2
CHECK_DEADLOCK FALSE
INVARIANTS PoolsNeverMix StampsNameRows
PROPERTIES EntriesMoveForward ViewsPromise

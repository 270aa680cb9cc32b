SPECIFICATION FairSpec
CONSTANTS
  Device <- Two
  Stages = 2
  Replicas = 1
  UseSpareCapacity = TRUE
  Slots <- FirstHasTwo
  Speed <- FirstIsFast
  Owners <- None
  Asking = FALSE
  Disruptions <- Anything
  MaxDisruptions = 1
CHECK_DEADLOCK FALSE
INVARIANTS TypeOK FitsInMemory
PROPERTIES OnlyDrainsDrop Heals

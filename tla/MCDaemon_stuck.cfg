SPECIFICATION FairSpec
CONSTANTS
  Device <- Two
  Stages = 2
  Replicas = 1
  UseSpareCapacity = FALSE
  Slots <- OneSlot
  Speed <- OneSpeed
  Owners <- None
  Asking = FALSE
  Disruptions <- None
  MaxDisruptions = 0
CHECK_DEADLOCK FALSE
PROPERTIES Heals

SPECIFICATION Spec
CONSTANTS
  Device <- Two
  Stages = 1
  Replicas = 1
  UseSpareCapacity = FALSE
  Slots <- OneSlot
  Speed <- OneSpeed
  Owners <- One
  Asking = TRUE
  Disruptions <- None
  MaxDisruptions = 0
CHECK_DEADLOCK FALSE
PROPERTIES FinishWhatTheyHave

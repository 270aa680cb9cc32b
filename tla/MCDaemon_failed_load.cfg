SPECIFICATION Spec
CONSTANTS
  Device <- Two
  Stages = 1
  Replicas = 1
  UseSpareCapacity = FALSE
  Slots <- OneSlot
  Speed <- OneSpeed
  Owners <- None
  Asking = FALSE
  Disruptions <- Fail
  MaxDisruptions = 1
CHECK_DEADLOCK FALSE
PROPERTIES FailureCoolsDown

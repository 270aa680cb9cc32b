SPECIFICATION Spec
CONSTANTS
  Device <- Two
  Stages = 2
  Replicas = 1
  UseSpareCapacity = FALSE
  Slots <- TwoSlots
  Speed <- OneSpeed
  Owners <- None
  Asking = FALSE
  Disruptions <- None
  MaxDisruptions = 0
CHECK_DEADLOCK FALSE
INVARIANTS AtMostOneTooMany

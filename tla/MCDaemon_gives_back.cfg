SPECIFICATION DrainSpec
CONSTANTS
  Device <- Two
  Stages = 1
  Replicas = 1
  UseSpareCapacity = FALSE
  Slots <- OneSlot
  Speed <- OneSpeed
  Owners <- One
  Asking = TRUE
  Disruptions <- Crashes
  MaxDisruptions = 1
CHECK_DEADLOCK FALSE
INVARIANTS AwayHoldsNothing
PROPERTIES ReplacedBeforeBroken DrainCompletes

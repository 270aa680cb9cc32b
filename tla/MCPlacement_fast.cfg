SPECIFICATION MCSpec
CONSTANTS
  Device <- ThreeDevices
  Present <- ThreeDevices
  Stages = 2
  Replicas = 2
  UseSpareCapacity = TRUE
  Slots <- RoomAtTheSlow
  Speed <- FastAndSlow
CHECK_DEADLOCK FALSE
INVARIANTS PlanIsMaximal DarkStagesFirst SurplusIsFaster PlanSettles
PROPERTIES CoverageKeepsUp

SPECIFICATION Spec
CONSTANTS
  BusyAfter = 2
  IdleAfter = 6
  Buttons <- TakeBack
CHECK_DEADLOCK FALSE
PROPERTIES HandStands

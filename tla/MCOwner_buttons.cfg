SPECIFICATION FairSpec
CONSTANTS
  BusyAfter = 2
  IdleAfter = 6
  Buttons <- BothButtons
CHECK_DEADLOCK FALSE
PROPERTIES NoFlapping LendsAgain GivesWay

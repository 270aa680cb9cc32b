SPECIFICATION Spec
CONSTANTS
  p = p
  q = q
  a = a
  b = b
  Question <- OneQuestion
  Copy <- EverywhereCopies
  Stages = 2
  MaxNewTokens = 2
  MaxFailovers = 1
  MaxBusyRetries = 1
  PatienceEnds = FALSE
CHECK_DEADLOCK FALSE
PROPERTIES NeverRefusedMidway

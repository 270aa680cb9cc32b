SPECIFICATION Spec
CONSTANTS
  p = p
  q = q
  a = a
  b = b
  Question <- TwoQuestions
  Copy <- OneStageCopies
  Stages = 1
  MaxNewTokens = 2
  MaxFailovers = 1
  MaxBusyRetries = 1
  PatienceEnds = TRUE
CHECK_DEADLOCK FALSE
INVARIANTS LoadIsTrue

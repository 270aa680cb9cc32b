SPECIFICATION FairSpec
CONSTANTS
  p = p
  q = q
  a = a
  b = b
  Question <- OneQuestion
  Copy <- SpareCopies
  Stages = 2
  MaxNewTokens = 2
  MaxFailovers = 1
  MaxBusyRetries = 1
  PatienceEnds = TRUE
CHECK_DEADLOCK FALSE
INVARIANTS RecordIsBounded
PROPERTIES RightContext EveryQuestionEnds

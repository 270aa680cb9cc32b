SPECIFICATION Spec
CONSTANTS
  None = None
  Stage = {s}
  Copy = {a}
CHECK_DEADLOCK FALSE
INVARIANT NoServerForgotten

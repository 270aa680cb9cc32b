SPECIFICATION Spec
CONSTANTS
  None = None
  Stage = {s, t}
  Copy = {a, b, c, d}
CHECK_DEADLOCK FALSE
SYMMETRY Symmetry
INVARIANTS TypeOK AdvertisedServes StoppedOnce

CONSTANTS
  Events = {e1, e2}
  Delays = {5, 10}
  PitMax = 3
  PitNum = 6
  PitDen = 5
  Latched = FALSE
  DeleteAny = FALSE
  NULL = NULL
SPECIFICATION Spec
INVARIANT NotEarly

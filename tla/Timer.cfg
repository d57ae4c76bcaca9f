CONSTANTS
  Events = {e1, e2, e3}
  Delays = {2, 9}
  PitMax = 3
  PitNum = 6
  PitDen = 5
  Latched = FALSE
  DeleteAny = FALSE
  NULL = NULL
SPECIFICATION Spec
INVARIANTS NoEventLost Armed NewestNotEarly
PROPERTY EveryEventEnds

CONSTANTS
  Size = 3
  Codes = {5, 7, 19}
  Reset = 19
  MaxKeys = 5
SPECIFICATION Spec
CHECK_DEADLOCK FALSE
INVARIANTS KeysInOrder NoKeyForgotten
PROPERTY KeysRead

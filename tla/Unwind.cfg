CONSTANTS
  Threads = {"t1", "t2"}
  Depth <- MCDepth
  Frames = 2
  Dtors = {1, 2}
  Types <- MCTypes
  Parent <- MCParent
  Clauses <- MCClauses
SPECIFICATION Spec
CHECK_DEADLOCK FALSE
INVARIANTS  CatchesItsOwn
PROPERTIES BlocksInOrder  ImplementsCleanup
VIEW View

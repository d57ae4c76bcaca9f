CONSTANTS
  Threads = {main, idle, t1}
  Objs = {o}
  Main = main
  Idle = idle
  NULL = NULL
  Calls = {"yield", "fork", "lock", "unlock"}
  NewPriorities = {}
  MaxCount = 2
  WellBehaved = FALSE
SPECIFICATION Spec
INVARIANT MutualExclusion

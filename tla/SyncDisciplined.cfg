CONSTANTS
  Threads = {main, idle, t1, t2}
  Objs = {o}
  Main = main
  Idle = idle
  NULL = NULL
  Calls = {"yield", "fork", "exit", "join", "lock", "unlock", "wait", "signal", "broadcast"}
  NewPriorities = {}
  MaxCount = 2
  WellBehaved = TRUE
SPECIFICATION FairSpec
INVARIANTS OwnerIsInside MutexInv
PROPERTIES RoundRobin JoinReturns

CONSTANTS
  Threads = {main, idle, t1}
  Objs = {o}
  Main = main
  Idle = idle
  NULL = NULL
  Calls = {"yield", "fork", "exit", "join", "lock", "unlock", "wait", "signal", "broadcast", "preempt", "set_priority"}
  NewPriorities = {2}
  MaxCount = 1
  WellBehaved = FALSE
SPECIFICATION Spec
INVARIANTS LinkedOnce NoThreadLost StateMatchesQueue RunQueueNeverEmpty ExitIsFinal

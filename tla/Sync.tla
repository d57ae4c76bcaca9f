-------------------------------- MODULE Sync --------------------------------
(***************************************************************************)
(* The thread scheduler (kernel/thread.c), the recursive mutexes and       *)
(* monitors built on it (kernel/sync.c) and the context switch of the i386 *)
(* port (arch/i386/i386.c).                                                *)
(*                                                                         *)
(* One CPU runs one thread at a time and a thread gives it up only by a    *)
(* call, so the threads interleave at thread_schedule.  The spin locks     *)
(* disable interrupts; what the code does under one of them, or without an *)
(* interrupt handler being able to see it, is one step.  The steps are cut *)
(* at the places where interrupts are on and a handler would see a         *)
(* half-done operation.                                                    *)
(*                                                                         *)
(* thread_lock(p), thread_wait(p) ... find the monitor of address p in     *)
(* locktable, creating it zeroed on first use, and never remove it: here   *)
(* every address has its monitor from the start.  Each thread's own        *)
(* address is the monitor thread_exit and thread_join use.                 *)
(***************************************************************************)
EXTENDS ListOps, Integers, Functions

CONSTANTS
  Threads,       \* thread_t structures
  Objs,          \* the other addresses used as monitors
  Main,          \* the boot thread, which runs kernel_main
  Idle,          \* process 1, which yields forever (run_init)
  NULL,          \* the null pointer
  Calls,         \* the kernel entry points the threads use
  NewPriorities, \* the priorities passed to thread_set_priority
  MaxCount,      \* bound on the nesting of thread_lock, and on a mutex's count
  WellBehaved    \* TRUE: threads keep the rules every caller in src keeps

EntryPoints == {"yield", "preempt", "fork", "exit", "join", "lock", "unlock",
                "wait", "signal", "broadcast", "set_priority"}

THREAD_INTERRUPT == 0
THREAD_NORMAL    == 1
THREAD_IDLE      == 2
Priorities       == THREAD_INTERRUPT .. THREAD_IDLE

Monitors == Threads \cup Objs

ASSUME ConstantsAssumption ==
  /\ Main \in Threads /\ Idle \in Threads /\ Main # Idle
  /\ Threads \cap Objs = {}
  /\ NULL \notin Monitors
  /\ Calls \subseteq EntryPoints
  /\ NewPriorities \subseteq Priorities
  /\ MaxCount \in Nat \ {0}
  /\ WellBehaved \in BOOLEAN

VARIABLES
  cur,      \* the running thread, arch_get_thread()
  cpu,      \* what cur is doing: "run", or in thread_schedule: "schedule"
            \* before the run queue is read, "switch" after it
  next,     \* the thread thread_schedule took off the run queue
  tstate,   \* thread->state
  priority, \* thread->priority
  list,     \* the queues threads are linked on, by list head
  owner,    \* mutex owner of each monitor
  count,    \* mutex count of each monitor
  pc,       \* where each thread is, or will be when it runs again
  mon,      \* the monitor of the operation each thread is in
  lret,     \* where mutex_lock returns to
  ret,      \* where monitor_wait or monitor_broadcast returns to
  saved,    \* monitor_wait's local count
  held,     \* history: thread_lock calls of t on m not yet unlocked
  panic     \* "none", or why the kernel stopped

sched == <<cur, cpu, next>>
mutex == <<owner, count>>
frame == <<pc, mon, lret, ret, saved>>
vars  == <<cur, cpu, next, tstate, priority, list, owner, count,
           pc, mon, lret, ret, saved, held, panic>>

TStates == {"NEW", "RUNNABLE", "RUNNING", "SLEEPING", "TERMINATED"}
Labels  == {"run", "acquire", "retry", "release", "restore", "check",
            "broadcast", "finish", "dead"}

(* The list heads: queue[p], lock->waiting and monitor->waiting. *)
Run(p)  == <<"run", p>>
Lock(m) == <<"lock", m>>
Cond(m) == <<"cond", m>>
Heads   == {Run(p) : p \in Priorities} \cup {Lock(m) : m \in Monitors}
           \cup {Cond(m) : m \in Monitors}

(* The fields of threads and mutexes, and the places in the code, keep     *)
(* their types; thread_set_priority stays within its bounds.               *)
TypeOK ==
  /\ cur \in Threads
  /\ cpu \in {"run", "schedule", "switch"}
  /\ next \in IF cpu = "switch" THEN Threads ELSE {NULL}
  /\ tstate \in [Threads -> TStates]
  /\ priority \in [Threads -> Priorities]
  /\ list \in [Heads -> Seq(Threads)]
  /\ owner \in [Monitors -> Threads \cup {NULL}]
  /\ count \in [Monitors -> Int]
  /\ pc \in [Threads -> Labels]
  /\ mon \in [Threads -> Monitors]
  /\ lret \in [Threads -> {"run", "check", "broadcast", "restore"}]
  /\ ret \in [Threads -> {"run", "check", "finish"}]
  /\ saved \in [Threads -> Int]
  /\ held \in [Threads -> [Monitors -> Int]]
  /\ panic \in {"none", "empty", "null"}

(* Faulty variant: kernel_main goes on without having forked process 1.    *)
Init_NoProcess1 ==
  /\ cur = Main /\ cpu = "run" /\ next = NULL
  /\ tstate = [t \in Threads |-> IF t = Main THEN "RUNNING" ELSE "NEW"]
  /\ priority = [t \in Threads |-> THREAD_NORMAL]
  /\ list = [h \in Heads |-> <<>>]
  /\ owner = [m \in Monitors |-> NULL]
  /\ count = [m \in Monitors |-> 0]
  /\ pc = [t \in Threads |-> "run"]
  /\ mon = [t \in Threads |-> t]
  /\ lret = [t \in Threads |-> "run"]
  /\ ret = [t \in Threads |-> "run"]
  /\ saved = [t \in Threads |-> 0]
  /\ held = [t \in Threads |-> [m \in Monitors |-> 0]]
  /\ panic = "none"

(* kernel_main has forked process 1, which is waiting for its first turn. *)
Init ==
  /\ cur = Main /\ cpu = "run" /\ next = NULL
  /\ tstate = [t \in Threads |-> IF t = Main THEN "RUNNING"
                                 ELSE IF t = Idle THEN "RUNNABLE" ELSE "NEW"]
  /\ priority = [t \in Threads |-> THREAD_NORMAL]
  /\ list = [h \in Heads |-> IF h = Run(THREAD_NORMAL) THEN <<Idle>> ELSE <<>>]
  /\ owner = [m \in Monitors |-> NULL]
  /\ count = [m \in Monitors |-> 0]
  /\ pc = [t \in Threads |-> "run"]
  /\ mon = [t \in Threads |-> t]
  /\ lret = [t \in Threads |-> "run"]
  /\ ret = [t \in Threads |-> "run"]
  /\ saved = [t \in Threads |-> 0]
  /\ held = [t \in Threads |-> [m \in Monitors |-> 0]]
  /\ panic = "none"
-----------------------------------------------------------------------------
(* The thread holds no monitor, or none but m. *)
HoldsNone(t)    == \A m \in Monitors : held[t][m] = 0
HoldsOnly(t, m) == \A n \in Monitors : held[t][n] = IF n = m THEN 1 ELSE 0

(* t is running its own code and makes the given call. *)
Calling(t, call) ==
  /\ panic = "none"
  /\ cpu = "run" /\ cur = t /\ pc[t] = "run"
  /\ call \in Calls
  /\ t # Idle \/ call = "yield"

(* t is inside a kernel call, at the given place. *)
At(t, label) == panic = "none" /\ cpu = "run" /\ cur = t /\ pc[t] = label

Goto(t, label) == pc' = [pc EXCEPT ![t] = label]

(* thread_queue(list, t, state) and thread_resume(t). *)
Resume(lists, t) == [lists EXCEPT ![Run(priority[t])] = AppendTo(@, t)]

(* Call thread_schedule; when it returns the thread continues at label. *)
Deschedule(t, label) == cpu' = "schedule" /\ Goto(t, label)

(* Faulty variant: the thread goes to the front of its run queue. *)
thread_yield_Front(t) ==
  /\ Calling(t, "yield")
  /\ WellBehaved => HoldsNone(t)
  /\ tstate' = [tstate EXCEPT ![t] = "RUNNABLE"]
  /\ list' = [list EXCEPT ![Run(priority[t])] = <<t>> \o @]
  /\ Deschedule(t, "run")
  /\ UNCHANGED <<cur, next, priority, mutex, mon, lret, ret, saved, held, panic>>

thread_yield(t) ==
  /\ Calling(t, "yield")
  /\ WellBehaved => HoldsNone(t)
  /\ tstate' = [tstate EXCEPT ![t] = "RUNNABLE"]
  /\ list' = Resume(list, t)
  /\ Deschedule(t, "run")
  /\ UNCHANGED <<cur, next, priority, mutex, mon, lret, ret, saved, held, panic>>

thread_preempt(t) ==
  /\ Calling(t, "preempt")
  /\ WellBehaved => HoldsNone(t)
  /\ tstate' = [tstate EXCEPT ![t] = "RUNNABLE"]
  /\ list' = [list EXCEPT ![Run(priority[t])] = PrependTo(@, t)]
  /\ Deschedule(t, "run")
  /\ UNCHANGED <<cur, next, priority, mutex, mon, lret, ret, saved, held, panic>>

thread_set_priority(t) ==
  /\ Calling(t, "set_priority")
  /\ \E u \in Threads, p \in NewPriorities :
       tstate[u] # "NEW" /\ priority' = [priority EXCEPT ![u] = p]
  /\ UNCHANGED <<sched, tstate, list, mutex, frame, held, panic>>

(* thread_schedule finds queue p to be the first that is not empty. *)
PickFrom(p) ==
  /\ list[Run(p)] # <<>>
  /\ \A q \in Priorities : q < p => list[Run(q)] = <<>>
  /\ next' = Head(list[Run(p)])
  /\ list' = [list EXCEPT ![Run(p)] = DeleteHead(@)]
  /\ cpu' = "switch"
  /\ UNCHANGED panic

thread_schedule ==
  /\ panic = "none" /\ cpu = "schedule"
  /\ \/ \E p \in Priorities : PickFrom(p)
     \/ /\ \A p \in Priorities : list[Run(p)] = <<>>
        /\ panic' = "empty"
        /\ UNCHANGED <<next, list, cpu>>
  /\ UNCHANGED <<cur, tstate, priority, mutex, frame, held>>

(* Faulty variant: the state of the thread switched to is not updated. *)
arch_thread_switch_OldState ==
  /\ panic = "none" /\ cpu = "switch"
  /\ tstate' = [tstate EXCEPT ![cur] = IF @ = "RUNNING" THEN "RUNNABLE" ELSE @]
  /\ cur' = next /\ cpu' = "run" /\ next' = NULL
  /\ UNCHANGED <<priority, list, mutex, frame, held, panic>>

arch_thread_switch ==
  /\ panic = "none" /\ cpu = "switch"
  /\ \/ /\ next = cur
        /\ tstate' = [tstate EXCEPT ![cur] = "RUNNING"]
     \/ /\ next # cur
        /\ tstate' = [tstate EXCEPT
             ![cur]  = IF @ = "RUNNING" THEN "RUNNABLE" ELSE @,
             ![next] = IF @ = "RUNNABLE" THEN "RUNNING" ELSE @]
  /\ cur' = next /\ cpu' = "run" /\ next' = NULL
  /\ UNCHANGED <<priority, list, mutex, frame, held, panic>>

(* Faulty variant: parent and child both put the child on its run queue. *)
thread_fork_QueuedTwice(t, u) ==
  /\ Calling(t, "fork")
  /\ WellBehaved => HoldsNone(t)
  /\ tstate[u] = "NEW"
  /\ tstate' = [tstate EXCEPT ![u] = "RUNNABLE"]
  /\ priority' = [priority EXCEPT ![u] = priority[t]]
  /\ list' = [list EXCEPT ![Run(priority[t])] = AppendTo(AppendTo(@, u), u)]
  /\ UNCHANGED <<sched, mutex, frame, held, panic>>

(* The child u is a copy of the parent, and returns from thread_fork too. *)
thread_fork(t, u) ==
  /\ Calling(t, "fork")
  /\ WellBehaved => HoldsNone(t)
  /\ tstate[u] = "NEW"
  /\ tstate' = [tstate EXCEPT ![u] = "RUNNABLE"]
  /\ priority' = [priority EXCEPT ![u] = priority[t]]
  /\ list' = [list EXCEPT ![Run(priority[t])] = AppendTo(@, u)]
  /\ UNCHANGED <<sched, mutex, frame, held, panic>>
-----------------------------------------------------------------------------
(* mutex_lock has got the mutex: count it and return. *)
Locked(t, m) ==
  /\ count' = [count EXCEPT ![m] = @ + 1]
  /\ held' = IF lret[t] = "restore" THEN held ELSE [held EXCEPT ![t][m] = @ + 1]
  /\ Goto(t, lret[t])
  /\ UNCHANGED <<sched, tstate, list>>

(* thread_lock_wait: join lock->waiting, then wake its first thread, then  *)
(* give up the CPU and look again.                                         *)
thread_lock_wait(t, m) ==
  /\ LET waiting == AppendTo(list[Lock(m)], t)
         first   == Head(waiting)
     IN  /\ list' = Resume([list EXCEPT ![Lock(m)] = DeleteHead(waiting)], first)
         /\ tstate' = [[tstate EXCEPT ![t] = "SLEEPING"] EXCEPT ![first] = "RUNNABLE"]
  /\ Deschedule(t, "retry")
  /\ UNCHANGED <<cur, next, mutex, held>>

(* mutex_lock, from its start. *)
mutex_lock(t) ==
  /\ At(t, "acquire")
  /\ LET m == mon[t] IN
     \/ /\ owner[m] = NULL
        /\ owner' = [owner EXCEPT ![m] = t]
        /\ Locked(t, m)
     \/ owner[m] = t /\ Locked(t, m) /\ UNCHANGED owner
     \/ owner[m] \notin {NULL, t} /\ thread_lock_wait(t, m)
  /\ UNCHANGED <<priority, mon, lret, ret, saved, panic>>

(* mutex_lock, back from thread_lock_wait. *)
mutex_lock_retry(t) ==
  /\ At(t, "retry")
  /\ LET m == mon[t] IN
     \/ owner[m] = NULL /\ Locked(t, m) /\ UNCHANGED owner
     \/ owner[m] # NULL /\ thread_lock_wait(t, m)
  /\ UNCHANGED <<priority, mon, lret, ret, saved, panic>>

(* Faulty variant: the first unlock of a nested lock frees the mutex. *)
mutex_unlock_NotNested(t, m) ==
  IF owner[m] = t
  THEN /\ count' = [count EXCEPT ![m] = 0]
       /\ owner' = [owner EXCEPT ![m] = NULL]
  ELSE UNCHANGED mutex

(* What mutex_unlock does to the mutex; only the owner changes anything.   *)
mutex_unlock(t, m) ==
  IF owner[m] = t
  THEN /\ count' = [count EXCEPT ![m] = @ - 1]
       /\ owner' = [owner EXCEPT ![m] = IF count[m] = 1 THEN NULL ELSE @]
  ELSE UNCHANGED mutex

thread_lock(t, m) ==
  /\ Calling(t, "lock")
  /\ held[t][m] < MaxCount /\ count[m] < MaxCount
  /\ mon' = [mon EXCEPT ![t] = m]
  /\ lret' = [lret EXCEPT ![t] = "run"]
  /\ Goto(t, "acquire")
  /\ UNCHANGED <<sched, tstate, priority, list, mutex, ret, saved, held, panic>>

thread_unlock(t, m) ==
  /\ Calling(t, "unlock")
  /\ held[t][m] > 0 /\ count[m] > -MaxCount
  /\ mutex_unlock(t, m)
  /\ held' = [held EXCEPT ![t][m] = @ - 1]
  /\ UNCHANGED <<sched, tstate, priority, list, frame, panic>>
-----------------------------------------------------------------------------
(* Faulty variant: the count is noted after the mutex_unlock. *)
Enqueue_LateCount(t, m) ==
  /\ list' = [list EXCEPT ![Cond(m)] = AppendTo(@, t)]
  /\ tstate' = [tstate EXCEPT ![t] = "SLEEPING"]
  /\ saved' = [saved EXCEPT ![t] = count[m] - 1]
  /\ Goto(t, "release")

(* monitor_wait up to its mutex_unlock: join monitor->waiting, note count. *)
Enqueue(t, m) ==
  /\ list' = [list EXCEPT ![Cond(m)] = AppendTo(@, t)]
  /\ tstate' = [tstate EXCEPT ![t] = "SLEEPING"]
  /\ saved' = [saved EXCEPT ![t] = count[m]]
  /\ Goto(t, "release")

thread_wait(t, m) ==
  /\ Calling(t, "wait")
  /\ held[t][m] > 0
  /\ WellBehaved => HoldsOnly(t, m)
  /\ Enqueue(t, m)
  /\ mon' = [mon EXCEPT ![t] = m]
  /\ ret' = [ret EXCEPT ![t] = "run"]
  /\ UNCHANGED <<sched, priority, mutex, lret, held, panic>>

(* One mutex_unlock, then thread_schedule; mutex_lock follows on waking.   *)
monitor_wait_release(t) ==
  /\ At(t, "release")
  /\ mutex_unlock(t, mon[t])
  /\ lret' = [lret EXCEPT ![t] = "restore"]
  /\ Deschedule(t, "acquire")
  /\ UNCHANGED <<cur, next, tstate, priority, list, mon, ret, saved, held, panic>>

monitor_wait_restore(t) ==
  /\ At(t, "restore")
  /\ count' = [count EXCEPT ![mon[t]] = saved[t]]
  /\ Goto(t, ret[t])
  /\ UNCHANGED <<sched, tstate, priority, list, owner, mon, lret, ret, saved, held, panic>>

(* Faulty variant: the thread taken off the queue is not resumed. *)
monitor_signal_NotResumed(m) ==
  IF list[Cond(m)] # <<>>
  THEN list' = [list EXCEPT ![Cond(m)] = DeleteHead(@)] /\ UNCHANGED <<tstate, panic>>
  ELSE panic' = "null" /\ UNCHANGED <<list, tstate>>

(* Take the first thread off monitor->waiting.  There is no test for an    *)
(* empty queue: LIST_DELETE then goes through the null pointer.            *)
monitor_signal(m) ==
  LET resume == Head(list[Cond(m)]) IN
  IF list[Cond(m)] # <<>>
  THEN /\ list' = Resume([list EXCEPT ![Cond(m)] = DeleteHead(@)], resume)
       /\ tstate' = [tstate EXCEPT ![resume] = "RUNNABLE"]
       /\ UNCHANGED panic
  ELSE panic' = "null" /\ UNCHANGED <<list, tstate>>

thread_signal(t, m) ==
  /\ Calling(t, "signal")
  /\ held[t][m] > 0
  /\ WellBehaved => list[Cond(m)] # <<>>
  /\ monitor_signal(m)
  /\ UNCHANGED <<sched, priority, mutex, frame, held>>

thread_broadcast(t, m) ==
  /\ Calling(t, "broadcast")
  /\ held[t][m] > 0
  /\ mon' = [mon EXCEPT ![t] = m]
  /\ ret' = [ret EXCEPT ![t] = "run"]
  /\ Goto(t, "broadcast")
  /\ UNCHANGED <<sched, tstate, priority, list, mutex, lret, saved, held, panic>>

(* Faulty variant: a broadcast wakes one thread only. *)
monitor_broadcast_WakesOne(t) ==
  /\ At(t, "broadcast")
  /\ \/ list[Cond(mon[t])] # <<>> /\ monitor_signal(mon[t])
     \/ list[Cond(mon[t])] = <<>> /\ UNCHANGED <<list, tstate, panic>>
  /\ Goto(t, ret[t])
  /\ UNCHANGED <<sched, priority, mutex, mon, lret, ret, saved, held>>

(* One turn of the loop of monitor_broadcast. *)
monitor_broadcast(t) ==
  /\ At(t, "broadcast")
  /\ \/ list[Cond(mon[t])] # <<>> /\ monitor_signal(mon[t]) /\ UNCHANGED pc
     \/ list[Cond(mon[t])] = <<>> /\ Goto(t, ret[t]) /\ UNCHANGED <<list, tstate, panic>>
  /\ UNCHANGED <<sched, priority, mutex, mon, lret, ret, saved, held>>
-----------------------------------------------------------------------------
(* Faulty variant: the exiting thread is not marked. *)
thread_exit_NotMarked(t) ==
  /\ Calling(t, "exit")
  /\ t # Main
  /\ WellBehaved => HoldsNone(t)
  /\ mon' = [mon EXCEPT ![t] = t]
  /\ lret' = [lret EXCEPT ![t] = "broadcast"]
  /\ ret' = [ret EXCEPT ![t] = "finish"]
  /\ Goto(t, "acquire")
  /\ UNCHANGED <<sched, tstate, priority, list, mutex, saved, held, panic>>

(* thread_exit: mark the thread, then lock it, wake the joiners, unlock it *)
(* and never come back from thread_schedule.                               *)
thread_exit(t) ==
  /\ Calling(t, "exit")
  /\ t # Main
  /\ WellBehaved => HoldsNone(t)
  /\ tstate' = [tstate EXCEPT ![t] = "TERMINATED"]
  /\ mon' = [mon EXCEPT ![t] = t]
  /\ lret' = [lret EXCEPT ![t] = "broadcast"]
  /\ ret' = [ret EXCEPT ![t] = "finish"]
  /\ Goto(t, "acquire")
  /\ UNCHANGED <<sched, priority, list, mutex, saved, held, panic>>

thread_exit_finish(t) ==
  /\ At(t, "finish")
  /\ mutex_unlock(t, t)
  /\ held' = [held EXCEPT ![t][t] = @ - 1]
  /\ Deschedule(t, "dead")
  /\ UNCHANGED <<cur, next, tstate, priority, list, mon, lret, ret, saved, panic>>

thread_join(t, u) ==
  /\ Calling(t, "join")
  /\ u # t /\ tstate[u] # "NEW"
  /\ WellBehaved => HoldsNone(t)
  /\ mon' = [mon EXCEPT ![t] = u]
  /\ lret' = [lret EXCEPT ![t] = "check"]
  /\ ret' = [ret EXCEPT ![t] = "check"]
  /\ Goto(t, "acquire")
  /\ UNCHANGED <<sched, tstate, priority, list, mutex, saved, held, panic>>

(* The loop test of thread_join: wait again, or unlock and return. *)
thread_join_check(t) ==
  /\ At(t, "check")
  /\ \/ /\ tstate[mon[t]] # "TERMINATED"
        /\ Enqueue(t, mon[t])
        /\ UNCHANGED <<mutex, held>>
     \/ /\ tstate[mon[t]] = "TERMINATED"
        /\ mutex_unlock(t, mon[t])
        /\ held' = [held EXCEPT ![t][mon[t]] = @ - 1]
        /\ Goto(t, "run")
        /\ UNCHANGED <<tstate, list, saved>>
  /\ UNCHANGED <<sched, priority, mon, lret, ret, panic>>
-----------------------------------------------------------------------------
Call(t) ==
  \/ thread_yield(t) \/ thread_preempt(t) \/ thread_set_priority(t)
  \/ thread_exit(t)
  \/ \E u \in Threads : thread_fork(t, u) \/ thread_join(t, u)
  \/ \E m \in Objs : \/ thread_lock(t, m) \/ thread_unlock(t, m)
                     \/ thread_wait(t, m) \/ thread_signal(t, m)
                     \/ thread_broadcast(t, m)

Continue(t) ==
  \/ mutex_lock(t) \/ mutex_lock_retry(t)
  \/ monitor_wait_release(t) \/ monitor_wait_restore(t) \/ monitor_broadcast(t)
  \/ thread_exit_finish(t) \/ thread_join_check(t)

Dispatch == thread_schedule \/ arch_thread_switch

(* kernel_panic halts the machine. *)
Halted == panic # "none" /\ UNCHANGED vars

Next == (\E t \in Threads : Call(t) \/ Continue(t)) \/ Dispatch \/ Halted

Spec == Init /\ [][Next]_vars
-----------------------------------------------------------------------------
On(t, h) == t \in Range(list[h])

Queued(t) == \E h \in Heads : On(t, h)

(* A thread has one pair of link fields, so linking it twice corrupts both *)
(* lists: no thread is ever on two queues, or twice on one, however the    *)
(* calls of thread_queue, thread_resume and LIST_DELETE interleave.        *)
LinkedOnce ==
  /\ \A h \in Heads : IsInjective(list[h])
  /\ \A t \in Threads : \A h, k \in Heads : On(t, h) /\ On(t, k) => h = k

(* Nobody drops a thread: a thread that was forked and has not finished    *)
(* thread_exit is running, has just been picked to run, or is on a queue   *)
(* somebody can take it from.                                              *)
NoThreadLost ==
  \A t \in Threads :
    tstate[t] # "NEW" /\ pc[t] # "dead" =>
      t = cur \/ (cpu = "switch" /\ t = next) \/ Queued(t)

(* thread->state says where the thread is: on a run queue it is RUNNABLE,  *)
(* on a monitor's queue SLEEPING, and the thread executing is RUNNING (or  *)
(* TERMINATED while it finishes thread_exit).  lock->waiting is always     *)
(* left empty: a thread that finds a mutex taken polls from the run queue. *)
StateMatchesQueue ==
  /\ \A t \in Threads : /\ \A p \in Priorities : On(t, Run(p)) => tstate[t] = "RUNNABLE"
                        /\ \A m \in Monitors : On(t, Cond(m)) => tstate[t] = "SLEEPING"
  /\ \A m \in Monitors : list[Lock(m)] = <<>>
  /\ cpu = "run" /\ pc[cur] # "release" => tstate[cur] \in {"RUNNING", "TERMINATED"}

(* thread_schedule never panics with "Empty run queue!": whoever sleeps or *)
(* exits, process 1 is on a run queue.                                     *)
RunQueueNeverEmpty == panic # "empty"

(* A thread that has finished thread_exit is never run or queued again,    *)
(* and nobody is left waiting for it: a join that found the thread alive   *)
(* is woken by its broadcast, a later one does not wait.                   *)
ExitIsFinal ==
  \A t \in Threads : pc[t] = "dead" =>
    /\ tstate[t] = "TERMINATED"
    /\ ~Queued(t) /\ ~(cpu = "run" /\ cur = t) /\ ~(cpu = "switch" /\ next = t)
    /\ list[Cond(t)] = <<>>

(* t is between a thread_lock and its thread_unlock, and not in the part   *)
(* of a thread_wait that has given the monitor up.                         *)
Inside(t, m) ==
  held[t][m] > 0 /\ ~(mon[t] = m /\ lret[t] = "restore" /\ pc[t] \in {"acquire", "retry"})

(* At most one thread is inside a monitor. *)
MutualExclusion ==
  \A m \in Monitors : \A t, u \in Threads : Inside(t, m) /\ Inside(u, m) => t = u

(* The mutex knows who is inside: it is free exactly when nobody is, and   *)
(* otherwise its owner is the thread inside and its count the number of    *)
(* thread_unlock calls that thread still owes (once a wait has restored    *)
(* the count).                                                             *)
OwnerIsInside ==
  \A m \in Monitors, t \in Threads :
    /\ owner[m] = t <=> Inside(t, m)
    /\ owner[m] = t /\ pc[t] # "restore" => count[m] = held[t][m]

(* r is q after at most one thread left at the front and others joined at  *)
(* the back.                                                               *)
Served(q, r, n) ==
  \E k \in {0, 1} :
    /\ k = 1 => q # <<>> /\ n = q[1]
    /\ Len(r) >= Len(q) - k
    /\ \A i \in 1 .. Len(q) - k : r[i] = q[i + k]

(* "Simple RR scheduler": a run queue is served first come, first served.  *)
(* A thread leaves it only from the front, for the CPU, and nobody         *)
(* overtakes (thread_preempt apart, which no code calls).                  *)
RoundRobin ==
  [][\A p \in Priorities : Served(list[Run(p)], list'[Run(p)], next')]_vars
=============================================================================

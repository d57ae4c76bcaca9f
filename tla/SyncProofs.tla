----------------------------- MODULE SyncProofs -----------------------------
(***************************************************************************)
(* Sync for any threads that use the calls: type correctness, the order in *)
(* which the run queues are served, that QueueInv is an invariant, and the *)
(* properties it implies, mutual exclusion among them.  There is one lemma *)
(* for each kind of step, with one step for each conjunct.                 *)
(***************************************************************************)
EXTENDS SyncInv, TLAPS

(* The list heads are pairwise distinct. *)
LEMMA HeadsAre ==
  /\ \A p \in Priorities : Run(p) \in Heads
  /\ \A m \in Monitors : Lock(m) \in Heads /\ Cond(m) \in Heads
  /\ \A p, q \in Priorities : Run(p) = Run(q) => p = q
  /\ \A m, n \in Monitors : /\ Lock(m) = Lock(n) => m = n
                            /\ Cond(m) = Cond(n) => m = n
  /\ \A p \in Priorities, m \in Monitors : Run(p) # Lock(m) /\ Run(p) # Cond(m)
  /\ \A m, n \in Monitors : Lock(m) # Cond(n)
  /\ \A h \in Heads : \/ \E p \in Priorities : h = Run(p)
                      \/ \E m \in Monitors : h = Lock(m) \/ h = Cond(m)
BY DEF Heads, Run, Lock, Cond

(* Sequences that queues are changed to. *)
LEMMA QueueTypes ==
  ASSUME NEW q \in Seq(Threads), NEW t \in Threads
  PROVE  /\ AppendTo(q, t) \in Seq(Threads) /\ AppendTo(q, t) # <<>>
         /\ PrependTo(q, t) \in Seq(Threads)
         /\ q # <<>> => Head(q) \in Threads /\ DeleteHead(q) \in Seq(Threads)
BY DEF AppendTo, PrependTo, DeleteHead

(* Init and every step keep the types. *)
LEMMA TypeInit == Init => TypeOK
BY ConstantsAssumption DEF Init, TypeOK, TStates, Labels, Monitors, Priorities,
   THREAD_INTERRUPT, THREAD_NORMAL, THREAD_IDLE

(* The mutex fields after an unlock, and held after one more or one less. *)
LEMMA UnlockTypes ==
  ASSUME TypeOK, NEW t \in Threads, NEW m \in Monitors, mutex_unlock(t, m)
  PROVE  owner' \in [Monitors -> Threads \cup {NULL}] /\ count' \in [Monitors -> Int]
<1>1. owner' \in [Monitors -> Threads \cup {NULL}]
  BY Zenon DEF TypeOK, mutex_unlock, mutex
<1>2. count' \in [Monitors -> Int]
  BY DEF TypeOK, mutex_unlock, mutex
<1> QED  BY <1>1, <1>2

LEMMA HeldTypes ==
  ASSUME TypeOK, NEW t \in Threads, NEW m \in Monitors
  PROVE  /\ [held EXCEPT ![t][m] = @ + 1] \in [Threads -> [Monitors -> Int]]
         /\ [held EXCEPT ![t][m] = @ - 1] \in [Threads -> [Monitors -> Int]]
<1>1. held \in [Threads -> [Monitors -> Int]] /\ held[t] \in [Monitors -> Int]
  BY Zenon DEF TypeOK
<1>2. [held[t] EXCEPT ![m] = @ + 1] \in [Monitors -> Int]
  BY <1>1
<1>3. [held[t] EXCEPT ![m] = @ - 1] \in [Monitors -> Int]
  BY <1>1
<1> QED  BY <1>1, <1>2, <1>3

LEMMA LockedTypes ==
  ASSUME TypeOK, NEW t \in Threads, NEW m \in Monitors, Locked(t, m)
  PROVE  /\ held' \in [Threads -> [Monitors -> Int]]
         /\ count' \in [Monitors -> Int]
         /\ pc' \in [Threads -> Labels]
<1>1. held' \in [Threads -> [Monitors -> Int]]
  BY HeldTypes DEF Locked, TypeOK
<1>2. count' \in [Monitors -> Int]
  <2> count \in [Monitors -> Int]
    BY DEF TypeOK
  <2> QED  BY DEF Locked
<1>3. pc' \in [Threads -> Labels]
  BY Zenon DEF Locked, TypeOK, Goto, Labels
<1> QED  BY <1>1, <1>2, <1>3

LEMMA ResumeTypes ==
  ASSUME TypeOK, NEW L \in [Heads -> Seq(Threads)], NEW t \in Threads
  PROVE  Resume(L, t) \in [Heads -> Seq(Threads)]
BY HeadsAre, QueueTypes, Zenon DEF TypeOK, Resume

LEMMA SignalTypes ==
  ASSUME TypeOK, NEW m \in Monitors, monitor_signal(m)
  PROVE  /\ list' \in [Heads -> Seq(Threads)]
         /\ tstate' \in [Threads -> TStates]
         /\ panic' \in {"none", "empty", "null"}
<1>1. CASE list[Cond(m)] # <<>>
  <2>1. /\ Head(list[Cond(m)]) \in Threads
        /\ [list EXCEPT ![Cond(m)] = DeleteHead(@)] \in [Heads -> Seq(Threads)]
    BY <1>1, HeadsAre, QueueTypes DEF TypeOK
  <2>2. list' = Resume([list EXCEPT ![Cond(m)] = DeleteHead(@)], Head(list[Cond(m)]))
    BY <1>1 DEF monitor_signal
  <2>3. tstate' \in [Threads -> TStates] /\ panic' = panic
    BY <1>1, <2>1, Zenon DEF monitor_signal, TypeOK, TStates
  <2> QED
    BY <2>1, <2>2, <2>3, ResumeTypes, Zenon DEF TypeOK
<1>2. CASE list[Cond(m)] = <<>>
  BY <1>2 DEF monitor_signal, TypeOK
<1> QED  BY <1>1, <1>2

LEMMA LockWaitTypes ==
  ASSUME TypeOK, NEW t \in Threads, NEW m \in Monitors, thread_lock_wait(t, m)
  PROVE  list' \in [Heads -> Seq(Threads)] /\ tstate' \in [Threads -> TStates]
<1> DEFINE waiting == AppendTo(list[Lock(m)], t)
<1>1. waiting \in Seq(Threads) /\ waiting # <<>>
  BY HeadsAre, QueueTypes, Zenon DEF TypeOK
<1>2. Head(waiting) \in Threads /\ DeleteHead(waiting) \in Seq(Threads)
  BY <1>1, QueueTypes
<1>3. [list EXCEPT ![Lock(m)] = DeleteHead(waiting)] \in [Heads -> Seq(Threads)]
  BY <1>2, HeadsAre DEF TypeOK
<1> QED
  BY <1>2, <1>3, ResumeTypes, Zenon DEF thread_lock_wait, TypeOK, TStates

LEMMA TypeNext == TypeOK /\ [Next]_vars => TypeOK'
<1> SUFFICES ASSUME TypeOK, [Next]_vars PROVE TypeOK'
  OBVIOUS
<1> USE ConstantsAssumption
<1> Threads \subseteq Monitors /\ Objs \subseteq Monitors
  BY DEF Monitors
<1> USE DEF TypeOK, sched, mutex, frame, TStates, Labels, Calling, At, Goto, Deschedule
<1>1. ASSUME NEW t \in Threads, thread_yield(t) PROVE TypeOK'
  BY <1>1, HeadsAre, QueueTypes, Zenon DEF thread_yield, Resume
<1>2. ASSUME NEW t \in Threads, thread_preempt(t) PROVE TypeOK'
  BY <1>2, HeadsAre, QueueTypes, Zenon DEF thread_preempt
<1>3. ASSUME NEW t \in Threads, thread_set_priority(t) PROVE TypeOK'
  <2>1. priority' \in [Threads -> Priorities]
    BY <1>3 DEF thread_set_priority
  <2>2. UNCHANGED <<sched, tstate, list, mutex, frame, held, panic>>
    BY <1>3 DEF thread_set_priority
  <2> QED  BY <2>1, <2>2, Zenon
<1>4. ASSUME NEW t \in Threads, NEW u \in Threads, thread_fork(t, u) PROVE TypeOK'
  BY <1>4, HeadsAre, QueueTypes, Zenon DEF thread_fork
<1>5. ASSUME NEW t \in Threads, thread_exit(t) PROVE TypeOK'
  BY <1>5, Zenon DEF thread_exit
<1>6. ASSUME NEW t \in Threads, NEW u \in Threads, thread_join(t, u) PROVE TypeOK'
  BY <1>6, Zenon DEF thread_join
<1>7. ASSUME NEW t \in Threads, NEW m \in Objs, thread_lock(t, m) PROVE TypeOK'
  BY <1>7, Zenon DEF thread_lock
<1>8. ASSUME NEW t \in Threads, NEW m \in Objs, thread_unlock(t, m) PROVE TypeOK'
  BY <1>8, UnlockTypes, HeldTypes, Zenon DEF thread_unlock
<1>9. ASSUME NEW t \in Threads, NEW m \in Objs, thread_wait(t, m) PROVE TypeOK'
  BY <1>9, HeadsAre, QueueTypes, Zenon DEF thread_wait, Enqueue
<1>10. ASSUME NEW t \in Threads, NEW m \in Objs, thread_signal(t, m) PROVE TypeOK'
  BY <1>10, SignalTypes, Zenon DEF thread_signal
<1>11. ASSUME NEW t \in Threads, NEW m \in Objs, thread_broadcast(t, m) PROVE TypeOK'
  BY <1>11, Zenon DEF thread_broadcast
<1>12. ASSUME NEW t \in Threads, mutex_lock(t) PROVE TypeOK'
  <2>1. CASE Locked(t, mon[t]) /\ owner' \in {owner, [owner EXCEPT ![mon[t]] = t]}
    <3>1. owner' \in [Monitors -> Threads \cup {NULL}]
      BY <2>1, Zenon
    <3>2. UNCHANGED <<sched, tstate, priority, list, mon, lret, ret, saved, panic>>
      BY <1>12, <2>1 DEF mutex_lock, Locked
    <3> QED  BY <2>1, <3>1, <3>2, LockedTypes, Zenon
  <2>2. CASE thread_lock_wait(t, mon[t])
    BY <1>12, <2>2, LockWaitTypes, Zenon DEF mutex_lock, thread_lock_wait
  <2> QED  BY <1>12, <2>1, <2>2, Zenon DEF mutex_lock
<1>13. ASSUME NEW t \in Threads, mutex_lock_retry(t) PROVE TypeOK'
  <2>1. CASE Locked(t, mon[t]) /\ UNCHANGED owner
    BY <1>13, <2>1, LockedTypes, Zenon DEF mutex_lock_retry, Locked
  <2>2. CASE thread_lock_wait(t, mon[t])
    BY <1>13, <2>2, LockWaitTypes, Zenon DEF mutex_lock_retry, thread_lock_wait
  <2> QED  BY <1>13, <2>1, <2>2, Zenon DEF mutex_lock_retry
<1>14. ASSUME NEW t \in Threads, monitor_wait_release(t) PROVE TypeOK'
  BY <1>14, UnlockTypes, Zenon DEF monitor_wait_release
<1>15. ASSUME NEW t \in Threads, monitor_wait_restore(t) PROVE TypeOK'
  BY <1>15, Zenon DEF monitor_wait_restore
<1>16. ASSUME NEW t \in Threads, monitor_broadcast(t) PROVE TypeOK'
  <2>1. CASE list[Cond(mon[t])] # <<>>
    <3>1. monitor_signal(mon[t]) /\ UNCHANGED pc
      BY <1>16, <2>1, Zenon DEF monitor_broadcast
    <3> QED  BY <1>16, <3>1, SignalTypes, Zenon DEF monitor_broadcast
  <2>2. CASE list[Cond(mon[t])] = <<>>
    <3>1. Goto(t, ret[t]) /\ UNCHANGED <<list, tstate, panic>>
      BY <1>16, <2>2 DEF monitor_broadcast
    <3>2. UNCHANGED <<sched, priority, mutex, mon, lret, ret, saved, held>>
      BY <1>16 DEF monitor_broadcast
    <3> QED  BY <3>1, <3>2, Zenon
  <2> QED  BY <2>1, <2>2, Zenon
<1>17. ASSUME NEW t \in Threads, thread_exit_finish(t) PROVE TypeOK'
  BY <1>17, UnlockTypes, HeldTypes, Zenon DEF thread_exit_finish
<1>18. ASSUME NEW t \in Threads, thread_join_check(t) PROVE TypeOK'
  <2>1. CASE tstate[mon[t]] # "TERMINATED"
    <3>1. Enqueue(t, mon[t]) /\ UNCHANGED <<mutex, held>>
      BY <1>18, <2>1, Zenon DEF thread_join_check
    <3>2. list' \in [Heads -> Seq(Threads)]
      BY <3>1, HeadsAre, QueueTypes, Zenon DEF Enqueue
    <3>3. UNCHANGED <<sched, priority, mon, lret, ret, panic>>
      BY <1>18 DEF thread_join_check
    <3> QED  BY <3>1, <3>2, <3>3, Zenon DEF Enqueue
  <2>2. CASE tstate[mon[t]] = "TERMINATED"
    <3>1. /\ mutex_unlock(t, mon[t]) /\ Goto(t, "run")
          /\ held' = [held EXCEPT ![t][mon[t]] = @ - 1]
          /\ UNCHANGED <<tstate, list, saved>>
      BY <1>18, <2>2, Zenon DEF thread_join_check
    <3>2. held' \in [Threads -> [Monitors -> Int]]
      BY <3>1, HeldTypes, Zenon
    <3>3. UNCHANGED <<sched, priority, mon, lret, ret, panic>>
      BY <1>18 DEF thread_join_check
    <3> QED  BY <3>1, <3>2, <3>3, UnlockTypes, Zenon
  <2> QED  BY <2>1, <2>2, Zenon
<1>19. CASE thread_schedule
  <2>1. ASSUME NEW p \in Priorities, PickFrom(p) PROVE TypeOK'
    <3>1. next' \in Threads /\ list' \in [Heads -> Seq(Threads)]
      BY <2>1, HeadsAre, QueueTypes DEF PickFrom
    <3> QED  BY <1>19, <2>1, <3>1, Zenon DEF thread_schedule, PickFrom
  <2>2. CASE UNCHANGED <<next, list, cpu>> /\ panic' = "empty"
    BY <1>19, <2>2, Zenon DEF thread_schedule
  <2> QED  BY <1>19, <2>1, <2>2, Zenon DEF thread_schedule
<1>20. CASE arch_thread_switch
  BY <1>20, Zenon DEF arch_thread_switch
<1>21. CASE Halted \/ UNCHANGED vars
  BY <1>21, Zenon DEF Halted, vars
<1> QED
  BY Zenon, <1>1, <1>2, <1>3, <1>4, <1>5, <1>6, <1>7, <1>8, <1>9, <1>10, <1>11, <1>12,
     <1>13, <1>14, <1>15, <1>16, <1>17, <1>18, <1>19, <1>20, <1>21
  DEF Next, Call, Continue, Dispatch

(* Every field of the threads, the mutexes and the queues keeps its type   *)
(* through every call of kernel/thread.c and kernel/sync.c.                *)
THEOREM TypeCorrect == Spec => []TypeOK
BY TypeInit, TypeNext, PTL DEF Spec

LEMMA Constants ==
  /\ Threads \cap Objs = {} /\ Threads \subseteq Monitors /\ Objs \subseteq Monitors
  /\ Main \in Threads /\ Idle \in Threads /\ Main # Idle /\ NULL \notin Threads
BY ConstantsAssumption DEF Monitors

LEMMA Fields ==
  ASSUME TypeOK
  PROVE  /\ tstate \in [Threads -> TStates] /\ pc \in [Threads -> Labels]
         /\ mon \in [Threads -> Monitors] /\ saved \in [Threads -> Int]
         /\ lret \in [Threads -> {"run", "check", "broadcast", "restore"}]
         /\ ret \in [Threads -> {"run", "check", "finish"}]
         /\ owner \in [Monitors -> Threads \cup {NULL}] /\ count \in [Monitors -> Int]
BY DEF TypeOK

-----------------------------------------------------------------------------
(* Threads which give up the CPU only with no monitor held (WellBehaved)   *)
(* are alone inside a monitor: HeldInv is preserved by every step, given   *)
(* QueueInv for where each thread is.                                      *)

(* What a step leaves true of a thread it does not change, and of a mutex. *)
LEMMA HeldKept ==
  ASSUME NEW u \in Threads, HeldBy(u),
         UNCHANGED <<pc[u], mon[u], lret[u], ret[u], saved[u], held[u]>>,
         u = cur /\ cpu = "run" => u = cur' /\ cpu' = "run"
  PROVE  HeldBy(u)'
BY DEF HeldBy, HoldsOnly, HoldsNone, Waiting

LEMMA OthersHeld ==
  ASSUME HeldInv, NEW t \in Threads, cur = t, cur' = t,
         \A u \in Threads : u # t =>
           UNCHANGED <<pc[u], mon[u], lret[u], ret[u], saved[u], held[u]>>
  PROVE  \A u \in Threads : u # t => HeldBy(u)'
BY HeldKept DEF HeldInv

LEMMA MutexKept ==
  ASSUME NEW m \in Monitors, MutexOf(m),
         UNCHANGED <<cur, cpu, owner[m], count[m], held[cur][m]>>,
         Inside(cur, m)' <=> Inside(cur, m)
  PROVE  MutexOf(m)'
BY DEF MutexOf

(* The mutexes are free when no thread is running. *)
LEMMA NobodyInside ==
  ASSUME HeldInv, cpu # "run"
  PROVE  \A m \in Monitors : owner[m] = NULL /\ count[m] = 0
BY DEF HeldInv, MutexOf

LEMMA HeldType ==
  ASSUME TypeOK
  PROVE  /\ held \in [Threads -> [Monitors -> Int]] /\ cur \in Threads
         /\ \A t \in Threads, m \in Monitors : held[t][m] \in Int /\ count[m] \in Int
BY DEF TypeOK
-----------------------------------------------------------------------------
(* A step that changes no monitor, and neither the place nor the locals of *)
(* any thread.                                                             *)
LEMMA HeldIdle ==
  ASSUME HeldInv, UNCHANGED <<cur, cpu, owner, count, held, pc, mon, lret, ret, saved>>
  PROVE  HeldInv'
<1>1. ASSUME NEW u \in Threads PROVE HeldBy(u)'
  BY Zenon, HeldKept DEF HeldInv
<1>2. ASSUME NEW m \in Monitors PROVE MutexOf(m)'
  BY Zenon DEF HeldInv, MutexOf, Inside
<1> QED  BY <1>1, <1>2 DEF HeldInv

(* The running thread goes on to another place of its code, still running. *)
LEMMA HeldMove ==
  ASSUME HeldInv, NEW t \in Threads, cpu = "run", cur = t, HeldBy(t)',
         UNCHANGED <<cur, cpu, owner, count, held>>,
         \A u \in Threads : u # t =>
           UNCHANGED <<pc[u], mon[u], lret[u], ret[u], saved[u]>>,
         pc[t] \notin {"acquire", "retry"},
         pc'[t] \in {"acquire", "retry"} => lret'[t] # "restore"
  PROVE  HeldInv'
<1>1. \A u \in Threads : u # t => HeldBy(u)'
  BY Zenon, OthersHeld
<1>2. ASSUME NEW m \in Monitors PROVE MutexOf(m)'
  <2>1. Inside(t, m)' <=> Inside(t, m)
    BY DEF Inside
  <2> QED  BY <2>1, MutexKept DEF HeldInv
<1> QED  BY Zenon, <1>1, <1>2 DEF HeldInv

(* The running thread gives up the CPU with no monitor held. *)
LEMMA HeldYield ==
  ASSUME HeldInv, NEW t \in Threads, HoldsNone(t), cpu = "run", cur = t,
         cpu' = "schedule", pc'[t] = "run",
         UNCHANGED <<cur, owner, count, held, mon, lret, ret, saved>>,
         \A u \in Threads : u # t => UNCHANGED pc[u]
  PROVE  HeldInv'
<1>1. \A u \in Threads : u # t => HeldBy(u)'
  BY OthersHeld
<1>2. HeldBy(t)'
  BY DEF HeldInv, HeldBy, HoldsNone, HoldsOnly, Waiting
<1>3. ASSUME NEW m \in Monitors PROVE MutexOf(m)'
  <2>1. ~Inside(t, m)
    BY DEF Inside, HoldsNone
  <2> QED  BY Zenon, <2>1 DEF HeldInv, MutexOf
<1> QED  BY <1>1, <1>2, <1>3 DEF HeldInv
-----------------------------------------------------------------------------
(* What mutex_unlock does to the mutexes when t is inside m, and then      *)
(* counts the unlock.                                                      *)
LEMMA UnlockHeld ==
  ASSUME TypeOK, HeldInv, NEW t \in Threads, NEW m \in Monitors,
         cpu = "run", cur = t, Inside(t, m), mutex_unlock(t, m)
  PROVE  /\ owner'[m] = IF held[t][m] = 1 THEN NULL ELSE t
         /\ count'[m] = held[t][m] - 1
         /\ \A n \in Monitors : n # m => UNCHANGED <<owner[n], count[n]>>
<1>1. owner[m] = t /\ count[m] = held[t][m]
  BY DEF HeldInv, MutexOf
<1> QED  BY <1>1, Fields, HeldType DEF mutex_unlock

(* The thread_unlock of the running thread on a monitor it is inside, in   *)
(* thread_unlock itself or at the end of thread_join.                      *)
LEMMA HeldUnlock ==
  ASSUME TypeOK, HeldInv, NEW t \in Threads, NEW m \in Monitors,
         cpu = "run", cur = t, pc[t] \notin {"acquire", "retry"}, held[t][m] > 0,
         mutex_unlock(t, m), held' = [held EXCEPT ![t][m] = @ - 1],
         pc'[t] = "run", \A u \in Threads : u # t => UNCHANGED pc[u],
         UNCHANGED <<cur, cpu, mon, lret, ret, saved>>
  PROVE  HeldInv'
<1>1. /\ held'[t][m] = held[t][m] - 1 /\ held[t][m] \in Int
      /\ \A n \in Monitors : n # m => held'[t][n] = held[t][n]
      /\ \A u \in Threads : u # t => held'[u] = held[u]
  BY HeldType
<1>2. Inside(t, m)
  BY DEF Inside
<1>3. \A u \in Threads : u # t => HeldBy(u)'
  BY <1>1, OthersHeld
<1>4. HeldBy(t)'
  <2>1. \A n \in Monitors : held'[t][n] >= 0
    BY <1>1, HeldType DEF HeldInv, HeldBy
  <2> QED  BY <2>1 DEF HeldBy, Waiting
<1>5. ASSUME NEW n \in Monitors PROVE MutexOf(n)'
  <2>1. CASE n = m
    BY <1>1, <1>2, <2>1, UnlockHeld DEF MutexOf, Inside
  <2>2. CASE n # m
    <3>1. Inside(t, n)' <=> Inside(t, n)
      BY <1>1, <2>2 DEF Inside
    <3> QED  BY <1>1, <1>2, <2>2, <3>1, UnlockHeld, MutexKept DEF HeldInv
  <2> QED  BY <2>1, <2>2
<1> QED  BY <1>3, <1>4, <1>5 DEF HeldInv

(* t unlocks the one monitor it is inside and gives up the CPU, to wait on *)
(* it or at the end of thread_exit.                                        *)
LEMMA HeldRelease ==
  ASSUME TypeOK, HeldInv, NEW t \in Threads, NEW m \in Monitors,
         cpu = "run", cur = t, cur' = t, cpu' = "schedule",
         pc[t] \notin {"acquire", "retry"}, HoldsOnly(t, m), mutex_unlock(t, m),
         HeldBy(t)',
         \A u \in Threads : u # t =>
           UNCHANGED <<pc[u], mon[u], lret[u], ret[u], saved[u], held[u]>>
  PROVE  HeldInv'
<1>1. Inside(t, m) /\ held[t][m] = 1 /\ \A n \in Monitors : n # m => ~Inside(t, n)
  BY DEF Inside, HoldsOnly
<1>2. \A u \in Threads : u # t => HeldBy(u)'
  BY OthersHeld
<1>3. ASSUME NEW n \in Monitors PROVE owner'[n] = NULL /\ count'[n] = 0
  <2>1. CASE n = m
    BY <1>1, <2>1, UnlockHeld
  <2>2. CASE n # m
    BY <1>1, <2>2, UnlockHeld DEF HeldInv, MutexOf
  <2> QED  BY <2>1, <2>2
<1> QED  BY Zenon, <1>2, <1>3 DEF HeldInv, MutexOf
-----------------------------------------------------------------------------
(* The steps of Sync, for threads that keep the rules. *)
LEMMA HeldLockCall ==
  ASSUME TypeOK, HeldInv, NEW t \in Threads, NEW m \in Objs,
         thread_lock(t, m) \/ thread_broadcast(t, m)
  PROVE  HeldInv'
<1>1. /\ cpu = "run" /\ cur = t /\ pc[t] = "run"
      /\ UNCHANGED <<cur, cpu, owner, count, held, saved>>
  BY DEF thread_lock, thread_broadcast, Calling, sched, mutex
<1>2. /\ \/ pc'[t] = "acquire" /\ lret'[t] = "run"
         \/ pc'[t] = "broadcast" /\ ret'[t] = "run"
      /\ \A u \in Threads : u # t => UNCHANGED <<pc[u], mon[u], lret[u], ret[u], saved[u]>>
  BY <1>1, Fields DEF thread_lock, thread_broadcast, Goto
<1>3. HeldBy(t)'
  <2>1. \A n \in Monitors : held'[t][n] >= 0
    BY Zenon, <1>1 DEF HeldInv, HeldBy
  <2> QED  BY <1>1, <1>2, <2>1 DEF HeldBy, Waiting
<1> QED  BY <1>1, <1>2, <1>3, HeldMove

LEMMA HeldExitCall ==
  ASSUME TypeOK, HeldInv, WellBehaved, NEW t \in Threads, NEW u \in Threads,
         thread_exit(t) \/ thread_join(t, u)
  PROVE  HeldInv'
<1>1. /\ cpu = "run" /\ cur = t /\ pc[t] = "run" /\ HoldsNone(t)
      /\ UNCHANGED <<cur, cpu, owner, count, held, saved>>
  BY DEF thread_exit, thread_join, Calling, sched, mutex
<1>2. /\ pc'[t] = "acquire" /\ lret'[t] \in {"broadcast", "check"}
      /\ \A v \in Threads : v # t => UNCHANGED <<pc[v], mon[v], lret[v], ret[v], saved[v]>>
  BY <1>1, Fields DEF thread_exit, thread_join, Goto
<1>3. HeldBy(t)'
  BY <1>1, <1>2 DEF HeldBy, HoldsNone, Waiting
<1> QED  BY <1>1, <1>2, <1>3, HeldMove

(* monitor_wait notes a count of one. *)
LEMMA HeldEnqueue ==
  ASSUME TypeOK, HeldInv, NEW t \in Threads, NEW m \in Monitors, HoldsOnly(t, m),
         cpu = "run", cur = t, pc[t] \notin {"acquire", "retry"},
         Enqueue(t, m), mon'[t] = m,
         \A u \in Threads : u # t => UNCHANGED <<mon[u], ret[u]>>,
         UNCHANGED <<cur, cpu, owner, count, held, lret>>
  PROVE  HeldInv'
<1>1. Inside(t, m) /\ held[t][m] = 1
  BY DEF Inside, HoldsOnly
<1>2. count[m] = 1
  BY <1>1 DEF HeldInv, MutexOf
<1>3. /\ pc'[t] = "release" /\ saved'[t] = 1
      /\ \A u \in Threads : u # t => UNCHANGED <<pc[u], saved[u]>>
  BY <1>2, Fields DEF Enqueue, Goto
<1>4. HeldBy(t)'
  BY <1>3 DEF HeldBy, HoldsOnly, Waiting
<1> QED  BY Zenon, <1>3, <1>4, HeldMove

LEMMA HeldWait ==
  ASSUME TypeOK, HeldInv, WellBehaved, NEW t \in Threads, NEW m \in Objs, thread_wait(t, m)
  PROVE  HeldInv'
<1>1. /\ cpu = "run" /\ cur = t /\ pc[t] = "run" /\ HoldsOnly(t, m) /\ Enqueue(t, m)
      /\ UNCHANGED <<cur, cpu, owner, count, held, lret>>
  BY Zenon DEF thread_wait, Calling, sched, mutex
<1>2. mon'[t] = m /\ \A u \in Threads : u # t => UNCHANGED <<mon[u], ret[u]>>
  BY Fields DEF thread_wait
<1> QED  BY <1>1, <1>2, Constants, HeldEnqueue

LEMMA HeldRestore ==
  ASSUME TypeOK, QueueInv, HeldInv, NEW t \in Threads, monitor_wait_restore(t)
  PROVE  HeldInv'
<1>1. /\ cpu = "run" /\ cur = t /\ pc[t] = "restore" /\ mon[t] \in Monitors
      /\ UNCHANGED <<cur, cpu, owner, held, mon, lret, ret, saved>>
      /\ count' = [count EXCEPT ![mon[t]] = saved[t]]
  BY Fields DEF monitor_wait_restore, At, sched
<1>2. ret[t] \in {"check", "run"}
  BY <1>1 DEF QueueInv, Frames, Frame
<1>3. pc'[t] = ret[t] /\ \A u \in Threads : u # t => UNCHANGED pc[u]
  BY Fields DEF monitor_wait_restore, Goto
<1>4. saved[t] = 1 /\ HoldsOnly(t, mon[t])
  BY <1>1 DEF HeldInv, HeldBy
<1>5. count' = count
  <2>1. Inside(t, mon[t]) /\ held[t][mon[t]] = 1
    BY <1>1, <1>4 DEF Inside, HoldsOnly
  <2>2. count[mon[t]] = 1
    BY <1>1, <2>1 DEF HeldInv, MutexOf
  <2> QED  BY <1>1, <1>4, <2>2, Fields
<1>6. HeldBy(t)'
  <2>1. \A n \in Monitors : held'[t][n] >= 0
    BY Zenon, <1>1 DEF HeldInv, HeldBy
  <2> QED  BY Zenon, <1>1, <1>2, <1>3, <1>4, <2>1 DEF HeldBy, HoldsOnly, Waiting
<1> QED  BY <1>1, <1>2, <1>3, <1>5, <1>6, HeldMove

LEMMA HeldBroadcast ==
  ASSUME TypeOK, QueueInv, HeldInv, NEW t \in Threads, monitor_broadcast(t)
  PROVE  HeldInv'
<1>1. /\ cpu = "run" /\ cur = t /\ pc[t] = "broadcast"
      /\ UNCHANGED <<cur, cpu, owner, count, held, mon, lret, ret, saved>>
  BY DEF monitor_broadcast, At, sched, mutex
<1>2. CASE pc' = pc
  BY <1>1, <1>2, HeldIdle
<1>3. CASE Goto(t, ret[t])
  <2>1. ret[t] \in {"run", "finish"}
    BY <1>1 DEF QueueInv, Frames, Frame
  <2>2. pc'[t] = ret[t] /\ \A u \in Threads : u # t => UNCHANGED pc[u]
    BY <1>3, Fields DEF Goto
  <2>3. \A n \in Monitors : held'[t][n] >= 0
    BY <1>1 DEF HeldInv, HeldBy
  <2>4. ret[t] = "finish" => HoldsOnly(t, mon[t])
    BY <1>1 DEF HeldInv, HeldBy
  <2>5. HeldBy(t)'
    BY <1>1, <2>1, <2>2, <2>3, <2>4 DEF HeldBy, HoldsOnly, Waiting
  <2> QED  BY <1>1, <2>1, <2>2, <2>5, HeldMove
<1> QED  BY <1>2, <1>3 DEF monitor_broadcast

(* mutex_lock finds the mutex free, or the thread inside already. *)
LEMMA HeldLock ==
  ASSUME TypeOK, QueueInv, HeldInv, NEW t \in Threads, mutex_lock(t)
  PROVE  HeldInv'
<1> DEFINE m == mon[t]
<1>1. /\ cpu = "run" /\ cur = t /\ pc[t] = "acquire" /\ m \in Monitors
      /\ UNCHANGED <<mon, lret, ret, saved>>
  BY Fields DEF mutex_lock, At
<1>2. /\ owner[m] = IF Inside(t, m) THEN t ELSE NULL
      /\ count[m] = IF Inside(t, m) THEN held[t][m] ELSE 0
  BY <1>1 DEF HeldInv, MutexOf
<1>3. Locked(t, m) /\ owner' = [owner EXCEPT ![m] = t]
  BY Zenon, <1>1, <1>2, Fields, Constants DEF mutex_lock
<1>4. /\ UNCHANGED <<cur, cpu>> /\ pc'[t] = lret[t]
      /\ owner'[m] = t /\ count'[m] = count[m] + 1
      /\ \A n \in Monitors : n # m => UNCHANGED <<owner[n], count[n]>>
      /\ \A u \in Threads : u # t => UNCHANGED pc[u]
  BY <1>1, <1>3, Fields DEF Locked, Goto, sched
<1>5. /\ held'[t][m] = IF lret[t] = "restore" THEN held[t][m] ELSE held[t][m] + 1
      /\ \A n \in Monitors : n # m => held'[t][n] = held[t][n]
      /\ \A u \in Threads : u # t => held'[u] = held[u]
  BY <1>1, <1>3, HeldType DEF Locked
<1>6. \A n \in Monitors : held[t][n] \in Int /\ held[t][n] >= 0
  BY HeldType DEF HeldInv, HeldBy
<1>7. \A u \in Threads : u # t => HeldBy(u)'
  BY <1>1, <1>4, <1>5, OthersHeld
<1>8. CASE lret[t] = "restore"
  <2>1. HoldsOnly(t, m) /\ saved[t] = 1 /\ held' = held
    BY <1>1, <1>3, <1>8 DEF HeldInv, HeldBy, Waiting, Locked
  <2>2. HeldBy(t)'
    BY <1>1, <1>4, <1>6, <1>8, <2>1 DEF HeldBy, HoldsOnly, Waiting
  <2>3. ~Inside(t, m) /\ held[t][m] = 1
    BY <1>1, <1>8, <2>1 DEF Inside, HoldsOnly
  <2>4. ASSUME NEW n \in Monitors, n # m PROVE ~Inside(t, n) /\ ~Inside(t, n)'
    BY <1>1, <2>1, <2>4 DEF Inside, HoldsOnly
  <2>5. ASSUME NEW n \in Monitors PROVE MutexOf(n)'
    <3>1. CASE n = m
      BY <1>1, <1>2, <1>4, <1>8, <2>1, <2>3, <3>1 DEF MutexOf, Inside
    <3>2. CASE n # m
      BY Zenon, <1>1, <1>4, <2>1, <2>4, <3>2, MutexKept DEF HeldInv
    <3> QED  BY <3>1, <3>2
  <2> QED  BY <1>7, <2>2, <2>5 DEF HeldInv
<1>9. CASE lret[t] # "restore"
  <2>1. \A n \in Monitors : Inside(t, n) <=> held[t][n] > 0
    BY <1>9 DEF Inside
  <2>2. count'[m] = held[t][m] + 1
    BY <1>1, <1>2, <1>4, <1>6, <2>1
  <2>3. /\ lret[t] \in {"run", "check", "broadcast"}
        /\ lret[t] \in {"check", "broadcast"} => HoldsNone(t)
    BY Zenon, <1>1, <1>9, Fields DEF HeldInv, HeldBy
  <2>4. HeldBy(t)'
    <3>1. \A n \in Monitors : held'[t][n] >= 0
      BY <1>1, <1>5, <1>6, <1>9
    <3>2. lret[t] \in {"check", "broadcast"} => HoldsOnly(t, mon[t])'
      BY <1>1, <1>5, <1>9, <2>3 DEF HoldsNone, HoldsOnly
    <3> QED  BY Zenon, <1>1, <1>4, <2>3, <3>1, <3>2 DEF HeldBy, Waiting
  <2>5. ASSUME NEW n \in Monitors PROVE MutexOf(n)'
    <3>1. Inside(t, n)' <=> held'[t][n] > 0
      BY <1>1, <1>4, <1>9, <2>3 DEF Inside
    <3>2. CASE n = m
      BY <1>1, <1>4, <1>5, <1>6, <1>9, <2>2, <3>1, <3>2 DEF MutexOf
    <3>3. CASE n # m
      BY <1>1, <1>4, <1>5, <2>1, <3>1, <3>3, MutexKept DEF HeldInv
    <3> QED  BY <3>2, <3>3
  <2> QED  BY <1>7, <2>4, <2>5 DEF HeldInv
<1> QED  BY <1>8, <1>9

LEMMA HeldWaitRelease ==
  ASSUME TypeOK, HeldInv, NEW t \in Threads, monitor_wait_release(t)
  PROVE  HeldInv'
<1>1. /\ cpu = "run" /\ cur = t /\ pc[t] = "release" /\ mon[t] \in Monitors
      /\ mutex_unlock(t, mon[t]) /\ cpu' = "schedule"
      /\ UNCHANGED <<cur, held, mon, ret, saved>>
  BY Fields DEF monitor_wait_release, At, Deschedule
<1>2. /\ pc'[t] = "acquire" /\ lret'[t] = "restore"
      /\ \A u \in Threads : u # t => UNCHANGED <<pc[u], lret[u]>>
  BY Fields DEF monitor_wait_release, Deschedule, Goto
<1>3. HoldsOnly(t, mon[t]) /\ saved[t] = 1
  BY Zenon, <1>1 DEF HeldInv, HeldBy
<1>4. HeldBy(t)'
  <2>1. \A n \in Monitors : held'[t][n] >= 0
    BY Zenon, <1>1 DEF HeldInv, HeldBy
  <2> QED  BY <1>1, <1>2, <1>3, <2>1 DEF HeldBy, HoldsOnly, Waiting
<1> QED  BY <1>1, <1>2, <1>3, <1>4, HeldRelease

LEMMA HeldExitFinish ==
  ASSUME TypeOK, QueueInv, HeldInv, NEW t \in Threads, thread_exit_finish(t)
  PROVE  HeldInv'
<1>1. /\ cpu = "run" /\ cur = t /\ pc[t] = "finish" /\ t \in Monitors
      /\ mutex_unlock(t, t) /\ cpu' = "schedule"
      /\ UNCHANGED <<cur, mon, lret, ret, saved>>
  BY Constants DEF thread_exit_finish, At, Deschedule
<1>2. pc'[t] = "dead" /\ \A u \in Threads : u # t => UNCHANGED pc[u]
  BY Fields DEF thread_exit_finish, Deschedule, Goto
<1>3. HoldsOnly(t, t)
  <2>1. mon[t] = t
    BY <1>1 DEF QueueInv, Frames, Frame, CallMonitor
  <2> QED  BY Zenon, <1>1, <2>1 DEF HeldInv, HeldBy
<1>4. HoldsNone(t)' /\ \A u \in Threads : u # t => held'[u] = held[u]
  BY <1>1, <1>3, HeldType DEF thread_exit_finish, HoldsOnly, HoldsNone
<1>5. HeldBy(t)'
  BY <1>2, <1>4 DEF HeldBy, HoldsNone, Waiting
<1> QED  BY <1>1, <1>2, <1>3, <1>4, <1>5, HeldRelease

LEMMA HeldJoinCheck ==
  ASSUME TypeOK, HeldInv, NEW t \in Threads, thread_join_check(t)
  PROVE  HeldInv'
<1>1. /\ cpu = "run" /\ cur = t /\ pc[t] = "check" /\ mon[t] \in Monitors
      /\ UNCHANGED <<cur, cpu, mon, lret, ret>>
  BY Fields DEF thread_join_check, At, sched
<1>2. HoldsOnly(t, mon[t])
  BY Zenon, <1>1 DEF HeldInv, HeldBy
<1>3. CASE tstate[mon[t]] # "TERMINATED"
  <2>1. Enqueue(t, mon[t]) /\ UNCHANGED <<owner, count, held>>
    BY <1>3 DEF thread_join_check, mutex
  <2> QED  BY <1>1, <1>2, <2>1, HeldEnqueue
<1>4. CASE tstate[mon[t]] = "TERMINATED"
  <2>1. /\ mutex_unlock(t, mon[t]) /\ Goto(t, "run") /\ UNCHANGED saved
        /\ held' = [held EXCEPT ![t][mon[t]] = @ - 1]
    BY <1>4 DEF thread_join_check
  <2>2. pc'[t] = "run" /\ \A u \in Threads : u # t => UNCHANGED pc[u]
    BY <2>1, Fields DEF Goto
  <2>3. held[t][mon[t]] > 0
    BY <1>1, <1>2 DEF HoldsOnly
  <2> QED  BY <1>1, <2>1, <2>2, <2>3, HeldUnlock, Zenon
<1> QED  BY <1>3, <1>4

LEMMA HeldUnlockCall ==
  ASSUME TypeOK, HeldInv, NEW t \in Threads, NEW m \in Objs, thread_unlock(t, m)
  PROVE  HeldInv'
<1>1. /\ cpu = "run" /\ cur = t /\ pc[t] = "run" /\ held[t][m] > 0 /\ mutex_unlock(t, m)
      /\ held' = [held EXCEPT ![t][m] = @ - 1]
      /\ UNCHANGED <<cur, cpu, pc, mon, lret, ret, saved>>
  BY DEF thread_unlock, Calling, sched, frame
<1> QED  BY <1>1, Constants, HeldUnlock, Zenon

LEMMA HeldDispatch ==
  ASSUME TypeOK, TypeOK', HeldInv, thread_schedule \/ arch_thread_switch
  PROVE  HeldInv'
<1>1. cpu # "run" /\ UNCHANGED <<owner, count, held, pc, mon, lret, ret, saved>>
  BY DEF thread_schedule, arch_thread_switch, mutex, frame
<1>2. ASSUME NEW u \in Threads PROVE HeldBy(u)'
  BY <1>1, HeldKept DEF HeldInv
<1>3. ASSUME NEW m \in Monitors PROVE MutexOf(m)'
  <2>1. owner'[m] = NULL /\ count'[m] = 0
    BY <1>1, NobodyInside
  <2>2. ASSUME NEW u \in Threads PROVE ~Inside(u, m)'
    <3>1. CASE Waiting(u, mon[u])
      BY <1>1, <3>1 DEF HeldInv, HeldBy, Waiting, Inside, HoldsOnly
    <3>2. CASE ~Waiting(u, mon[u])
      BY <1>1, <3>2 DEF HeldInv, HeldBy, Inside, HoldsNone
    <3> QED  BY <3>1, <3>2
  <2>3. cur' \in Threads
    BY DEF TypeOK
  <2> QED  BY <2>1, <2>2, <2>3 DEF MutexOf
<1> QED  BY <1>2, <1>3 DEF HeldInv
-----------------------------------------------------------------------------
LEMMA HeldInit == Init => HeldInv
<1> SUFFICES ASSUME Init PROVE HeldInv
  OBVIOUS
<1>1. ASSUME NEW u \in Threads PROVE HeldBy(u)
  BY DEF Init, HeldBy, HoldsNone, Waiting
<1>2. ASSUME NEW m \in Monitors PROVE MutexOf(m)
  BY Constants DEF Init, MutexOf, Inside
<1> QED  BY <1>1, <1>2 DEF HeldInv

LEMMA InsideIsOwner ==
  ASSUME TypeOK, HeldInv
  PROVE  OwnerIsInside /\ MutualExclusion
<1>1. ASSUME NEW t \in Threads, NEW m \in Monitors, t # cur \/ cpu # "run"
      PROVE  ~Inside(t, m)
  <2>1. CASE Waiting(t, mon[t])
    BY <2>1 DEF HeldInv, HeldBy, Waiting, Inside, HoldsOnly
  <2>2. CASE ~Waiting(t, mon[t])
    BY <1>1, <2>2 DEF HeldInv, HeldBy, Inside, HoldsNone
  <2> QED  BY <2>1, <2>2
<1>2. ASSUME NEW t \in Threads, NEW m \in Monitors
      PROVE  /\ owner[m] = t <=> Inside(t, m)
             /\ owner[m] = t => count[m] = held[t][m]
  BY <1>1, Constants DEF HeldInv, MutexOf
<1>3. OwnerIsInside
  BY Zenon, <1>2 DEF OwnerIsInside
<1>4. MutualExclusion
  BY <1>2 DEF MutualExclusion
<1> QED  BY <1>3, <1>4

-----------------------------------------------------------------------------
(* What the list operations do to the threads on a queue. *)
LEMMA AppendFacts ==
  ASSUME NEW q \in Seq(Threads), NEW t \in Threads
  PROVE  /\ Range(AppendTo(q, t)) = Range(q) \cup {t}
         /\ IsInjective(q) /\ t \notin Range(q) => IsInjective(AppendTo(q, t))
<1>1. Range(AppendTo(q, t)) = Range(q) \cup {t}
  <2> DEFINE r == AppendTo(q, t)
  <2>1. /\ Len(q) \in Nat /\ DOMAIN q = 1 .. Len(q) /\ DOMAIN r = 1 .. Len(q) + 1
        /\ \A i \in 1 .. Len(q) : r[i] = q[i]
        /\ r[Len(q) + 1] = t
    BY DEF AppendTo
  <2> HIDE DEF r
  <2>2. \A x \in Range(r) : x \in Range(q) \cup {t}
    BY <2>1 DEF Range
  <2>3. \A x \in Range(q) : x \in Range(r)
    <3> SUFFICES ASSUME NEW i \in 1 .. Len(q) PROVE q[i] \in Range(r)
      BY <2>1 DEF Range
    <3> i \in DOMAIN r /\ r[i] = q[i]
      BY <2>1
    <3> QED  BY DEF Range
  <2>4. t \in Range(r)
    BY <2>1 DEF Range
  <2> QED  BY <2>2, <2>3, <2>4 DEF r
<1>2. IsInjective(q) /\ t \notin Range(q) => IsInjective(AppendTo(q, t))
  BY DEF AppendTo, Range, IsInjective
<1> QED BY <1>1, <1>2

LEMMA DeleteFacts ==
  ASSUME NEW q \in Seq(Threads), q # <<>>, IsInjective(q)
  PROVE  /\ Head(q) \in Range(q)
         /\ Range(DeleteHead(q)) = Range(q) \ {Head(q)}
         /\ IsInjective(DeleteHead(q))
<1>1. Head(q) \in Range(q)
  BY DEF Range
<1>2. Range(DeleteHead(q)) = Range(q) \ {Head(q)}
  <2> DEFINE r == DeleteHead(q)
  <2>1. /\ Len(q) \in Nat \ {0} /\ DOMAIN q = 1 .. Len(q) /\ DOMAIN r = 1 .. Len(q) - 1
        /\ \A i \in 1 .. Len(q) - 1 : r[i] = q[i + 1]
        /\ Head(q) = q[1]
    BY DEF DeleteHead
  <2> HIDE DEF r
  <2>2. \A x \in Range(r) : x \in Range(q) /\ x # Head(q)
    BY <2>1 DEF Range, IsInjective
  <2>3. ASSUME NEW x \in Range(q), x # Head(q) PROVE x \in Range(r)
    <3>1. PICK i \in DOMAIN q : q[i] = x
      BY <2>3 DEF Range
    <3>3. i \in 2 .. Len(q)
      BY <2>1, <2>3, <3>1
    <3>2. i - 1 \in DOMAIN r /\ r[i - 1] = x
      BY <2>1, <3>1, <3>3
    <3> QED  BY <3>2 DEF Range
  <2> QED  BY <2>2, <2>3 DEF r
<1>3. IsInjective(DeleteHead(q))
  BY DEF IsInjective, DeleteHead
<1> QED BY <1>1, <1>2, <1>3

LEMMA PrependFacts ==
  ASSUME NEW q \in Seq(Threads), NEW t \in Threads, IsInjective(q), t \notin Range(q)
  PROVE  /\ Range(PrependTo(q, t)) = Range(q) \cup {t}
         /\ IsInjective(PrependTo(q, t))
<1>1. CASE q = <<>>
  BY <1>1 DEF PrependTo, Range, IsInjective
<1>2. CASE q # <<>>
  <2>1. Range(PrependTo(q, t)) = Range(q) \cup {t}
    <3> DEFINE r == PrependTo(q, t)
    <3>1. /\ Len(q) \in Nat \ {0} /\ DOMAIN q = 1 .. Len(q) /\ DOMAIN r = 1 .. Len(q) + 1
          /\ \A i \in 2 .. Len(q) : r[i] = q[i]
          /\ r[1] = t /\ r[Len(q) + 1] = q[1]
      BY <1>2 DEF PrependTo
    <3> HIDE DEF r
    <3>2. \A x \in Range(r) : x \in Range(q) \cup {t}
      BY <3>1 DEF Range
    <3>3. \A x \in Range(q) : x \in Range(r)
      <4> SUFFICES ASSUME NEW i \in 1 .. Len(q) PROVE q[i] \in Range(r)
        BY <3>1 DEF Range
      <4> \E j \in DOMAIN r : r[j] = q[i]
        BY <3>1
      <4> QED  BY DEF Range
    <3>4. t \in Range(r)
      BY <3>1 DEF Range
    <3> QED  BY <3>2, <3>3, <3>4 DEF r
  <2>2. IsInjective(PrependTo(q, t))
    BY <1>2 DEF PrependTo, Range, IsInjective
  <2> QED BY <2>1, <2>2
<1> QED BY <1>1, <1>2

LEMMA EmptyFacts ==
  ASSUME NEW q \in Seq(Threads)
  PROVE  q = <<>> <=> \A t \in Threads : t \notin Range(q)
BY DEF Range

LEMMA EmptyRange == \A t : t \notin Range(<<>>)
BY DEF Range

LEMMA ShortLists == ASSUME NEW t PROVE IsInjective(<<t>>) /\ IsInjective(<<>>)
BY DEF IsInjective

LEMMA AppendStep ==
  ASSUME TypeOK, LinkedOnce, NEW h \in Heads, NEW t \in Threads, ~Queued(t),
         list' = [list EXCEPT ![h] = AppendTo(@, t)]
  PROVE  /\ LinkedOnce'
         /\ \A u \in Threads, k \in Heads : On(u, k)' <=> On(u, k) \/ (u = t /\ k = h)
<1>1. list[h] \in Seq(Threads) /\ list \in [Heads -> Seq(Threads)]
  BY DEF TypeOK
<1>2. t \notin Range(list[h]) /\ IsInjective(list[h])
  BY DEF Queued, On, LinkedOnce
<1>3. list'[h] = AppendTo(list[h], t) /\ \A k \in Heads \ {h} : list'[k] = list[k]
  BY <1>1
<1>4. Range(list'[h]) = Range(list[h]) \cup {t} /\ IsInjective(list'[h])
  BY <1>1, <1>2, <1>3, AppendFacts
<1>5. \A u \in Threads, k \in Heads : On(u, k)' <=> On(u, k) \/ (u = t /\ k = h)
  BY <1>3, <1>4 DEF On
<1>6. LinkedOnce'
  <2>1. \A k \in Heads : IsInjective(list'[k])
    BY <1>3, <1>4 DEF LinkedOnce
  <2>2. \A u \in Threads : \A k, l \in Heads : On(u, k)' /\ On(u, l)' => k = l
    BY <1>5 DEF LinkedOnce, Queued
  <2> QED  BY <2>1, <2>2 DEF LinkedOnce
<1> QED  BY <1>5, <1>6

LEMMA PrependStep ==
  ASSUME TypeOK, LinkedOnce, NEW h \in Heads, NEW t \in Threads, ~Queued(t),
         list' = [list EXCEPT ![h] = PrependTo(@, t)]
  PROVE  /\ LinkedOnce'
         /\ \A u \in Threads, k \in Heads : On(u, k)' <=> On(u, k) \/ (u = t /\ k = h)
<1>1. list[h] \in Seq(Threads) /\ list \in [Heads -> Seq(Threads)]
  BY DEF TypeOK
<1>2. t \notin Range(list[h]) /\ IsInjective(list[h])
  BY DEF Queued, On, LinkedOnce
<1>3. list'[h] = PrependTo(list[h], t) /\ \A k \in Heads \ {h} : list'[k] = list[k]
  BY <1>1
<1>4. Range(list'[h]) = Range(list[h]) \cup {t} /\ IsInjective(list'[h])
  BY <1>1, <1>2, <1>3, PrependFacts
<1>5. \A u \in Threads, k \in Heads : On(u, k)' <=> On(u, k) \/ (u = t /\ k = h)
  BY <1>3, <1>4 DEF On
<1>6. LinkedOnce'
  <2>1. \A k \in Heads : IsInjective(list'[k])
    BY <1>3, <1>4 DEF LinkedOnce
  <2>2. \A u \in Threads : \A k, l \in Heads : On(u, k)' /\ On(u, l)' => k = l
    BY <1>5 DEF LinkedOnce, Queued
  <2> QED  BY <2>1, <2>2 DEF LinkedOnce
<1> QED  BY <1>5, <1>6

LEMMA DeleteStep ==
  ASSUME TypeOK, LinkedOnce, NEW h \in Heads, list[h] # <<>>,
         list' = [list EXCEPT ![h] = DeleteHead(@)]
  PROVE  /\ LinkedOnce'
         /\ Head(list[h]) \in Threads /\ On(Head(list[h]), h)
         /\ \A u \in Threads, k \in Heads : On(u, k)' <=> On(u, k) /\ u # Head(list[h])
<1>1. list[h] \in Seq(Threads) /\ list \in [Heads -> Seq(Threads)]
  BY DEF TypeOK
<1>2. IsInjective(list[h])
  BY DEF LinkedOnce
<1>3. list'[h] = DeleteHead(list[h]) /\ \A k \in Heads \ {h} : list'[k] = list[k]
  BY <1>1
<1>4. Range(list'[h]) = Range(list[h]) \ {Head(list[h])} /\ IsInjective(list'[h])
  BY <1>1, <1>2, <1>3, DeleteFacts
<1>5. Head(list[h]) \in Threads /\ On(Head(list[h]), h)
  <2>1. Head(list[h]) \in Threads
    BY <1>1
  <2>2. Head(list[h]) \in Range(list[h])
    BY <1>1, <1>2, DeleteFacts
  <2> QED  BY <2>1, <2>2 DEF On
<1>6. \A u \in Threads, k \in Heads : On(u, k)' <=> On(u, k) /\ u # Head(list[h])
  <2> SUFFICES ASSUME NEW u \in Threads, NEW k \in Heads
               PROVE  On(u, k)' <=> On(u, k) /\ u # Head(list[h])
    OBVIOUS
  <2>1. CASE k = h
    BY <1>4, <2>1 DEF On
  <2>2. CASE k # h
    <3>1. ~(On(Head(list[h]), h) /\ On(Head(list[h]), k))
      BY <1>5, <2>2 DEF LinkedOnce
    <3> QED  BY <1>3, <1>5, <2>2, <3>1 DEF On
  <2> QED  BY <2>1, <2>2
<1>7. LinkedOnce'
  <2>1. \A k \in Heads : IsInjective(list'[k])
    BY <1>3, <1>4 DEF LinkedOnce
  <2>2. \A u \in Threads : \A k, l \in Heads : On(u, k)' /\ On(u, l)' => k = l
    BY <1>6 DEF LinkedOnce
  <2> QED  BY <2>1, <2>2 DEF LinkedOnce
<1> QED  BY <1>5, <1>6, <1>7

LEMMA MoveStep ==
  ASSUME TypeOK, LinkedOnce, NEW h \in Heads, NEW g \in Heads, h # g, list[h] # <<>>,
         list' = [[list EXCEPT ![h] = DeleteHead(@)] EXCEPT ![g] = AppendTo(@, Head(list[h]))]
  PROVE  /\ LinkedOnce'
         /\ Head(list[h]) \in Threads /\ On(Head(list[h]), h)
         /\ \A u \in Threads, k \in Heads :
              On(u, k)' <=> IF u = Head(list[h]) THEN k = g ELSE On(u, k)
<1> DEFINE r == Head(list[h])
<1>1. /\ list[h] \in Seq(Threads) /\ list[g] \in Seq(Threads)
      /\ list \in [Heads -> Seq(Threads)]
  BY DEF TypeOK
<1>2. IsInjective(list[h]) /\ IsInjective(list[g])
  BY DEF LinkedOnce
<1>3. /\ list'[h] = DeleteHead(list[h]) /\ list'[g] = AppendTo(list[g], r)
      /\ \A k \in Heads \ {h, g} : list'[k] = list[k]
  BY <1>1
<1>4. Range(list'[h]) = Range(list[h]) \ {r} /\ IsInjective(list'[h])
  BY <1>1, <1>2, <1>3, DeleteFacts
<1>5. r \in Threads /\ On(r, h)
  <2>1. Head(list[h]) \in Threads
    BY <1>1
  <2>2. Head(list[h]) \in Range(list[h])
    BY <1>1, <1>2, DeleteFacts
  <2> QED  BY <2>1, <2>2 DEF On
<1>6. r \notin Range(list[g])
  BY <1>5 DEF On, LinkedOnce
<1>7. Range(list'[g]) = Range(list[g]) \cup {r} /\ IsInjective(list'[g])
  BY <1>1, <1>2, <1>3, <1>5, <1>6, AppendFacts
<1>8. \A u \in Threads, k \in Heads : On(u, k)' <=> IF u = r THEN k = g ELSE On(u, k)
  <2> SUFFICES ASSUME NEW u \in Threads, NEW k \in Heads
               PROVE  On(u, k)' <=> IF u = r THEN k = g ELSE On(u, k)
    OBVIOUS
  <2>1. CASE k = h
    BY <1>4, <2>1, Zenon DEF On
  <2>2. CASE k = g
    BY <1>7, <2>2, Zenon DEF On
  <2>3. CASE k \notin {h, g}
    <3>1. ~(On(r, h) /\ On(r, k))
      BY <1>5, <2>3 DEF LinkedOnce
    <3> QED  BY <1>3, <1>5, <2>3, <3>1, Zenon DEF On
  <2> QED  BY <2>1, <2>2, <2>3
<1>9. LinkedOnce'
  <2>1. \A k \in Heads : IsInjective(list'[k])
    BY <1>3, <1>4, <1>7, Zenon DEF LinkedOnce
  <2>2. \A u \in Threads : \A k, l \in Heads : On(u, k)' /\ On(u, l)' => k = l
    BY <1>8 DEF LinkedOnce
  <2> QED  BY <2>1, <2>2, Zenon DEF LinkedOnce
<1> QED  BY <1>5, <1>8, <1>9

(* The same for the three kinds of queue: what the steps of the scheduler  *)
(* and the monitors do to the queues.                                      *)
LEMMA ResumeStep ==
  ASSUME TypeOK, LinkedOnce, NEW p \in Priorities, NEW t \in Threads, ~Queued(t),
         \/ list' = [list EXCEPT ![Run(p)] = AppendTo(@, t)]
         \/ list' = [list EXCEPT ![Run(p)] = PrependTo(@, t)]
  PROVE  /\ LinkedOnce'
         /\ \A u \in Threads : Queued(u)' <=> Queued(u) \/ u = t
         /\ \A u \in Threads, q \in Priorities :
              On(u, Run(q))' <=> On(u, Run(q)) \/ (u = t /\ q = p)
         /\ \A u \in Threads, m \in Monitors : On(u, Cond(m))' <=> On(u, Cond(m))
         /\ \A m \in Monitors : /\ list'[Lock(m)] = list[Lock(m)]
                                /\ list'[Cond(m)] = list[Cond(m)]
<1>1. /\ LinkedOnce'
      /\ \A u \in Threads, k \in Heads : On(u, k)' <=> On(u, k) \/ (u = t /\ k = Run(p))
  <2>1. Run(p) \in Heads
    BY HeadsAre
  <2> QED  BY <2>1, AppendStep, PrependStep
<1>2. \A m \in Monitors : list'[Lock(m)] = list[Lock(m)] /\ list'[Cond(m)] = list[Cond(m)]
  <2>1. \A h \in Heads : h # Run(p) => list'[h] = list[h]
    BY DEF TypeOK
  <2> QED  BY <2>1, HeadsAre
<1> QED  BY <1>1, <1>2, HeadsAre DEF Queued

LEMMA SleepStep ==
  ASSUME TypeOK, LinkedOnce, NEW n \in Monitors, NEW t \in Threads, ~Queued(t),
         list' = [list EXCEPT ![Cond(n)] = AppendTo(@, t)]
  PROVE  /\ LinkedOnce'
         /\ \A u \in Threads : Queued(u)' <=> Queued(u) \/ u = t
         /\ \A u \in Threads, q \in Priorities : On(u, Run(q))' <=> On(u, Run(q))
         /\ \A u \in Threads, m \in Monitors :
              On(u, Cond(m))' <=> On(u, Cond(m)) \/ (u = t /\ m = n)
         /\ \A m \in Monitors : /\ list'[Lock(m)] = list[Lock(m)]
                                /\ m # n => list'[Cond(m)] = list[Cond(m)]
<1>1. /\ LinkedOnce'
      /\ \A u \in Threads, k \in Heads : On(u, k)' <=> On(u, k) \/ (u = t /\ k = Cond(n))
  BY HeadsAre, AppendStep, Zenon
<1>2. \A m \in Monitors : /\ list'[Lock(m)] = list[Lock(m)]
                          /\ m # n => list'[Cond(m)] = list[Cond(m)]
  BY HeadsAre, Zenon DEF TypeOK
<1> QED  BY <1>1, <1>2, HeadsAre DEF Queued

LEMMA PickStep ==
  ASSUME TypeOK, LinkedOnce, NEW p \in Priorities, PickFrom(p)
  PROVE  /\ LinkedOnce'
         /\ next' \in Threads /\ On(next', Run(p))
         /\ \A u \in Threads : Queued(u)' <=> Queued(u) /\ u # next'
         /\ \A u \in Threads, q \in Priorities :
              On(u, Run(q))' <=> On(u, Run(q)) /\ u # next'
         /\ \A u \in Threads, m \in Monitors :
              On(u, Cond(m))' <=> On(u, Cond(m)) /\ u # next'
         /\ \A m \in Monitors : /\ list'[Lock(m)] = list[Lock(m)]
                                /\ list'[Cond(m)] = list[Cond(m)]
<1>1. /\ list[Run(p)] # <<>> /\ next' = Head(list[Run(p)])
      /\ list' = [list EXCEPT ![Run(p)] = DeleteHead(@)]
  BY DEF PickFrom
<1>2. /\ LinkedOnce'
      /\ next' \in Threads /\ On(next', Run(p))
      /\ \A u \in Threads, k \in Heads : On(u, k)' <=> On(u, k) /\ u # next'
  BY <1>1, HeadsAre, DeleteStep, Zenon
<1>3. \A m \in Monitors : list'[Lock(m)] = list[Lock(m)] /\ list'[Cond(m)] = list[Cond(m)]
  BY <1>1, HeadsAre, Zenon DEF TypeOK
<1> QED  BY <1>2, <1>3, HeadsAre DEF Queued

LEMMA SignalStep ==
  ASSUME TypeOK, LinkedOnce, NEW n \in Monitors, list[Cond(n)] # <<>>, monitor_signal(n)
  PROVE  \E r \in Threads :
         /\ LinkedOnce'
         /\ On(r, Cond(n))
         /\ \A u \in Threads : Queued(u)' <=> Queued(u)
         /\ \A u \in Threads, q \in Priorities :
              On(u, Run(q))' => On(u, Run(q)) \/ u = r
         /\ \A u \in Threads, m \in Monitors :
              On(u, Cond(m))' <=> On(u, Cond(m)) /\ u # r
         /\ \A m \in Monitors : /\ list'[Lock(m)] = list[Lock(m)]
                                /\ m # n => list'[Cond(m)] = list[Cond(m)]
         /\ tstate' = [tstate EXCEPT ![r] = "RUNNABLE"]
<1> DEFINE r == Head(list[Cond(n)])
           g == Run(priority[r])
<1>1. r \in Threads
  BY HeadsAre DEF TypeOK
<1>2. g \in Heads /\ g # Cond(n) /\ Cond(n) \in Heads /\ priority[r] \in Priorities
  BY <1>1, HeadsAre, Zenon DEF TypeOK
<1>3. /\ list' = [[list EXCEPT ![Cond(n)] = DeleteHead(@)] EXCEPT ![g] = AppendTo(@, r)]
      /\ tstate' = [tstate EXCEPT ![r] = "RUNNABLE"]
  BY DEF monitor_signal, Resume
<1>4. /\ LinkedOnce' /\ On(r, Cond(n))
      /\ \A u \in Threads, k \in Heads : On(u, k)' <=> IF u = r THEN k = g ELSE On(u, k)
  BY <1>2, <1>3, MoveStep, Zenon
<1>5. \A m \in Monitors : /\ list'[Lock(m)] = list[Lock(m)]
                          /\ m # n => list'[Cond(m)] = list[Cond(m)]
  BY <1>2, <1>3, HeadsAre, Zenon DEF TypeOK
<1> HIDE DEF r, g
<1>6. \A u \in Threads : Queued(u)' <=> Queued(u)
  BY <1>1, <1>2, <1>4 DEF Queued
<1>7. \A u \in Threads, q \in Priorities : On(u, Run(q))' => On(u, Run(q)) \/ u = r
  BY <1>4, HeadsAre
<1>8. \A u \in Threads, m \in Monitors : On(u, Cond(m))' <=> On(u, Cond(m)) /\ u # r
  BY <1>2, <1>4, HeadsAre DEF g
<1> QED  BY <1>1, <1>3, <1>4, <1>5, <1>6, <1>7, <1>8, Zenon
-----------------------------------------------------------------------------
(* The ways a run queue changes in one step. *)
LEMMA ServedFacts ==
  ASSUME NEW q \in Seq(Threads), NEW t \in Threads, NEW n
  PROVE  /\ Served(q, q, n) /\ Served(q, AppendTo(q, t), n)
         /\ q # <<>> => Served(q, DeleteHead(q), Head(q))
<1>1. Served(q, q, n)
  <2>1. 0 \in {0, 1} /\ Len(q) \in Nat /\ Len(q) >= Len(q) - 0
        /\ \A i \in 1 .. Len(q) - 0 : q[i] = q[i + 0]
    OBVIOUS
  <2> QED  BY <2>1 DEF Served
<1>2. Served(q, AppendTo(q, t), n)
  <2>1. /\ 0 \in {0, 1} /\ Len(AppendTo(q, t)) >= Len(q) - 0
        /\ \A i \in 1 .. Len(q) - 0 : AppendTo(q, t)[i] = q[i + 0]
    BY DEF AppendTo
  <2> QED  BY <2>1 DEF Served
<1>3. ASSUME q # <<>> PROVE Served(q, DeleteHead(q), Head(q))
  <2>1. /\ 1 \in {0, 1} /\ Len(DeleteHead(q)) >= Len(q) - 1 /\ Head(q) = q[1]
        /\ \A i \in 1 .. Len(q) - 1 : DeleteHead(q)[i] = q[i + 1]
    BY <1>3 DEF DeleteHead
  <2> QED  BY <1>3, <2>1 DEF Served
<1> QED  BY <1>1, <1>2, <1>3

-----------------------------------------------------------------------------
(* The steps that leave every thread on the queue it is on, or move one to *)
(* the end of its run queue, preserve QueueInv.  The leaves reason about a *)
(* few facts without arithmetic, which Zenon does best.                    *)

(* What a step leaves true of the threads it does not change. *)
LEMMA FrameKept ==
  ASSUME NEW u \in Threads, Frame(u), UNCHANGED <<pc[u], mon[u], lret[u], ret[u]>>,
         u = cur /\ cpu = "run" => u = cur' /\ cpu' = "run"
  PROVE  Frame(u)'
BY DEF Frame, CallMonitor

LEMMA ExitKept ==
  ASSUME NEW u \in Threads, ExitPlace(u), UNCHANGED <<pc[u], lret[u], ret[u]>>,
         tstate'[u] = "TERMINATED" <=> tstate[u] = "TERMINATED",
         pc[u] = "dead" => ~Queued(u)' /\ ~(cpu' = "run" /\ u = cur'),
         pc[u] \in {"finish", "dead"} => list'[Cond(u)] = <<>>
  PROVE  ExitPlace(u)'
BY Zenon DEF ExitPlace, Exiting

LEMMA HolderKept ==
  ASSUME NEW u \in Threads, Holder(u), UNCHANGED <<pc[u], mon[u], lret[u], saved[u]>>,
         pc[u] \in InsideCall => owner' = owner
  PROVE  Holder(u)'
BY DEF Holder, Waiting

LEMMA ListKept ==
  ASSUME LinkedOnce, UNCHANGED list
  PROVE  /\ LinkedOnce'
         /\ \A u \in Threads : Queued(u)' <=> Queued(u)
         /\ \A u \in Threads, h \in Heads : On(u, h)' <=> On(u, h)
<1>1. \A u \in Threads, h \in Heads : On(u, h)' <=> On(u, h)
  BY DEF On
<1> QED  BY <1>1 DEF Queued, LinkedOnce

(* While t runs no other thread is inside a join or an exit. *)
LEMMA OtherFrames ==
  ASSUME Frames, NEW t \in Threads, cur = t
  PROVE  \A u \in Threads : u # t \/ cpu # "run" =>
           pc[u] \in {"run", "acquire", "retry", "dead"} /\ pc[u] \notin InsideCall
BY DEF Frames, Frame, InsideCall

LEMMA OtherMonitors ==
  ASSUME ThreadMonitors, NEW u \in Threads, ~(cpu = "run" /\ mon[cur] = u /\ pc[cur] \in InsideCall)
  PROVE  owner[u] = NULL /\ count[u] = 0
BY DEF ThreadMonitors, FreeOrCurrent
-----------------------------------------------------------------------------
(* t gives up the CPU and stays runnable: in thread_yield, thread_preempt  *)
(* and, as lock->waiting is empty, in thread_lock_wait.                    *)
LEMMA RequeueStep ==
  ASSUME QueueInv, TypeOK', NEW t \in Threads, NEW p \in Priorities, NEW label,
         cpu = "run", cur = t, cpu' = "schedule",
         \/ pc[t] = "run" /\ label = "run"
         \/ pc[t] \in {"acquire", "retry"} /\ label = "retry" /\ mon[t] \in Objs,
         \/ list' = [list EXCEPT ![Run(p)] = AppendTo(@, t)]
         \/ list' = [list EXCEPT ![Run(p)] = PrependTo(@, t)],
         pc' = [pc EXCEPT ![t] = label], tstate' = [tstate EXCEPT ![t] = "RUNNABLE"],
         UNCHANGED <<cur, next, owner, count, mon, lret, ret, saved, panic>>
  PROVE  QueueInv'
<1> USE Zenon DEF QueueInv
<1>1. /\ pc'[t] = label /\ \A u \in Threads : u # t => pc'[u] = pc[u]
      /\ tstate'[t] = "RUNNABLE" /\ \A u \in Threads : u # t => tstate'[u] = tstate[u]
  BY Fields
<1>2. ~Queued(t)
  BY DEF Current
<1>3. /\ LinkedOnce'
      /\ \A u \in Threads : Queued(u)' <=> Queued(u) \/ u = t
      /\ \A u \in Threads, q \in Priorities :
           On(u, Run(q))' <=> On(u, Run(q)) \/ (u = t /\ q = p)
      /\ \A u \in Threads, m \in Monitors : On(u, Cond(m))' <=> On(u, Cond(m))
      /\ \A m \in Monitors : /\ list'[Lock(m)] = list[Lock(m)]
                             /\ list'[Cond(m)] = list[Cond(m)]
  BY <1>2, ResumeStep
<1>4. \A m \in Monitors : ~On(t, Cond(m))
  BY <1>2, HeadsAre DEF Queued
<1>5. StateMatchesQueue'
  BY <1>1, <1>3, <1>4, SMT DEF StateMatchesQueue
<1>6. NoThreadLost'
  BY <1>1, <1>3 DEF NoThreadLost
<1>7. Frames'
  <2>1. Frame(t)'
    BY <1>1 DEF Frames, Frame, CallMonitor
  <2>2. ASSUME NEW u \in Threads, u # t PROVE Frame(u)'
    BY <1>1, <2>2, FrameKept DEF Frames
  <2> QED  BY <2>1, <2>2 DEF Frames
<1>8. Unstarted'
  BY <1>1, <1>3 DEF Unstarted
<1>9. Exited'
  <2>1. ExitPlace(t)'
    BY <1>1 DEF ExitPlace, Exiting
  <2>2. ASSUME NEW u \in Threads, u # t PROVE ExitPlace(u)'
    BY <1>1, <1>3, <2>2, Constants, ExitKept DEF Exited, ExitPlace
  <2> QED  BY <2>1, <2>2 DEF Exited
<1>10. Sleepers'
  BY <1>1, <1>3, <1>4, SMT DEF Sleepers, Waiting
<1>11. Current'
  BY <1>1, <1>3, Constants DEF Current
<1>12. ThreadMonitors'
  <2>1. ASSUME NEW u \in Threads PROVE FreeOrCurrent(u)'
    BY OtherMonitors DEF FreeOrCurrent, InsideCall
  <2>2. Holder(t)'
    BY <1>1 DEF Holder, Waiting, InsideCall
  <2>3. ASSUME NEW u \in Threads, u # t PROVE Holder(u)'
    BY <1>1, <2>3, HolderKept DEF ThreadMonitors
  <2> QED  BY <2>1, <2>2, <2>3 DEF ThreadMonitors
<1>13. RunQueueNeverEmpty'
  BY DEF RunQueueNeverEmpty
<1> QED  BY <1>3, <1>5, <1>6, <1>7, <1>8, <1>9, <1>10, <1>11, <1>12, <1>13

LEMMA YieldStep ==
  ASSUME QueueInv, TypeOK', NEW t \in Threads, thread_yield(t) \/ thread_preempt(t)
  PROVE  QueueInv'
<1>1. /\ cpu = "run" /\ cur = t /\ cpu' = "schedule" /\ pc[t] = "run"
      /\ pc' = [pc EXCEPT ![t] = "run"] /\ tstate' = [tstate EXCEPT ![t] = "RUNNABLE"]
      /\ UNCHANGED <<cur, next, owner, count, mon, lret, ret, saved, panic>>
  BY DEF thread_yield, thread_preempt, Calling, Deschedule, Goto, mutex
<1>2. PICK p \in Priorities : \/ list' = [list EXCEPT ![Run(p)] = AppendTo(@, t)]
                              \/ list' = [list EXCEPT ![Run(p)] = PrependTo(@, t)]
  BY Zenon DEF thread_yield, thread_preempt, Resume, TypeOK, QueueInv
<1> QED  BY <1>1, <1>2, RequeueStep, Zenon

(* mutex_lock waits. *)
LEMMA LockWaitStep ==
  ASSUME QueueInv, TypeOK', NEW t \in Threads, At(t, "acquire") \/ At(t, "retry"),
         owner[mon[t]] # NULL, thread_lock_wait(t, mon[t]),
         UNCHANGED <<mon, lret, ret, saved, panic>>
  PROVE  QueueInv'
<1> USE Zenon DEF QueueInv
<1>1. /\ cpu = "run" /\ cur = t /\ cpu' = "schedule" /\ pc[t] \in {"acquire", "retry"}
      /\ pc' = [pc EXCEPT ![t] = "retry"]
      /\ UNCHANGED <<cur, next, owner, count>>
  BY DEF At, thread_lock_wait, Deschedule, Goto, mutex
<1>2. mon[t] \in Monitors /\ priority[t] \in Priorities
  BY DEF TypeOK
<1>3. mon[t] \in Objs
  <2>1. mon[t] \notin Threads
    BY <1>1, OtherMonitors DEF InsideCall
  <2> QED  BY <1>2, <2>1 DEF Monitors
<1>4. Lock(mon[t]) \in Heads /\ list[Lock(mon[t])] = <<>>
  BY <1>2, HeadsAre DEF StateMatchesQueue
<1>5. AppendTo(<<>>, t) = <<t>> /\ Head(<<t>>) = t /\ DeleteHead(<<t>>) = <<>>
  BY SMT DEF AppendTo, DeleteHead
<1>6. list' = [list EXCEPT ![Run(priority[t])] = AppendTo(@, t)]
  <2>1. [list EXCEPT ![Lock(mon[t])] = <<>>] = list
    BY <1>4 DEF TypeOK
  <2> QED  BY <1>4, <1>5, <2>1, Zenon DEF thread_lock_wait, Resume
<1>7. tstate' = [tstate EXCEPT ![t] = "RUNNABLE"]
  <2>1. tstate' = [[tstate EXCEPT ![t] = "SLEEPING"] EXCEPT ![t] = "RUNNABLE"]
    BY <1>4, <1>5, Zenon DEF thread_lock_wait
  <2> QED  BY <2>1, Fields
<1> QED  BY <1>1, <1>2, <1>3, <1>6, <1>7, RequeueStep, Zenon
-----------------------------------------------------------------------------
(* The conjuncts that a step of t leaves alone when it touches no queue    *)
(* and no thread state.                                                    *)
LEMMA LocalStep ==
  ASSUME QueueInv, TypeOK', NEW t \in Threads,
         cpu = "run", cur = t, t # Idle, pc[t] \notin {"release", "dead"},
         UNCHANGED <<cur, cpu, next, tstate, list, panic>>,
         pc'[t] \notin {"release", "dead"},
         \A u \in Threads : u # t => UNCHANGED <<pc[u], mon[u], lret[u], ret[u], saved[u]>>,
         Exiting(t)' <=> Exiting(t),
         pc'[t] = "finish" => list[Cond(t)] = <<>>,
         Frame(t)', Holder(t)', \A u \in Threads : FreeOrCurrent(u)'
  PROVE  QueueInv'
<1> USE Zenon DEF QueueInv
<1>1. /\ LinkedOnce'
      /\ \A u \in Threads : Queued(u)' <=> Queued(u)
      /\ \A u \in Threads, h \in Heads : On(u, h)' <=> On(u, h)
  BY ListKept
<1>2. \A m \in Monitors : ~On(t, Cond(m))
  BY HeadsAre DEF Queued, Current
<1>3. StateMatchesQueue'
  BY <1>1, HeadsAre DEF StateMatchesQueue
<1>4. NoThreadLost'
  BY <1>1 DEF NoThreadLost
<1>5. Frames'
  <2> SUFFICES ASSUME NEW u \in Threads, u # t PROVE Frame(u)'
    BY DEF Frames
  <2> QED  BY FrameKept DEF Frames
<1>6. Unstarted'
  BY <1>1 DEF Unstarted
<1>7. Exited'
  <2>1. ExitPlace(t)'
    BY DEF Exited, ExitPlace
  <2>2. ASSUME NEW u \in Threads, u # t PROVE ExitPlace(u)'
    BY <1>1, <2>2, ExitKept DEF Exited, ExitPlace
  <2> QED  BY <2>1, <2>2 DEF Exited
<1>8. Sleepers'
  BY <1>1, <1>2, HeadsAre DEF Sleepers, Waiting
<1>9. Current'
  BY <1>1, Constants DEF Current
<1>10. ThreadMonitors'
  <2> SUFFICES ASSUME NEW u \in Threads, u # t PROVE Holder(u)'
    BY DEF ThreadMonitors
  <2> QED  BY OtherFrames, HolderKept DEF ThreadMonitors
<1>11. RunQueueNeverEmpty'
  BY DEF RunQueueNeverEmpty
<1> QED  BY <1>1, <1>3, <1>4, <1>5, <1>6, <1>7, <1>8, <1>9, <1>10, <1>11

(* The calls that only set up a frame. *)
LEMMA CallStep ==
  ASSUME QueueInv, TypeOK', NEW t \in Threads, Calling(t, "lock") \/ Calling(t, "unlock") \/
         Calling(t, "join") \/ Calling(t, "broadcast"),
         UNCHANGED <<cur, cpu, next, tstate, list, panic>>,
         \A u \in Threads : u # t => UNCHANGED <<pc[u], mon[u], lret[u], ret[u]>>,
         UNCHANGED saved,
         \A u \in Threads : UNCHANGED <<owner[u], count[u]>>,
         \/ pc'[t] = "run"
         \/ pc'[t] = "acquire" /\ lret'[t] = "run" /\ mon'[t] \in Objs
         \/ /\ pc'[t] = "acquire" /\ lret'[t] = "check"
            /\ ret'[t] = "check" /\ mon'[t] \in Threads
         \/ pc'[t] = "broadcast" /\ ret'[t] = "run" /\ mon'[t] \in Objs
  PROVE  QueueInv'
<1> USE Zenon DEF QueueInv
<1>1. cpu = "run" /\ cur = t /\ t # Idle /\ pc[t] = "run"
  BY DEF Calling
<1>2. Frame(t)'
  BY <1>1 DEF Frame, CallMonitor
<1>3. Holder(t)'
  BY Constants DEF Holder, Waiting, InsideCall
<1>4. ASSUME NEW u \in Threads PROVE FreeOrCurrent(u)'
  BY <1>1, OtherMonitors DEF FreeOrCurrent, InsideCall
<1>5. ~Exiting(t) /\ ~Exiting(t)'
  BY <1>1 DEF Exiting
<1> QED  BY <1>1, <1>2, <1>3, <1>4, <1>5, LocalStep

LEMMA LockCallStep ==
  ASSUME QueueInv, TypeOK', NEW t \in Threads, NEW m \in Objs, thread_lock(t, m)
  PROVE  QueueInv'
<1>1. /\ Calling(t, "lock") /\ UNCHANGED <<cur, cpu, next, tstate, list, panic>>
      /\ UNCHANGED <<ret, saved, owner, count>>
  BY Zenon DEF thread_lock, sched, mutex
<1>2. /\ pc'[t] = "acquire" /\ lret'[t] = "run" /\ mon'[t] = m
      /\ \A u \in Threads : u # t => UNCHANGED <<pc[u], mon[u], lret[u]>>
  BY Zenon, Fields DEF thread_lock, Goto, QueueInv
<1> QED  BY Zenon, <1>1, <1>2, CallStep

LEMMA UnlockCallStep ==
  ASSUME QueueInv, TypeOK', NEW t \in Threads, NEW m \in Objs, thread_unlock(t, m)
  PROVE  QueueInv'
<1>1. /\ Calling(t, "unlock") /\ UNCHANGED <<cur, cpu, next, tstate, list, panic>>
      /\ UNCHANGED <<pc, mon, lret, ret, saved>>
      /\ mutex_unlock(t, m)
  BY DEF thread_unlock, sched, frame
<1>2. \A u \in Threads : owner'[u] = owner[u]
  BY <1>1, Fields, Constants DEF mutex_unlock, mutex, QueueInv
<1>3. \A u \in Threads : count'[u] = count[u]
  BY <1>1, Fields, Constants DEF mutex_unlock, mutex, QueueInv
<1>4. pc'[t] = "run"
  BY <1>1 DEF Calling
<1> QED  BY Zenon, <1>1, <1>2, <1>3, <1>4, CallStep

LEMMA BroadcastCallStep ==
  ASSUME QueueInv, TypeOK', NEW t \in Threads, NEW m \in Objs, thread_broadcast(t, m)
  PROVE  QueueInv'
<1>1. /\ Calling(t, "broadcast") /\ UNCHANGED <<cur, cpu, next, tstate, list, panic>>
      /\ UNCHANGED <<lret, saved, owner, count>>
  BY Zenon DEF thread_broadcast, sched, mutex
<1>2. /\ pc'[t] = "broadcast" /\ ret'[t] = "run" /\ mon'[t] = m
      /\ \A u \in Threads : u # t => UNCHANGED <<pc[u], mon[u], ret[u]>>
  BY Fields DEF thread_broadcast, Goto, QueueInv
<1> QED  BY Zenon, <1>1, <1>2, CallStep

LEMMA JoinCallStep ==
  ASSUME QueueInv, TypeOK', NEW t \in Threads, NEW v \in Threads, thread_join(t, v)
  PROVE  QueueInv'
<1>1. /\ Calling(t, "join") /\ UNCHANGED <<cur, cpu, next, tstate, list, panic>>
      /\ UNCHANGED <<saved, owner, count>>
  BY DEF thread_join, sched, mutex
<1>2. /\ pc'[t] = "acquire" /\ lret'[t] = "check" /\ ret'[t] = "check" /\ mon'[t] = v
      /\ \A u \in Threads : u # t => UNCHANGED <<pc[u], mon[u], lret[u], ret[u]>>
  BY Fields DEF thread_join, Goto, QueueInv
<1> QED  BY <1>1, <1>2, CallStep

(* mutex_lock gets the mutex. *)
LEMMA LockedStep ==
  ASSUME QueueInv, TypeOK', NEW t \in Threads, Locked(t, mon[t]),
         \/ At(t, "acquire") /\ owner' = [owner EXCEPT ![mon[t]] = t]
         \/ At(t, "retry") /\ UNCHANGED owner,
         UNCHANGED <<mon, lret, ret, saved, panic>>
  PROVE  QueueInv'
<1> USE Zenon DEF QueueInv
<1>1. /\ cpu = "run" /\ cur = t /\ pc[t] \in {"acquire", "retry"} /\ t # Idle
      /\ UNCHANGED <<cur, cpu, next, tstate, list, panic>>
  BY DEF At, Locked, Current, sched
<1>2. pc'[t] = lret[t] /\ \A u \in Threads : u # t => pc'[u] = pc[u]
  BY Fields DEF Locked, Goto
<1>3. lret[t] \in {"run", "check", "broadcast", "restore"}
  BY Fields
<1>4. /\ lret[t] = "run" => mon[t] \in Objs
      /\ lret[t] = "check" => ret[t] = "check" /\ CallMonitor(t)
      /\ lret[t] = "broadcast" => ret[t] = "finish" /\ CallMonitor(t)
      /\ lret[t] = "restore" => ret[t] \in {"check", "run"} /\ CallMonitor(t)
      /\ pc[t] = "retry" => mon[t] \in Objs
  BY <1>1, <1>3 DEF Frames, Frame
<1>5. Frame(t)'
  BY <1>1, <1>2, <1>3, <1>4 DEF Frame, CallMonitor
<1>6. mon[t] \in Threads => pc[t] = "acquire" /\ lret[t] # "run"
  BY <1>1, <1>4, Constants
<1>7. \A u \in Threads : owner[u] = NULL /\ count[u] = 0
  BY <1>1, OtherMonitors DEF InsideCall
<1>8. \A u \in Threads : owner'[u] = IF u = mon[t] THEN t ELSE NULL
  BY <1>6, <1>7, Fields, Constants DEF At
<1>9. \A u \in Threads : count'[u] = IF u = mon[t] THEN 1 ELSE 0
  BY <1>7, Fields, Constants, SMT DEF Locked
<1>10. ASSUME NEW u \in Threads PROVE FreeOrCurrent(u)'
  BY <1>1, <1>2, <1>3, <1>6, <1>8, <1>9 DEF FreeOrCurrent, InsideCall
<1>11. Holder(t)'
  <2>1. Holder(t)
    BY DEF ThreadMonitors
  <2> QED  BY <1>1, <1>2, <1>3, <1>6, <1>8, <2>1 DEF Holder, Waiting, InsideCall
<1>12. lret[t] = "broadcast" => ret[t] = "finish" /\ pc[t] = "acquire"
  BY <1>4, <1>6 DEF CallMonitor
<1>13. Exiting(t)' <=> Exiting(t)
  BY <1>1, <1>2, <1>3, <1>12 DEF Exiting
<1>14. pc'[t] \notin {"release", "dead", "finish"}
  BY <1>2, <1>3
<1> QED  BY <1>1, <1>2, <1>5, <1>10, <1>11, <1>13, <1>14, LocalStep

LEMMA RestoreStep ==
  ASSUME QueueInv, TypeOK', NEW t \in Threads, monitor_wait_restore(t)
  PROVE  QueueInv'
<1> USE Zenon DEF QueueInv
<1>1. /\ cpu = "run" /\ cur = t /\ pc[t] = "restore" /\ t # Idle
      /\ UNCHANGED <<cur, cpu, next, tstate, list, owner, mon, lret, ret, saved, panic>>
  BY DEF monitor_wait_restore, At, Current, sched
<1>2. pc'[t] = ret[t] /\ \A u \in Threads : u # t => pc'[u] = pc[u]
  BY Fields DEF monitor_wait_restore, Goto
<1>3. ret[t] \in {"check", "run"} /\ CallMonitor(t)
  BY <1>1 DEF Frames, Frame
<1>4. Frame(t)'
  BY <1>1, <1>2, <1>3 DEF Frame, CallMonitor
<1>5. mon[t] \in Threads => owner[mon[t]] = t /\ saved[t] = 1 /\ count[mon[t]] = 1
  BY <1>1, Constants DEF ThreadMonitors, Holder, FreeOrCurrent, InsideCall
<1>6. \A u \in Threads : count'[u] = count[u]
  <2>1. count' = [count EXCEPT ![mon[t]] = saved[t]]
    BY DEF monitor_wait_restore
  <2> QED  BY <1>5, <2>1, Fields, Constants
<1>7. ASSUME NEW u \in Threads PROVE FreeOrCurrent(u)'
  <2>1. CASE u = mon[t]
    BY <1>1, <1>2, <1>3, <1>5, <1>6, <2>1, Constants DEF FreeOrCurrent, InsideCall, CallMonitor
  <2>2. CASE u # mon[t]
    BY <1>1, <1>6, <2>2, OtherMonitors DEF FreeOrCurrent
  <2> QED  BY <2>1, <2>2
<1>8. Holder(t)'
  BY <1>1, <1>2, <1>3, <1>5, Constants DEF Holder, Waiting, InsideCall, CallMonitor
<1> QED  BY <1>1, <1>2, <1>3, <1>4, <1>7, <1>8, LocalStep DEF Exiting

LEMMA BroadcastDoneStep ==
  ASSUME QueueInv, TypeOK', NEW t \in Threads, monitor_broadcast(t),
         list[Cond(mon[t])] = <<>>
  PROVE  QueueInv'
<1> USE Zenon DEF QueueInv
<1>1. /\ cpu = "run" /\ cur = t /\ pc[t] = "broadcast" /\ t # Idle
      /\ UNCHANGED <<cur, cpu, next, tstate, list, panic>>
      /\ UNCHANGED <<owner, count, mon, lret, ret, saved>>
  BY DEF monitor_broadcast, At, Current, sched, mutex
<1>2. pc'[t] = ret[t] /\ \A u \in Threads : u # t => pc'[u] = pc[u]
  BY Fields DEF monitor_broadcast, Goto
<1>3. ret[t] \in {"run", "finish"} /\ CallMonitor(t)
  BY <1>1 DEF Frames, Frame
<1>4. Frame(t)'
  BY <1>1, <1>2, <1>3 DEF Frame, CallMonitor
<1>5. ASSUME NEW u \in Threads PROVE FreeOrCurrent(u)'
  <2>1. FreeOrCurrent(u)
    BY DEF ThreadMonitors
  <2> QED  BY <1>1, <1>2, <1>3, <2>1, Constants DEF FreeOrCurrent, InsideCall, CallMonitor
<1>6. Holder(t)'
  <2>1. Holder(t)
    BY DEF ThreadMonitors
  <2> QED  BY <1>1, <1>2, <1>3, <2>1, Constants DEF Holder, Waiting, InsideCall, CallMonitor
<1>7. Exiting(t)' <=> Exiting(t)
  BY <1>1, <1>2, <1>3 DEF Exiting
<1>8. ret[t] = "finish" => list[Cond(t)] = <<>>
  BY <1>3 DEF CallMonitor
<1> QED  BY <1>1, <1>2, <1>3, <1>4, <1>5, <1>6, <1>7, <1>8, LocalStep

(* After the unlock of a join, a wait or an exit no thread's monitor is    *)
(* held.                                                                   *)
LEMMA UnlockThreadMonitor ==
  ASSUME QueueInv, NEW t \in Threads, cur = t, cpu = "run", pc[t] \in InsideCall,
         mutex_unlock(t, mon[t])
  PROVE  \A u \in Threads : owner'[u] = NULL /\ count'[u] = 0
<1> USE Zenon DEF QueueInv
<1>1. \A u \in Threads : u # mon[t] => owner[u] = NULL /\ count[u] = 0
  BY OtherMonitors
<1>2. mon[t] \in Threads => owner[mon[t]] = t /\ count[mon[t]] = 1
  BY Constants DEF ThreadMonitors, Holder, FreeOrCurrent
<1>3. \A u \in Threads : owner'[u] = NULL
  BY <1>1, <1>2, Fields, Constants, SMT DEF mutex_unlock, mutex
<1>4. \A u \in Threads : count'[u] = 0
  BY <1>1, <1>2, Fields, Constants, SMT DEF mutex_unlock, mutex
<1> QED  BY <1>3, <1>4

LEMMA JoinReturnStep ==
  ASSUME QueueInv, TypeOK', NEW t \in Threads, thread_join_check(t),
         tstate[mon[t]] = "TERMINATED"
  PROVE  QueueInv'
<1> USE Zenon DEF QueueInv
<1>1. /\ cpu = "run" /\ cur = t /\ pc[t] = "check" /\ t # Idle
      /\ UNCHANGED <<cur, cpu, next, tstate, list, panic>>
      /\ UNCHANGED <<mon, lret, ret, saved>>
  BY DEF thread_join_check, At, Current, sched
<1>2. pc'[t] = "run" /\ \A u \in Threads : u # t => pc'[u] = pc[u]
  BY Fields DEF thread_join_check, Goto
<1>3. mutex_unlock(t, mon[t])
  BY DEF thread_join_check
<1>4. Frame(t)'
  BY <1>2 DEF Frame
<1>5. ASSUME NEW u \in Threads PROVE FreeOrCurrent(u)'
  BY <1>1, <1>3, UnlockThreadMonitor DEF FreeOrCurrent, InsideCall
<1>6. Holder(t)'
  BY <1>2 DEF Holder, Waiting, InsideCall
<1> QED  BY <1>1, <1>2, <1>4, <1>5, <1>6, LocalStep DEF Exiting

-----------------------------------------------------------------------------

(* thread_wait, from a caller or from thread_join, up to its release. *)
LEMMA EnqueueStep ==
  ASSUME QueueInv, TypeOK', NEW t \in Threads, NEW n \in Monitors, Enqueue(t, n),
         cpu = "run", cur = t, t # Idle, mon'[t] = n,
         UNCHANGED <<cur, cpu, next, owner, count, lret, panic>>,
         \A u \in Threads : u # t => UNCHANGED <<mon[u], ret[u]>>,
         \/ pc[t] = "run" /\ ret'[t] = "run" /\ n \in Objs
         \/ pc[t] = "check" /\ UNCHANGED <<mon[t], ret[t]>> /\ tstate[n] # "TERMINATED"
  PROVE  QueueInv'
<1> USE Zenon DEF QueueInv
<1>1. /\ pc'[t] = "release" /\ \A u \in Threads : u # t => pc'[u] = pc[u]
      /\ tstate'[t] = "SLEEPING" /\ \A u \in Threads : u # t => tstate'[u] = tstate[u]
      /\ saved'[t] = count[n] /\ \A u \in Threads : u # t => saved'[u] = saved[u]
  BY Fields DEF Enqueue, Goto
<1>2. ~Queued(t)
  BY DEF Current
<1>3. /\ LinkedOnce'
      /\ \A u \in Threads : Queued(u)' <=> Queued(u) \/ u = t
      /\ \A u \in Threads, q \in Priorities : On(u, Run(q))' <=> On(u, Run(q))
      /\ \A u \in Threads, m \in Monitors :
           On(u, Cond(m))' <=> On(u, Cond(m)) \/ (u = t /\ m = n)
      /\ \A m \in Monitors : /\ list'[Lock(m)] = list[Lock(m)]
                             /\ m # n => list'[Cond(m)] = list[Cond(m)]
  BY <1>2, SleepStep, Zenon DEF Enqueue
<1>4. \A q \in Priorities : ~On(t, Run(q))
  BY <1>2, HeadsAre DEF Queued
<1>5. StateMatchesQueue'
  <2>1. ASSUME NEW u \in Threads, NEW q \in Priorities, On(u, Run(q))'
        PROVE  tstate'[u] = "RUNNABLE"
    <3>1. On(u, Run(q)) /\ u # t
      BY <1>3, <1>4, <2>1
    <3> QED  BY <1>1, <3>1 DEF StateMatchesQueue
  <2>2. ASSUME NEW u \in Threads, NEW m \in Monitors, On(u, Cond(m))'
        PROVE  tstate'[u] = "SLEEPING"
    <3>1. CASE u = t
      BY <1>1, <3>1
    <3>2. CASE u # t
      BY <1>1, <1>3, <2>2, <3>2 DEF StateMatchesQueue
    <3> QED  BY <3>1, <3>2
  <2>3. \A m \in Monitors : list'[Lock(m)] = <<>>
    BY <1>3 DEF StateMatchesQueue
  <2>4. pc'[cur'] = "release"
    BY <1>1
  <2> QED  BY <2>1, <2>2, <2>3, <2>4 DEF StateMatchesQueue
<1>6. NoThreadLost'
  BY <1>1, <1>3 DEF NoThreadLost
<1>7. Frames'
  <2>1. ret'[t] \in {"check", "run"} /\ CallMonitor(t)'
    BY DEF Frames, Frame, CallMonitor
  <2>2. Frame(t)'
    BY <1>1, <2>1 DEF Frame
  <2>3. ASSUME NEW u \in Threads, u # t PROVE Frame(u)'
    BY <1>1, <2>3, FrameKept DEF Frames
  <2> QED  BY <2>2, <2>3 DEF Frames
<1>8. Unstarted'
  BY <1>1, <1>3 DEF Unstarted
<1>9. Exited'
  <2>1. ExitPlace(t)'
    BY <1>1 DEF ExitPlace, Exiting
  <2>2. ASSUME NEW u \in Threads, u # t PROVE ExitPlace(u)'
    <3>1. ExitPlace(u)
      BY DEF Exited
    <3>2. pc[u] \in {"finish", "dead"} => u # n
      BY <3>1, Constants DEF ExitPlace, Exiting
    <3>3. pc[u] \in {"finish", "dead"} => list'[Cond(u)] = <<>>
      BY <1>3, <3>1, <3>2, Constants DEF ExitPlace
    <3>4. pc[u] = "dead" => ~Queued(u)' /\ ~(cpu' = "run" /\ u = cur')
      BY <1>3, <2>2, <3>1 DEF ExitPlace
    <3> QED  BY <1>1, <2>2, <3>1, <3>3, <3>4, ExitKept
  <2> QED  BY <2>1, <2>2 DEF Exited
<1>10. Sleepers'
  <2> SUFFICES ASSUME NEW u \in Threads, NEW m \in Monitors, On(u, Cond(m))'
               PROVE  ((pc[u] = "release" /\ mon[u] = m) \/ Waiting(u, m))'
    BY DEF Sleepers
  <2>1. CASE u = t
    BY <1>1, <1>2, <1>3, <2>1, HeadsAre DEF Queued
  <2>2. CASE u # t
    <3>1. (pc[u] = "release" /\ mon[u] = m) \/ Waiting(u, m)
      BY <1>3, <2>2 DEF Sleepers
    <3>2. mon'[u] = mon[u] /\ pc'[u] = pc[u] /\ lret'[u] = lret[u]
      BY <1>1, <2>2
    <3> QED  BY <3>1, <3>2 DEF Waiting
  <2> QED  BY <2>1, <2>2
<1>11. Current'
  BY <1>1, <1>3, Constants DEF Current
<1>12. ThreadMonitors'
  <2>1. n \in Threads => pc[t] = "check" /\ mon[t] = n
    BY Constants
  <2>2. ASSUME n \in Threads PROVE owner[n] = t /\ count[n] = 1
    <3>1. owner[n] = t
      BY <2>1, <2>2 DEF ThreadMonitors, Holder, InsideCall
    <3>2. owner[n] # NULL
      BY <3>1, Constants
    <3> QED  BY <2>2, <3>1, <3>2 DEF ThreadMonitors, FreeOrCurrent
  <2>3. ASSUME NEW u \in Threads PROVE FreeOrCurrent(u)'
    <3>1. CASE u = n
      BY <1>1, <2>1, <2>2, <3>1 DEF FreeOrCurrent, InsideCall
    <3>2. CASE u # n
      BY <3>2, OtherMonitors DEF FreeOrCurrent, InsideCall
    <3> QED  BY <3>1, <3>2
  <2>4. Holder(t)'
    BY <1>1, <2>1, <2>2 DEF Holder, Waiting, InsideCall
  <2>5. ASSUME NEW u \in Threads, u # t PROVE Holder(u)'
    BY <1>1, <2>5, HolderKept DEF ThreadMonitors
  <2> QED  BY <2>3, <2>4, <2>5 DEF ThreadMonitors
<1>13. RunQueueNeverEmpty'
  BY DEF RunQueueNeverEmpty
<1> QED  BY <1>3, <1>5, <1>6, <1>7, <1>8, <1>9, <1>10, <1>11, <1>12, <1>13

(* monitor_wait gives the monitor up and leaves the CPU. *)
LEMMA ReleaseStep ==
  ASSUME QueueInv, TypeOK', NEW t \in Threads, monitor_wait_release(t)
  PROVE  QueueInv'
<1> USE Zenon DEF QueueInv
<1>1. /\ cpu = "run" /\ cur = t /\ pc[t] = "release" /\ t # Idle /\ cpu' = "schedule"
      /\ UNCHANGED <<cur, next, tstate, list, mon, ret, saved, panic>>
  BY DEF monitor_wait_release, At, Current, Deschedule
<1>2. /\ pc'[t] = "acquire" /\ \A u \in Threads : u # t => pc'[u] = pc[u]
      /\ lret'[t] = "restore" /\ \A u \in Threads : u # t => lret'[u] = lret[u]
  BY Fields DEF monitor_wait_release, Deschedule, Goto
<1>3. /\ LinkedOnce'
      /\ \A u \in Threads : Queued(u)' <=> Queued(u)
      /\ \A u \in Threads, h \in Heads : On(u, h)' <=> On(u, h)
  BY <1>1, ListKept
<1>4. Queued(t)
  BY <1>1 DEF Current
<1>5. StateMatchesQueue'
  BY <1>1, <1>3, HeadsAre DEF StateMatchesQueue
<1>6. NoThreadLost'
  BY <1>1, <1>2, <1>3 DEF NoThreadLost
<1>7. Frames'
  <2>1. ret[t] \in {"check", "run"} /\ CallMonitor(t)
    BY <1>1 DEF Frames, Frame
  <2>2. Frame(t)'
    BY <1>1, <1>2, <2>1 DEF Frame, CallMonitor
  <2>3. ASSUME NEW u \in Threads, u # t PROVE Frame(u)'
    BY <1>1, <1>2, <2>3, FrameKept DEF Frames
  <2> QED  BY <2>2, <2>3 DEF Frames
<1>8. Unstarted'
  BY <1>1, <1>2, <1>3 DEF Unstarted
<1>9. Exited'
  <2>1. ExitPlace(t)'
    BY <1>1, <1>2 DEF Exited, ExitPlace, Exiting
  <2>2. ASSUME NEW u \in Threads, u # t PROVE ExitPlace(u)'
    BY <1>1, <1>2, <1>3, <2>2, ExitKept DEF Exited, ExitPlace
  <2> QED  BY <2>1, <2>2 DEF Exited
<1>10. Sleepers'
  BY <1>1, <1>2, <1>3, HeadsAre DEF Sleepers, Waiting
<1>11. Current'
  BY <1>1, <1>2, <1>3, <1>4, Constants DEF Current
<1>12. ThreadMonitors'
  <2>1. \A u \in Threads : owner'[u] = NULL /\ count'[u] = 0
    BY <1>1, UnlockThreadMonitor DEF monitor_wait_release, InsideCall
  <2>2. ASSUME NEW u \in Threads PROVE FreeOrCurrent(u)'
    BY <2>1 DEF FreeOrCurrent
  <2>3. Holder(t)'
    BY <1>1, <1>2 DEF ThreadMonitors, Holder, Waiting, InsideCall
  <2>4. ASSUME NEW u \in Threads, u # t PROVE Holder(u)'
    BY <1>1, <1>2, <2>4, OtherFrames, HolderKept DEF ThreadMonitors
  <2> QED  BY <2>2, <2>3, <2>4 DEF ThreadMonitors
<1>13. RunQueueNeverEmpty'
  BY <1>1 DEF RunQueueNeverEmpty
<1> QED  BY <1>3, <1>5, <1>6, <1>7, <1>8, <1>9, <1>10, <1>11, <1>12, <1>13

(* Steps that change no more than a priority, or panic on a null pointer. *)
LEMMA IdleStep ==
  ASSUME QueueInv, TypeOK', panic' = "empty" => panic = "empty",
         UNCHANGED <<cur, cpu, next, tstate, list>>,
         UNCHANGED <<owner, count, pc, mon, lret, ret, saved>>
  PROVE  QueueInv'
<1> USE Zenon DEF QueueInv
<1>1. /\ LinkedOnce'
      /\ \A u \in Threads : Queued(u)' <=> Queued(u)
      /\ \A u \in Threads, h \in Heads : On(u, h)' <=> On(u, h)
  BY ListKept
<1>2. StateMatchesQueue'
  BY <1>1, HeadsAre DEF StateMatchesQueue
<1>3. NoThreadLost' /\ Unstarted'
  BY <1>1 DEF NoThreadLost, Unstarted
<1>4. Frames'
  BY FrameKept DEF Frames
<1>5. Exited'
  BY <1>1, ExitKept DEF Exited, ExitPlace
<1>6. Sleepers'
  BY <1>1, HeadsAre DEF Sleepers, Waiting
<1>7. Current'
  BY <1>1 DEF Current, TypeOK
<1>8. ThreadMonitors'
  BY HolderKept DEF ThreadMonitors, FreeOrCurrent
<1>9. RunQueueNeverEmpty'
  BY DEF RunQueueNeverEmpty
<1> QED  BY <1>1, <1>2, <1>3, <1>4, <1>5, <1>6, <1>7, <1>8, <1>9

(* monitor_signal wakes a thread. *)
LEMMA WakeStep ==
  ASSUME QueueInv, TypeOK', NEW t \in Threads, NEW n \in Monitors, cpu = "run", cur = t,
         pc[t] \in {"run", "broadcast"}, list[Cond(n)] # <<>>, monitor_signal(n),
         UNCHANGED <<cur, cpu, next, owner, count, pc, mon, lret, ret, saved>>
  PROVE  QueueInv'
<1> USE Zenon DEF QueueInv
<1>1. PICK r \in Threads :
         /\ LinkedOnce'
         /\ On(r, Cond(n))
         /\ \A u \in Threads : Queued(u)' <=> Queued(u)
         /\ \A u \in Threads, q \in Priorities :
              On(u, Run(q))' => On(u, Run(q)) \/ u = r
         /\ \A u \in Threads, m \in Monitors :
              On(u, Cond(m))' <=> On(u, Cond(m)) /\ u # r
         /\ \A m \in Monitors : /\ list'[Lock(m)] = list[Lock(m)]
                                /\ m # n => list'[Cond(m)] = list[Cond(m)]
         /\ tstate' = [tstate EXCEPT ![r] = "RUNNABLE"]
  BY SignalStep
<1>2. On(r, Cond(n)) /\ Cond(n) \in Heads
  BY <1>1, HeadsAre
<1>3. r # t
  BY <1>2 DEF Queued, Current
<1>4. pc[r] = "acquire" /\ lret[r] = "restore" /\ tstate[r] = "SLEEPING"
  <2>1. tstate[r] = "SLEEPING"
    BY <1>2 DEF StateMatchesQueue
  <2>2. pc[r] # "release"
    BY <1>3 DEF Frames, Frame
  <2> QED  BY <1>2, <2>1, <2>2 DEF Sleepers, Waiting
<1>5. tstate'[r] = "RUNNABLE" /\ \A u \in Threads : u # r => tstate'[u] = tstate[u]
  BY <1>1, Fields
<1>6. panic' = panic
  BY DEF monitor_signal
<1>7. StateMatchesQueue'
  BY <1>1, <1>3, <1>5 DEF StateMatchesQueue
<1>8. NoThreadLost'
  BY <1>1, <1>4, <1>5 DEF NoThreadLost
<1>9. Frames'
  BY FrameKept DEF Frames
<1>10. Unstarted'
  BY <1>1, <1>5 DEF Unstarted
<1>11. Exited'
  <2> SUFFICES ASSUME NEW u \in Threads PROVE ExitPlace(u)'
    BY DEF Exited
  <2>1. ExitPlace(u) /\ u \in Monitors
    BY Constants DEF Exited
  <2>2. pc[u] \in {"finish", "dead"} => list'[Cond(u)] = <<>>
    BY <1>1, <2>1 DEF ExitPlace
  <2>3. pc[u] = "dead" => ~Queued(u)' /\ ~(cpu' = "run" /\ u = cur')
    BY <1>1, <2>1 DEF ExitPlace
  <2>4. tstate'[u] = "TERMINATED" <=> tstate[u] = "TERMINATED"
    BY <1>4, <1>5
  <2> QED  BY <2>1, <2>2, <2>3, <2>4, ExitKept
<1>12. Sleepers'
  BY <1>1 DEF Sleepers, Waiting
<1>13. Current'
  BY <1>1, <1>5, Constants DEF Current
<1>14. ThreadMonitors'
  BY HolderKept DEF ThreadMonitors, FreeOrCurrent
<1>15. RunQueueNeverEmpty'
  BY <1>6 DEF RunQueueNeverEmpty
<1> QED  BY <1>1, <1>7, <1>8, <1>9, <1>10, <1>11, <1>12, <1>13, <1>14, <1>15
-----------------------------------------------------------------------------
LEMMA ExitStep ==
  ASSUME QueueInv, TypeOK', NEW t \in Threads, thread_exit(t)
  PROVE  QueueInv'
<1> USE Zenon DEF QueueInv
<1>1. /\ cpu = "run" /\ cur = t /\ pc[t] = "run" /\ t # Idle
      /\ UNCHANGED <<cur, cpu, next, list, owner, count, saved, panic>>
  BY DEF thread_exit, Calling, sched, mutex
<1>2. /\ pc'[t] = "acquire" /\ lret'[t] = "broadcast" /\ ret'[t] = "finish" /\ mon'[t] = t
      /\ \A u \in Threads : u # t => UNCHANGED <<pc[u], lret[u], ret[u], mon[u]>>
  BY Fields DEF thread_exit, Goto
<1>3. tstate'[t] = "TERMINATED" /\ \A u \in Threads : u # t => tstate'[u] = tstate[u]
  BY Fields DEF thread_exit
<1>4. /\ LinkedOnce'
      /\ \A u \in Threads : Queued(u)' <=> Queued(u)
      /\ \A u \in Threads, h \in Heads : On(u, h)' <=> On(u, h)
  BY <1>1, ListKept
<1>5. ~Queued(t) /\ \A h \in Heads : ~On(t, h)
  BY <1>1 DEF Queued, Current
<1>6. StateMatchesQueue'
  BY <1>1, <1>3, <1>4, <1>5, HeadsAre DEF StateMatchesQueue
<1>7. NoThreadLost' /\ Unstarted'
  BY <1>1, <1>2, <1>3, <1>4 DEF NoThreadLost, Unstarted
<1>8. Frames'
  <2>1. Frame(t)'
    BY <1>1, <1>2 DEF Frame, CallMonitor
  <2>2. ASSUME NEW u \in Threads, u # t PROVE Frame(u)'
    BY <1>1, <1>2, <2>2, FrameKept DEF Frames
  <2> QED  BY <2>1, <2>2 DEF Frames
<1>9. Exited'
  <2>1. ExitPlace(t)'
    BY <1>2, <1>3 DEF ExitPlace, Exiting
  <2>2. ASSUME NEW u \in Threads, u # t PROVE ExitPlace(u)'
    BY <1>1, <1>2, <1>3, <1>4, <2>2, ExitKept DEF Exited, ExitPlace
  <2> QED  BY <2>1, <2>2 DEF Exited
<1>10. Sleepers'
  BY <1>1, <1>2, <1>4, <1>5, HeadsAre DEF Sleepers, Waiting
<1>11. Current'
  BY <1>1, <1>2, <1>3, <1>4, <1>5, Constants DEF Current
<1>12. ThreadMonitors'
  <2>1. ASSUME NEW u \in Threads PROVE FreeOrCurrent(u)'
    BY <1>1, OtherMonitors DEF FreeOrCurrent, InsideCall
  <2>2. Holder(t)'
    BY <1>2 DEF Holder, Waiting, InsideCall
  <2>3. ASSUME NEW u \in Threads, u # t PROVE Holder(u)'
    BY <1>1, <1>2, <2>3, HolderKept DEF ThreadMonitors
  <2> QED  BY <2>1, <2>2, <2>3 DEF ThreadMonitors
<1>13. RunQueueNeverEmpty'
  BY <1>1 DEF RunQueueNeverEmpty
<1> QED  BY <1>4, <1>6, <1>7, <1>8, <1>9, <1>10, <1>11, <1>12, <1>13

LEMMA ExitFinishStep ==
  ASSUME QueueInv, TypeOK', NEW t \in Threads, thread_exit_finish(t)
  PROVE  QueueInv'
<1> USE Zenon DEF QueueInv
<1>1. /\ cpu = "run" /\ cur = t /\ pc[t] = "finish" /\ t # Idle /\ cpu' = "schedule"
      /\ UNCHANGED <<cur, next, tstate, list, mon, lret, ret, saved, panic>>
  BY DEF thread_exit_finish, At, Current, Deschedule
<1>2. pc'[t] = "dead" /\ \A u \in Threads : u # t => pc'[u] = pc[u]
  BY Fields DEF thread_exit_finish, Deschedule, Goto
<1>3. /\ LinkedOnce'
      /\ \A u \in Threads : Queued(u)' <=> Queued(u)
      /\ \A u \in Threads, h \in Heads : On(u, h)' <=> On(u, h)
  BY <1>1, ListKept
<1>4. ~Queued(t) /\ \A h \in Heads : ~On(t, h)
  BY <1>1 DEF Queued, Current
<1>5. StateMatchesQueue'
  BY <1>1, <1>3, HeadsAre DEF StateMatchesQueue
<1>6. NoThreadLost' /\ Unstarted'
  BY <1>1, <1>2, <1>3, <1>4 DEF NoThreadLost, Unstarted
<1>7. Frames'
  <2>1. Frame(t)'
    BY <1>2 DEF Frame
  <2>2. ASSUME NEW u \in Threads, u # t PROVE Frame(u)'
    BY <1>1, <1>2, <2>2, FrameKept DEF Frames
  <2> QED  BY <2>1, <2>2 DEF Frames
<1>8. Exited'
  <2>1. ExitPlace(t)'
    BY <1>1, <1>2, <1>3, <1>4 DEF Exited, ExitPlace, Exiting
  <2>2. ASSUME NEW u \in Threads, u # t PROVE ExitPlace(u)'
    BY <1>1, <1>2, <1>3, <2>2, ExitKept DEF Exited, ExitPlace
  <2> QED  BY <2>1, <2>2 DEF Exited
<1>9. Sleepers'
  BY <1>1, <1>2, <1>3, <1>4, HeadsAre DEF Sleepers, Waiting
<1>10. Current'
  BY <1>1, <1>2, <1>3, <1>4, Constants DEF Current
<1>11. ThreadMonitors'
  <2>1. mon[t] = t
    BY <1>1 DEF Frames, Frame, CallMonitor
  <2>2. \A u \in Threads : owner'[u] = NULL /\ count'[u] = 0
    BY <1>1, <2>1, UnlockThreadMonitor DEF thread_exit_finish, InsideCall
  <2>3. ASSUME NEW u \in Threads PROVE FreeOrCurrent(u)'
    BY <2>2 DEF FreeOrCurrent
  <2>4. Holder(t)'
    BY <1>2 DEF Holder, Waiting, InsideCall
  <2>5. ASSUME NEW u \in Threads, u # t PROVE Holder(u)'
    BY <1>1, <1>2, <2>5, OtherFrames, HolderKept DEF ThreadMonitors
  <2> QED  BY <2>3, <2>4, <2>5 DEF ThreadMonitors
<1>12. RunQueueNeverEmpty'
  BY <1>1 DEF RunQueueNeverEmpty
<1> QED  BY <1>3, <1>5, <1>6, <1>7, <1>8, <1>9, <1>10, <1>11, <1>12
-----------------------------------------------------------------------------
LEMMA ForkStep ==
  ASSUME QueueInv, TypeOK', NEW t \in Threads, NEW c \in Threads, thread_fork(t, c)
  PROVE  QueueInv'
<1> USE Zenon DEF QueueInv
<1>1. /\ cpu = "run" /\ cur = t /\ pc[t] = "run" /\ tstate[c] = "NEW"
      /\ UNCHANGED <<cur, cpu, next, panic, owner, count, pc, mon, lret, ret, saved>>
  BY DEF thread_fork, Calling, sched, mutex, frame
<1>2. /\ tstate'[c] = "RUNNABLE"
      /\ \A u \in Threads : u # c => tstate'[u] = tstate[u]
  BY Fields DEF thread_fork
<1>3. PICK p \in Priorities : list' = [list EXCEPT ![Run(p)] = AppendTo(@, c)]
  BY Zenon DEF thread_fork, TypeOK
<1>4. ~Queued(c) /\ pc[c] = "run" /\ c # t
  BY <1>1 DEF Unstarted
<1>5. /\ LinkedOnce'
      /\ \A u \in Threads : Queued(u)' <=> Queued(u) \/ u = c
      /\ \A u \in Threads, q \in Priorities :
           On(u, Run(q))' <=> On(u, Run(q)) \/ (u = c /\ q = p)
      /\ \A u \in Threads, m \in Monitors : On(u, Cond(m))' <=> On(u, Cond(m))
      /\ \A m \in Monitors : /\ list'[Lock(m)] = list[Lock(m)]
                             /\ list'[Cond(m)] = list[Cond(m)]
  BY <1>3, <1>4, ResumeStep, Zenon
<1>6. \A m \in Monitors : ~On(c, Cond(m))
  BY <1>4, HeadsAre DEF Queued
<1>7. StateMatchesQueue'
  BY <1>1, <1>2, <1>4, <1>5, <1>6 DEF StateMatchesQueue
<1>8. NoThreadLost' /\ Unstarted'
  BY <1>1, <1>2, <1>5 DEF NoThreadLost, Unstarted
<1>9. Frames'
  BY <1>1, FrameKept DEF Frames
<1>10. Exited'
  <2>1. ExitPlace(c)'
    BY <1>1, <1>2, <1>4 DEF ExitPlace, Exiting
  <2>2. ASSUME NEW u \in Threads, u # c PROVE ExitPlace(u)'
    BY <1>1, <1>2, <1>5, <2>2, Constants, ExitKept DEF Exited, ExitPlace
  <2> QED  BY <2>1, <2>2 DEF Exited
<1>11. Sleepers'
  BY <1>1, <1>5 DEF Sleepers, Waiting
<1>12. Current'
  BY <1>1, <1>2, <1>4, <1>5, Constants DEF Current
<1>13. ThreadMonitors'
  BY <1>1, HolderKept DEF ThreadMonitors, FreeOrCurrent
<1>14. RunQueueNeverEmpty'
  BY <1>1 DEF RunQueueNeverEmpty
<1> QED  BY <1>5, <1>7, <1>8, <1>9, <1>10, <1>11, <1>12, <1>13, <1>14

(* Process 1 is on a run queue whenever thread_schedule looks. *)
LEMMA IdleIsRunnable ==
  ASSUME QueueInv, cpu = "schedule"
  PROVE  \E p \in Priorities : list[Run(p)] # <<>>
<1> USE Zenon DEF QueueInv
<1>1. Queued(Idle)
  BY ConstantsAssumption DEF NoThreadLost, Current
<1>2. PICK h \in Heads : On(Idle, h)
  BY <1>1 DEF Queued
<1>3. \A m \in Monitors : h # Cond(m)
  BY <1>2, ConstantsAssumption DEF Sleepers, Current, Waiting
<1>4. \A m \in Monitors : h # Lock(m)
  BY <1>2, EmptyRange DEF On, StateMatchesQueue
<1>5. PICK p \in Priorities : h = Run(p)
  BY <1>3, <1>4, HeadsAre
<1> QED  BY <1>2, <1>5, SMT DEF On, Range

LEMMA ScheduleStep ==
  ASSUME QueueInv, TypeOK', thread_schedule
  PROVE  QueueInv'
<1> USE Zenon DEF QueueInv
<1>1. /\ cpu = "schedule"
      /\ UNCHANGED <<cur, tstate, owner, count, pc, mon, lret, ret, saved>>
  BY DEF thread_schedule, mutex, frame
<1>2. PICK p \in Priorities : PickFrom(p)
  BY <1>1, IdleIsRunnable DEF thread_schedule
<1>3. /\ LinkedOnce'
      /\ next' \in Threads /\ On(next', Run(p))
      /\ \A u \in Threads : Queued(u)' <=> Queued(u) /\ u # next'
      /\ \A u \in Threads, q \in Priorities :
           On(u, Run(q))' <=> On(u, Run(q)) /\ u # next'
      /\ \A u \in Threads, m \in Monitors :
           On(u, Cond(m))' <=> On(u, Cond(m)) /\ u # next'
      /\ \A m \in Monitors : /\ list'[Lock(m)] = list[Lock(m)]
                             /\ list'[Cond(m)] = list[Cond(m)]
  BY <1>2, PickStep
<1>4. cpu' = "switch" /\ panic' = panic
  BY <1>2 DEF PickFrom
<1>5. tstate[next'] = "RUNNABLE" /\ Queued(next')
  BY <1>3, HeadsAre DEF StateMatchesQueue, Queued
<1>6. StateMatchesQueue'
  BY <1>1, <1>3, <1>4 DEF StateMatchesQueue
<1>7. NoThreadLost' /\ Unstarted'
  BY <1>1, <1>3, <1>4, <1>5 DEF NoThreadLost, Unstarted
<1>8. Frames'
  BY <1>1, <1>4, FrameKept DEF Frames
<1>9. Exited'
  <2> SUFFICES ASSUME NEW u \in Threads PROVE ExitPlace(u)'
    BY DEF Exited
  <2> QED  BY <1>1, <1>3, <1>4, Constants, ExitKept DEF Exited, ExitPlace
<1>10. Sleepers'
  BY <1>1, <1>3 DEF Sleepers, Waiting
<1>11. Current'
  BY <1>1, <1>3, <1>4, <1>5, ConstantsAssumption, Zenon DEF Current, TypeOK
<1>12. ThreadMonitors'
  <2> SUFFICES ASSUME NEW u \in Threads PROVE FreeOrCurrent(u)' /\ Holder(u)'
    BY DEF ThreadMonitors
  <2>1. FreeOrCurrent(u)'
    BY <1>1, OtherMonitors DEF FreeOrCurrent
  <2>2. Holder(u)'
    BY <1>1, HolderKept DEF ThreadMonitors
  <2> QED  BY <2>1, <2>2
<1>13. RunQueueNeverEmpty'
  BY <1>4 DEF RunQueueNeverEmpty
<1> QED  BY <1>3, <1>6, <1>7, <1>8, <1>9, <1>10, <1>11, <1>12, <1>13

LEMMA SwitchStep ==
  ASSUME QueueInv, TypeOK', arch_thread_switch
  PROVE  QueueInv'
<1> USE Zenon DEF QueueInv
<1>1. /\ cpu = "switch" /\ cur' = next /\ cpu' = "run" /\ next' = NULL
      /\ UNCHANGED <<list, owner, count, pc, mon, lret, ret, saved, panic>>
  BY DEF arch_thread_switch, mutex, frame
<1>2. /\ next \in Threads /\ cur \in Threads /\ tstate[next] = "RUNNABLE" /\ ~Queued(next)
      /\ cur # next => (Queued(cur) <=> pc[cur] # "dead")
  BY <1>1 DEF Current, TypeOK
<1>3. /\ tstate'[next] = "RUNNING"
      /\ cur # next => \/ tstate'[cur] = tstate[cur]
                       \/ tstate[cur] = "RUNNING" /\ tstate'[cur] = "RUNNABLE"
      /\ \A u \in Threads \ {cur, next} : tstate'[u] = tstate[u]
  BY <1>1, <1>2, Fields DEF arch_thread_switch
<1>4. /\ LinkedOnce'
      /\ \A u \in Threads : Queued(u)' <=> Queued(u)
      /\ \A u \in Threads, h \in Heads : On(u, h)' <=> On(u, h)
  BY <1>1, ListKept
<1>5. \A h \in Heads : ~On(next, h)
  BY <1>2 DEF Queued
<1>6. \A u \in Threads : pc[u] \in {"run", "acquire", "retry", "dead"}
  BY <1>1 DEF Frame, Frames
<1>7. pc[next] # "dead"
  BY <1>2 DEF Exited, ExitPlace, Exiting
<1>9. StateMatchesQueue'
  <2>1. ASSUME NEW u \in Threads, NEW p \in Priorities, On(u, Run(p))'
        PROVE  tstate'[u] = "RUNNABLE"
    <3>1. On(u, Run(p)) /\ u # next
      BY <1>4, <1>5, <2>1, HeadsAre
    <3>2. tstate[u] = "RUNNABLE"
      BY <3>1 DEF StateMatchesQueue
    <3> QED  BY <1>3, <3>1, <3>2
  <2>2. ASSUME NEW u \in Threads, NEW m \in Monitors, On(u, Cond(m))'
        PROVE  tstate'[u] = "SLEEPING"
    <3>1. On(u, Cond(m)) /\ u # next
      BY <1>4, <1>5, <2>2, HeadsAre
    <3>2. tstate[u] = "SLEEPING"
      BY <3>1 DEF StateMatchesQueue
    <3> QED  BY <1>3, <3>1, <3>2
  <2>3. \A m \in Monitors : list'[Lock(m)] = <<>>
    BY <1>1 DEF StateMatchesQueue
  <2> QED  BY <1>1, <1>3, <2>1, <2>2, <2>3 DEF StateMatchesQueue
<1>10. NoThreadLost'
  BY <1>1, <1>2, <1>3, <1>4 DEF NoThreadLost
<1>11. Unstarted'
  BY <1>1, <1>2, <1>3, <1>4 DEF Unstarted
<1>12. Frames'
  BY <1>1, FrameKept DEF Frames
<1>13. Exited'
  <2> SUFFICES ASSUME NEW u \in Threads PROVE ExitPlace(u)'
    BY DEF Exited
  <2>1. tstate'[u] = "TERMINATED" <=> tstate[u] = "TERMINATED"
    BY <1>2, <1>3
  <2> QED  BY <1>1, <1>4, <1>7, <2>1, ExitKept DEF Exited, ExitPlace
<1>14. Sleepers'
  BY <1>1, <1>4, HeadsAre DEF Sleepers, Waiting
<1>15. Current'
  <2>1. Queued(cur)' <=> Queued(next)
    BY <1>1, <1>2, <1>4
  <2>2. tstate'[Idle] # "NEW"
    BY <1>2, <1>3, ConstantsAssumption DEF Current
  <2> QED  BY <1>1, <1>2, <1>6, <2>1, <2>2 DEF Current
<1>16. ThreadMonitors'
  <2> SUFFICES ASSUME NEW u \in Threads PROVE FreeOrCurrent(u)' /\ Holder(u)'
    BY DEF ThreadMonitors
  <2>1. FreeOrCurrent(u)'
    BY <1>1, OtherMonitors DEF FreeOrCurrent
  <2>2. Holder(u)'
    BY <1>1, HolderKept DEF ThreadMonitors
  <2> QED  BY <2>1, <2>2
<1>17. RunQueueNeverEmpty'
  BY <1>1 DEF RunQueueNeverEmpty
<1> QED  BY <1>4, <1>9, <1>10, <1>11, <1>12, <1>13, <1>14, <1>15, <1>16, <1>17

LEMMA QueueInit == Init => QueueInv
<1> SUFFICES ASSUME Init PROVE QueueInv
  OBVIOUS
<1> USE ConstantsAssumption
<1>1. TypeOK
  BY TypeInit
<1>2. \A p \in Priorities : Run(p) = Run(THREAD_NORMAL) <=> p = THREAD_NORMAL
  BY HeadsAre DEF Priorities, THREAD_NORMAL, THREAD_INTERRUPT, THREAD_IDLE
<1>3. /\ list[Run(THREAD_NORMAL)] = <<Idle>> /\ Run(THREAD_NORMAL) \in Heads
      /\ \A h \in Heads : h # Run(THREAD_NORMAL) => list[h] = <<>>
  <2>1. THREAD_NORMAL \in Priorities
    BY DEF Priorities, THREAD_NORMAL, THREAD_INTERRUPT, THREAD_IDLE
  <2> QED  BY <2>1, HeadsAre DEF Init
<1>4. Range(<<Idle>>) = {Idle} /\ Range(<<>>) = {}
  BY DEF Range
<1>5. /\ \A t \in Threads, h \in Heads : On(t, h) <=> t = Idle /\ h = Run(THREAD_NORMAL)
      /\ \A t \in Threads : Queued(t) <=> t = Idle
  BY <1>3, <1>4 DEF On, Queued
<1>6. \A m \in Monitors : /\ Lock(m) \in Heads /\ Lock(m) # Run(THREAD_NORMAL)
                          /\ Cond(m) \in Heads /\ Cond(m) # Run(THREAD_NORMAL)
  BY HeadsAre DEF Priorities, THREAD_NORMAL, THREAD_INTERRUPT, THREAD_IDLE
<1>7. LinkedOnce
  <2>1. IsInjective(<<Idle>>) /\ IsInjective(<<>>)
    BY ShortLists, Zenon
  <2> QED  BY <1>3, <1>5, <2>1 DEF LinkedOnce
<1>8. StateMatchesQueue
  <2>1. tstate[Idle] = "RUNNABLE" /\ tstate[cur] = "RUNNING"
    BY DEF Init
  <2> QED  BY <1>3, <1>5, <1>6, <2>1, HeadsAre DEF StateMatchesQueue
<1>9. NoThreadLost /\ Unstarted /\ RunQueueNeverEmpty
  BY <1>5 DEF NoThreadLost, Unstarted, RunQueueNeverEmpty, Init
<1>10. Frames
  BY DEF Frames, Frame, Init
<1>11. Exited
  BY DEF Exited, ExitPlace, Exiting, Init
<1>12. Sleepers
  BY Zenon, <1>5, <1>6 DEF Sleepers
<1>13. Current
  BY <1>5 DEF Current, Init
<1>14. ThreadMonitors
  BY DEF ThreadMonitors, FreeOrCurrent, Holder, Waiting, InsideCall, Init, Monitors
<1> QED
  BY <1>1, <1>7, <1>8, <1>9, <1>10, <1>11, <1>12, <1>13, <1>14 DEF QueueInv

LEMMA QueueNext == QueueInv /\ [Next]_vars => QueueInv'
<1> SUFFICES ASSUME QueueInv, [Next]_vars PROVE QueueInv'
  OBVIOUS
<1>0. TypeOK /\ TypeOK' /\ Objs \subseteq Monitors
  BY TypeNext DEF QueueInv, Monitors
<1>1. ASSUME NEW t \in Threads, thread_yield(t) \/ thread_preempt(t) PROVE QueueInv'
  BY <1>0, <1>1, YieldStep
<1>2. ASSUME NEW t \in Threads, thread_set_priority(t) PROVE QueueInv'
  <2>1. /\ UNCHANGED <<cur, cpu, next, tstate, list, panic>>
        /\ UNCHANGED <<owner, count, pc, mon, lret, ret, saved>>
    BY <1>2 DEF thread_set_priority, sched, mutex, frame
  <2> QED  BY <1>0, <2>1, IdleStep
<1>3. ASSUME NEW t \in Threads, NEW u \in Threads, thread_fork(t, u) PROVE QueueInv'
  BY <1>0, <1>3, ForkStep
<1>4. ASSUME NEW t \in Threads, thread_exit(t) PROVE QueueInv'
  BY <1>0, <1>4, ExitStep
<1>5. ASSUME NEW t \in Threads, NEW m \in Objs,
             thread_lock(t, m) \/ thread_unlock(t, m) \/ thread_broadcast(t, m)
      PROVE  QueueInv'
  BY <1>0, <1>5, LockCallStep, UnlockCallStep, BroadcastCallStep
<1>18. ASSUME NEW t \in Threads, NEW u \in Threads, thread_join(t, u) PROVE QueueInv'
  BY <1>0, <1>18, JoinCallStep
<1>6. ASSUME NEW t \in Threads, NEW m \in Objs, thread_wait(t, m) PROVE QueueInv'
  <2>1. /\ Enqueue(t, m) /\ cpu = "run" /\ cur = t /\ t # Idle /\ pc[t] = "run"
        /\ UNCHANGED <<cur, cpu, next, owner, count, lret, panic>>
    BY Zenon, <1>6 DEF thread_wait, Calling, sched, mutex
  <2>2. /\ mon'[t] = m /\ ret'[t] = "run"
        /\ \A u \in Threads : u # t => UNCHANGED <<mon[u], ret[u]>>
    BY Zenon, <1>0, <1>6, Fields DEF thread_wait
  <2>3. m \in Monitors
    BY <1>0
  <2> QED  BY Zenon, <1>0, <2>1, <2>2, <2>3, EnqueueStep
<1>7. ASSUME NEW t \in Threads, NEW m \in Objs, thread_signal(t, m) PROVE QueueInv'
  <2>1. /\ cpu = "run" /\ cur = t /\ pc[t] = "run" /\ monitor_signal(m)
        /\ UNCHANGED <<cur, cpu, next, owner, count, pc, mon, lret, ret, saved>>
    BY Zenon, <1>7 DEF thread_signal, Calling, sched, mutex, frame
  <2>2. m \in Monitors
    BY <1>0
  <2>3. CASE list[Cond(m)] # <<>>
    BY <1>0, <2>1, <2>2, <2>3, WakeStep
  <2>4. CASE list[Cond(m)] = <<>>
    <3>1. panic' = "null" /\ UNCHANGED <<list, tstate>>
      BY <2>1, <2>4 DEF monitor_signal
    <3> QED  BY <1>0, <2>1, <3>1, IdleStep
  <2> QED  BY <2>3, <2>4
<1>8. ASSUME NEW t \in Threads, mutex_lock(t) PROVE QueueInv'
  <2>1. At(t, "acquire") /\ UNCHANGED <<mon, lret, ret, saved, panic>>
    BY Zenon, <1>8 DEF mutex_lock
  <2>2. CASE owner[mon[t]] \in {NULL, t}
    <3>1. Locked(t, mon[t]) /\ owner' = [owner EXCEPT ![mon[t]] = t]
      BY <1>0, <1>8, <2>2, Zenon DEF mutex_lock, TypeOK
    <3> QED  BY <1>0, <2>1, <3>1, LockedStep, Zenon
  <2>3. CASE owner[mon[t]] \notin {NULL, t}
    BY Zenon, <1>0, <1>8, <2>1, <2>3, LockWaitStep DEF mutex_lock
  <2> QED  BY <2>2, <2>3
<1>9. ASSUME NEW t \in Threads, mutex_lock_retry(t) PROVE QueueInv'
  <2>1. At(t, "retry") /\ UNCHANGED <<mon, lret, ret, saved, panic>>
    BY <1>9 DEF mutex_lock_retry
  <2>2. CASE owner[mon[t]] = NULL
    BY <1>0, <1>9, <2>1, <2>2, LockedStep DEF mutex_lock_retry
  <2>3. CASE owner[mon[t]] # NULL
    BY <1>0, <1>9, <2>1, <2>3, LockWaitStep DEF mutex_lock_retry
  <2> QED  BY <2>2, <2>3
<1>10. ASSUME NEW t \in Threads, monitor_wait_release(t) PROVE QueueInv'
  BY <1>0, <1>10, ReleaseStep
<1>11. ASSUME NEW t \in Threads, monitor_wait_restore(t) PROVE QueueInv'
  BY <1>0, <1>11, RestoreStep
<1>12. ASSUME NEW t \in Threads, monitor_broadcast(t) PROVE QueueInv'
  <2>1. CASE list[Cond(mon[t])] # <<>>
    <3>1. /\ cpu = "run" /\ cur = t /\ pc[t] = "broadcast" /\ monitor_signal(mon[t])
          /\ UNCHANGED <<cur, cpu, next, owner, count, pc, mon, lret, ret, saved>>
      BY <1>12, <2>1 DEF monitor_broadcast, At, sched, mutex
    <3>2. mon[t] \in Monitors
      BY <1>0 DEF TypeOK
    <3> QED  BY <1>0, <2>1, <3>1, <3>2, WakeStep
  <2>2. CASE list[Cond(mon[t])] = <<>>
    BY <1>0, <1>12, <2>2, BroadcastDoneStep
  <2> QED  BY <2>1, <2>2
<1>13. ASSUME NEW t \in Threads, thread_exit_finish(t) PROVE QueueInv'
  BY <1>0, <1>13, ExitFinishStep
<1>14. ASSUME NEW t \in Threads, thread_join_check(t) PROVE QueueInv'
  <2>1. CASE tstate[mon[t]] # "TERMINATED"
    <3>1. /\ Enqueue(t, mon[t]) /\ cpu = "run" /\ cur = t /\ pc[t] = "check" /\ t # Idle
          /\ UNCHANGED <<cur, cpu, next, owner, count, lret, panic>>
          /\ UNCHANGED <<mon, ret>>
      BY <1>14, <2>1 DEF thread_join_check, At, sched, mutex, QueueInv, Current
    <3>2. mon[t] \in Monitors
      BY <1>0 DEF TypeOK
    <3> QED  BY Zenon, <1>0, <2>1, <3>1, <3>2, EnqueueStep
  <2>2. CASE tstate[mon[t]] = "TERMINATED"
    BY Zenon, <1>0, <1>14, <2>2, JoinReturnStep
  <2> QED  BY <2>1, <2>2
<1>15. CASE thread_schedule
  BY <1>0, <1>15, ScheduleStep
<1>16. CASE arch_thread_switch
  BY <1>0, <1>16, SwitchStep
<1>17. CASE Halted \/ UNCHANGED vars
  BY <1>0, <1>17, IdleStep DEF Halted, vars
<1> QED
  BY <1>1, <1>2, <1>3, <1>4, <1>5, <1>6, <1>7, <1>8, <1>9, <1>10, <1>11, <1>12,
     <1>13, <1>14, <1>15, <1>16, <1>17, <1>18
  DEF Next, Call, Continue, Dispatch

(* Whatever calls the threads make, QueueInv holds: no thread is linked    *)
(* twice or lost by thread_queue, thread_resume and LIST_DELETE, its state *)
(* says which queue it is on, and the monitors of thread_join and          *)
(* thread_exit are held by the running thread or by nobody.                *)
THEOREM QueueCorrect == Spec => []QueueInv
BY QueueInit, QueueNext, PTL DEF Spec

(* A thread is never linked on two queues, or twice on one. *)
THEOREM LinkedOnceCorrect == Spec => []LinkedOnce
<1> QueueInv => LinkedOnce
  BY DEF QueueInv
<1> QED  BY QueueCorrect, PTL

(* No thread that was forked and has not exited is dropped by the queues.  *)
THEOREM NoThreadLostCorrect == Spec => []NoThreadLost
<1> QueueInv => NoThreadLost
  BY DEF QueueInv
<1> QED  BY QueueCorrect, PTL

(* thread->state says which queue a thread is on. *)
THEOREM StateMatchesQueueCorrect == Spec => []StateMatchesQueue
<1> QueueInv => StateMatchesQueue
  BY DEF QueueInv
<1> QED  BY QueueCorrect, PTL

(* thread_schedule never panics with an empty run queue, because process 1 *)
(* only ever yields.                                                       *)
THEOREM RunQueueNeverEmptyCorrect == Spec => []RunQueueNeverEmpty
<1> QueueInv => RunQueueNeverEmpty
  BY Zenon DEF QueueInv
<1> QED  BY QueueCorrect, PTL

(* A thread that has left thread_exit never runs again and no joiner is    *)
(* left waiting for it.                                                    *)
THEOREM ExitIsFinalCorrect == Spec => []ExitIsFinal
<1> QueueInv => ExitIsFinal
  BY Zenon DEF QueueInv, ExitIsFinal, Exited, ExitPlace, Exiting, Current
<1> QED  BY QueueCorrect, PTL

-----------------------------------------------------------------------------
(* Resuming t joins the back of one run queue and leaves the others, and   *)
(* so do all the steps that resume a thread.                               *)
LEMMA ResumeServes ==
  ASSUME TypeOK, NEW t \in Threads, NEW L \in [Heads -> Seq(Threads)],
         \A p \in Priorities : L[Run(p)] = list[Run(p)],
         NEW p0 \in Priorities, list' = [L EXCEPT ![Run(p0)] = AppendTo(@, t)]
  PROVE  \A p \in Priorities : Served(list[Run(p)], list'[Run(p)], next')
<1> TAKE p \in Priorities
<1>1. list[Run(p)] \in Seq(Threads)
  BY Zenon, HeadsAre DEF TypeOK
<1>2. list'[Run(p)] \in {AppendTo(list[Run(p)], t), list[Run(p)]}
  BY Zenon, HeadsAre
<1> QED  BY <1>1, <1>2, ServedFacts, Zenon

LEMMA KeepServes ==
  ASSUME TypeOK, \A p \in Priorities : list'[Run(p)] = list[Run(p)]
  PROVE  \A p \in Priorities : Served(list[Run(p)], list'[Run(p)], next')
<1> TAKE p \in Priorities
<1>1. list[Run(p)] \in Seq(Threads) /\ Main \in Threads
  BY HeadsAre, ConstantsAssumption DEF TypeOK
<1> QED  BY Zenon, <1>1, ServedFacts

LEMMA SleepServes ==
  ASSUME TypeOK, NEW t \in Threads, NEW m \in Monitors,
         list' = [list EXCEPT ![Cond(m)] = AppendTo(@, t)]
  PROVE  \A p \in Priorities : Served(list[Run(p)], list'[Run(p)], next')
<1>1. list \in [Heads -> Seq(Threads)]
  BY DEF TypeOK
<1>2. \A p \in Priorities : list'[Run(p)] = list[Run(p)]
  BY Zenon, <1>1, HeadsAre
<1> QED  BY <1>2, KeepServes

LEMMA SignalServes ==
  ASSUME TypeOK, NEW m \in Monitors, monitor_signal(m)
  PROVE  \A p \in Priorities : Served(list[Run(p)], list'[Run(p)], next')
<1>1. CASE list[Cond(m)] # <<>>
  <2> DEFINE r == Head(list[Cond(m)])
             L == [list EXCEPT ![Cond(m)] = DeleteHead(@)]
  <2>1. list \in [Heads -> Seq(Threads)] /\ list[Cond(m)] \in Seq(Threads)
    BY HeadsAre DEF TypeOK
  <2>2. r \in Threads /\ DeleteHead(list[Cond(m)]) \in Seq(Threads)
    BY <1>1, <2>1, QueueTypes
  <2>3. /\ L \in [Heads -> Seq(Threads)] /\ priority[r] \in Priorities
        /\ \A p \in Priorities : L[Run(p)] = list[Run(p)]
    BY <2>1, <2>2, HeadsAre, Zenon DEF TypeOK
  <2>4. list' = [L EXCEPT ![Run(priority[r])] = AppendTo(@, r)]
    BY <1>1 DEF monitor_signal, Resume
  <2> HIDE DEF L, r
  <2> QED  BY <2>2, <2>3, <2>4, ResumeServes, Zenon
<1>2. CASE list[Cond(m)] = <<>>
  BY <1>2, KeepServes DEF monitor_signal
<1> QED  BY <1>1, <1>2

LEMMA LockWaitServes ==
  ASSUME TypeOK, NEW t \in Threads, NEW m \in Monitors, thread_lock_wait(t, m)
  PROVE  \A p \in Priorities : Served(list[Run(p)], list'[Run(p)], next')
<1> DEFINE waiting == AppendTo(list[Lock(m)], t)
           first   == Head(waiting)
           L       == [list EXCEPT ![Lock(m)] = DeleteHead(waiting)]
<1>1. list \in [Heads -> Seq(Threads)] /\ list[Lock(m)] \in Seq(Threads)
  BY HeadsAre DEF TypeOK
<1>2. waiting \in Seq(Threads) /\ waiting # <<>>
  BY <1>1, QueueTypes, Zenon
<1>3. first \in Threads /\ DeleteHead(waiting) \in Seq(Threads)
  BY Zenon, <1>2, QueueTypes
<1>4. list' = [L EXCEPT ![Run(priority[first])] = AppendTo(@, first)]
  BY DEF thread_lock_wait, Resume
<1> HIDE DEF first, waiting
<1>5. /\ L \in [Heads -> Seq(Threads)] /\ priority[first] \in Priorities
      /\ \A p \in Priorities : L[Run(p)] = list[Run(p)]
  BY <1>1, <1>3, HeadsAre, Zenon DEF TypeOK
<1> HIDE DEF L
<1> QED  BY <1>3, <1>4, <1>5, ResumeServes, Zenon

LEMMA NextServes ==
  ASSUME TypeOK, [Next]_vars, "preempt" \notin Calls
  PROVE  \A p \in Priorities : Served(list[Run(p)], list'[Run(p)], next')
<1> DEFINE InOrder == \A p \in Priorities : Served(list[Run(p)], list'[Run(p)], next')
<1>0. /\ list \in [Heads -> Seq(Threads)] /\ priority \in [Threads -> Priorities]
      /\ mon \in [Threads -> Monitors] /\ Objs \subseteq Monitors
  BY Constants, Zenon DEF TypeOK
<1>1. ASSUME UNCHANGED list PROVE InOrder
  BY <1>1, KeepServes
<1>2. ASSUME NEW t \in Threads, thread_yield(t) PROVE InOrder
  <2>1. list' = [list EXCEPT ![Run(priority[t])] = AppendTo(@, t)]
    BY <1>2 DEF thread_yield, Resume
  <2> QED  BY <1>0, <2>1, ResumeServes, Zenon
<1>3. ASSUME NEW t \in Threads, NEW u \in Threads, thread_fork(t, u) PROVE InOrder
  <2>1. list' = [list EXCEPT ![Run(priority[t])] = AppendTo(@, u)]
    BY <1>3 DEF thread_fork
  <2> QED  BY <1>0, <2>1, ResumeServes, Zenon
<1>4. ASSUME NEW t \in Threads, NEW m \in Objs, thread_wait(t, m) PROVE InOrder
  BY <1>0, <1>4, SleepServes, Zenon DEF thread_wait, Enqueue
<1>5. ASSUME NEW t \in Threads, thread_join_check(t) PROVE InOrder
  BY Zenon, <1>0, <1>1, <1>5, SleepServes DEF thread_join_check, Enqueue
<1>6. ASSUME NEW t \in Threads, NEW m \in Objs, thread_signal(t, m) PROVE InOrder
  BY <1>0, <1>6, SignalServes DEF thread_signal
<1>7. ASSUME NEW t \in Threads, monitor_broadcast(t) PROVE InOrder
  BY Zenon, <1>0, <1>1, <1>7, SignalServes DEF monitor_broadcast
<1>8. ASSUME NEW t \in Threads, mutex_lock(t) \/ mutex_lock_retry(t) PROVE InOrder
  BY <1>0, <1>1, <1>8, LockWaitServes DEF mutex_lock, mutex_lock_retry, Locked
<1>9. CASE thread_schedule
  <2>1. ASSUME NEW p0 \in Priorities, PickFrom(p0), NEW p \in Priorities
        PROVE  Served(list[Run(p)], list'[Run(p)], next')
    <3>1. list[Run(p)] \in Seq(Threads) /\ Main \in Threads
      BY <1>0, HeadsAre, ConstantsAssumption
    <3>2. CASE p = p0
      BY <1>0, <2>1, <3>1, <3>2, HeadsAre, ServedFacts DEF PickFrom
    <3>3. CASE p # p0
      <4>1. list'[Run(p)] = list[Run(p)]
        BY <1>0, <2>1, <3>3, HeadsAre DEF PickFrom
      <4> QED  BY <3>1, <4>1, ServedFacts
    <3> QED  BY <3>2, <3>3
  <2> QED  BY Zenon, <1>1, <1>9, <2>1 DEF thread_schedule
<1>10. ASSUME NEW t \in Threads, thread_preempt(t) PROVE InOrder
  BY <1>10, Zenon DEF thread_preempt, Calling
<1>11. ASSUME NEW t \in Threads,
              \/ thread_set_priority(t) \/ thread_exit(t) \/ thread_exit_finish(t)
              \/ monitor_wait_release(t) \/ monitor_wait_restore(t)
       PROVE  InOrder
  BY <1>1, <1>11 DEF thread_set_priority, thread_exit, thread_exit_finish,
     monitor_wait_release, monitor_wait_restore
<1>12. ASSUME NEW t \in Threads, NEW u \in Threads, thread_join(t, u) PROVE InOrder
  BY <1>1, <1>12 DEF thread_join
<1>13. ASSUME NEW t \in Threads, NEW m \in Objs,
              thread_lock(t, m) \/ thread_unlock(t, m) \/ thread_broadcast(t, m)
       PROVE  InOrder
  BY <1>1, <1>13 DEF thread_lock, thread_unlock, thread_broadcast
<1>14. CASE arch_thread_switch
  BY <1>1, <1>14 DEF arch_thread_switch
<1>15. CASE Halted \/ UNCHANGED vars
  BY <1>1, <1>15 DEF Halted, vars
<1> QED
  BY Zenon, <1>2, <1>3, <1>4, <1>5, <1>6, <1>7, <1>8, <1>9, <1>10, <1>11, <1>12, <1>13,
     <1>14, <1>15
  DEF Next, Call, Continue, Dispatch

(* "Simple RR scheduler": as long as no thread is preempted, every run     *)
(* queue is served first come, first served.                               *)
THEOREM RoundRobinCorrect ==
  ASSUME "preempt" \notin Calls
  PROVE  Spec => RoundRobin
<1>1. TypeOK /\ [Next]_vars =>
        [\A p \in Priorities : Served(list[Run(p)], list'[Run(p)], next')]_vars
  BY NextServes
<1> QED  BY <1>1, TypeCorrect, PTL DEF Spec, RoundRobin

-----------------------------------------------------------------------------
LEMMA HeldNext == QueueInv /\ HeldInv /\ WellBehaved /\ [Next]_vars => HeldInv'
<1> SUFFICES ASSUME QueueInv, HeldInv, WellBehaved, [Next]_vars PROVE HeldInv'
  OBVIOUS
<1> USE Zenon
<1>0. TypeOK /\ TypeOK'
  BY TypeNext DEF QueueInv
<1>1. ASSUME NEW t \in Threads, thread_yield(t) \/ thread_preempt(t) PROVE HeldInv'
  <2>1. /\ HoldsNone(t) /\ cpu = "run" /\ cur = t /\ cpu' = "schedule"
        /\ UNCHANGED <<cur, owner, count, held, mon, lret, ret, saved>>
    BY <1>1 DEF thread_yield, thread_preempt, Calling, Deschedule, mutex
  <2>2. pc'[t] = "run" /\ \A u \in Threads : u # t => UNCHANGED pc[u]
    BY <1>0, <1>1, Fields DEF thread_yield, thread_preempt, Deschedule, Goto
  <2> QED  BY <2>1, <2>2, HeldYield
<1>2. ASSUME NEW t \in Threads, thread_set_priority(t) PROVE HeldInv'
  BY <1>2, HeldIdle DEF thread_set_priority, sched, mutex, frame
<1>3. ASSUME NEW t \in Threads, NEW u \in Threads, thread_fork(t, u) PROVE HeldInv'
  BY <1>3, HeldIdle DEF thread_fork, sched, mutex, frame
<1>4. ASSUME NEW t \in Threads, NEW m \in Objs, thread_signal(t, m) PROVE HeldInv'
  BY <1>4, HeldIdle DEF thread_signal, sched, mutex, frame
<1>5. ASSUME NEW t \in Threads, thread_exit(t) PROVE HeldInv'
  BY <1>0, <1>5, HeldExitCall
<1>6. ASSUME NEW t \in Threads, NEW u \in Threads, thread_join(t, u) PROVE HeldInv'
  BY <1>0, <1>6, HeldExitCall
<1>7. ASSUME NEW t \in Threads, NEW m \in Objs, thread_lock(t, m) \/ thread_broadcast(t, m)
      PROVE  HeldInv'
  BY <1>0, <1>7, HeldLockCall
<1>8. ASSUME NEW t \in Threads, NEW m \in Objs, thread_unlock(t, m) PROVE HeldInv'
  BY <1>0, <1>8, HeldUnlockCall
<1>9. ASSUME NEW t \in Threads, NEW m \in Objs, thread_wait(t, m) PROVE HeldInv'
  BY <1>0, <1>9, HeldWait
<1>10. ASSUME NEW t \in Threads, mutex_lock(t) PROVE HeldInv'
  BY <1>0, <1>10, HeldLock
<1>11. ASSUME NEW t \in Threads, mutex_lock_retry(t) PROVE HeldInv'
  BY <1>11 DEF mutex_lock_retry, At, HeldInv, HeldBy
<1>12. ASSUME NEW t \in Threads, monitor_wait_release(t) PROVE HeldInv'
  BY <1>0, <1>12, HeldWaitRelease
<1>13. ASSUME NEW t \in Threads, monitor_wait_restore(t) PROVE HeldInv'
  BY <1>0, <1>13, HeldRestore
<1>14. ASSUME NEW t \in Threads, monitor_broadcast(t) PROVE HeldInv'
  BY <1>0, <1>14, HeldBroadcast
<1>15. ASSUME NEW t \in Threads, thread_exit_finish(t) PROVE HeldInv'
  BY <1>0, <1>15, HeldExitFinish
<1>16. ASSUME NEW t \in Threads, thread_join_check(t) PROVE HeldInv'
  BY <1>0, <1>16, HeldJoinCheck
<1>17. CASE Dispatch
  BY <1>0, <1>17, HeldDispatch DEF Dispatch
<1>18. CASE Halted \/ UNCHANGED vars
  BY <1>18, HeldIdle DEF Halted, vars
<1> QED
  BY <1>1, <1>2, <1>3, <1>4, <1>5, <1>6, <1>7, <1>8, <1>9, <1>10, <1>11, <1>12,
     <1>13, <1>14, <1>15, <1>16, <1>17, <1>18
  DEF Next, Call, Continue

(* Threads that give up the CPU only with no monitor held never meet at a  *)
(* mutex: a monitor belongs to the running thread or to nobody, and a      *)
(* waiting thread has noted a count of one.                                *)
THEOREM MutexCorrect == Spec => []MutexInv
<1>1. Init => MutexInv
  BY HeldInit DEF MutexInv
<1>2. QueueInv /\ MutexInv /\ [Next]_vars => MutexInv'
  <2> SUFFICES ASSUME QueueInv, MutexInv, [Next]_vars, WellBehaved' PROVE HeldInv'
    BY DEF MutexInv
  <2>1. WellBehaved
    OBVIOUS
  <2> QED  BY <2>1, HeldNext DEF MutexInv
<1> QED  BY <1>1, <1>2, QueueCorrect, PTL DEF Spec

(* Among threads that keep the rules, the owner field of a mutex names the *)
(* thread inside the monitor and its count the unlocks that thread owes.   *)
THEOREM OwnerIsInsideCorrect == Spec => [](WellBehaved => OwnerIsInside)
<1> TypeOK /\ MutexInv => (WellBehaved => OwnerIsInside)
  BY InsideIsOwner DEF MutexInv
<1> QED  BY TypeCorrect, MutexCorrect, PTL

(* Threads that keep the rules are never two inside one monitor.  Without  *)
(* the rules they can be: mutex_lock leaves the owner field empty when it  *)
(* had to wait.                                                            *)
THEOREM MutualExclusionCorrect == Spec => [](WellBehaved => MutualExclusion)
<1> TypeOK /\ MutexInv => (WellBehaved => MutualExclusion)
  BY InsideIsOwner DEF MutexInv
<1> QED  BY TypeCorrect, MutexCorrect, PTL
=============================================================================

------------------------------ MODULE SyncInv -------------------------------
(***************************************************************************)
(* The inductive invariants behind the safety properties of Sync, proved   *)
(* in SyncProofs, and Sync with the fairness of a cooperative kernel.      *)
(***************************************************************************)
EXTENDS Sync

(* The call a thread is in determines its monitor: that of a join or an    *)
(* exit is a thread's, that of the other calls is not.                     *)
CallMonitor(t) ==
  /\ ret[t] = "check" => mon[t] \in Threads
  /\ ret[t] = "finish" => mon[t] = t
  /\ ret[t] = "run" => mon[t] \in Objs

(* The places a thread can be at, and the call each place belongs to.      *)
(* Threads are descheduled at three of them only, and a thread's monitor   *)
(* is never found taken (retry).                                           *)
Frame(t) ==
  /\ pc[t] \in {"acquire", "retry"} =>
       /\ lret[t] = "run" => mon[t] \in Objs
       /\ lret[t] = "check" => ret[t] = "check"
       /\ lret[t] = "broadcast" => ret[t] = "finish"
       /\ lret[t] = "restore" => ret[t] \in {"check", "run"}
       /\ lret[t] # "run" => CallMonitor(t)
  /\ pc[t] = "retry" => mon[t] \in Objs
  /\ pc[t] \in {"release", "restore"} => ret[t] \in {"check", "run"} /\ CallMonitor(t)
  /\ pc[t] = "check" => ret[t] = "check" /\ CallMonitor(t)
  /\ pc[t] = "broadcast" => ret[t] \in {"run", "finish"} /\ CallMonitor(t)
  /\ pc[t] = "finish" => ret[t] = "finish" /\ CallMonitor(t)
  /\ pc[t] \notin {"run", "acquire", "retry", "dead"} => t = cur /\ cpu = "run"
  /\ pc[t] = "acquire" /\ lret[t] # "restore" => t = cur /\ cpu = "run"

Frames == \A t \in Threads : Frame(t)

(* t has called thread_exit. *)
Exiting(t) == \/ pc[t] \in {"finish", "dead"}
              \/ pc[t] = "broadcast" /\ ret[t] = "finish"
              \/ pc[t] = "acquire" /\ lret[t] = "broadcast"

(* A thread whose fork is still to come is nowhere. *)
Unstarted ==
  \A t \in Threads : tstate[t] = "NEW" =>
    /\ pc[t] = "run" /\ ~Queued(t)
    /\ t # cur /\ ~(cpu = "switch" /\ t = next)

(* A terminated thread is inside thread_exit, or has left it for good.     *)
ExitPlace(t) ==
  /\ tstate[t] = "TERMINATED" <=> Exiting(t)
  /\ pc[t] = "dead" => ~Queued(t) /\ ~(cpu = "run" /\ t = cur)
  /\ pc[t] \in {"finish", "dead"} => list[Cond(t)] = <<>>

Exited == \A t \in Threads : ExitPlace(t)

(* t is asleep, or being woken, in thread_wait on m. *)
Waiting(t, m) == mon[t] = m /\ pc[t] = "acquire" /\ lret[t] = "restore"

(* Only the threads in thread_wait on m are on its queue. *)
Sleepers ==
  \A t \in Threads, m \in Monitors :
    On(t, Cond(m)) => (pc[t] = "release" /\ mon[t] = m) \/ Waiting(t, m)

(* Whether the running thread and the one about to run are linked.  It is  *)
(* linked while it still runs when it is going to sleep; process 1 is      *)
(* always in its loop.                                                     *)
Current ==
  /\ cpu = "run" => (Queued(cur) <=> pc[cur] = "release")
  /\ cpu = "schedule" => (Queued(cur) <=> pc[cur] # "dead")
  /\ cpu = "switch" => /\ tstate[next] = "RUNNABLE" /\ ~Queued(next)
                       /\ cur # next => (Queued(cur) <=> pc[cur] # "dead")
  /\ pc[Idle] = "run" /\ tstate[Idle] # "NEW"

(* The places between thread_lock and thread_unlock of a join or an exit.  *)
InsideCall == {"check", "release", "restore", "broadcast", "finish"}

(* The monitor of thread u is only ever held by the running thread, inside *)
(* thread_join or thread_exit, once.                                       *)
FreeOrCurrent(u) ==
  \/ owner[u] = NULL /\ count[u] = 0
  \/ /\ owner[u] = cur /\ count[u] = 1 /\ cpu = "run"
     /\ mon[cur] = u /\ pc[cur] \in InsideCall

(* Conversely t holds the thread's monitor it works on, and a wait on one  *)
(* has noted that count.                                                   *)
Holder(t) ==
  mon[t] \in Threads =>
    /\ pc[t] \in InsideCall => owner[mon[t]] = t
    /\ pc[t] \in {"release", "restore"} \/ Waiting(t, mon[t]) => saved[t] = 1

ThreadMonitors == \A t \in Threads : FreeOrCurrent(t) /\ Holder(t)

(* Where every thread is and what is linked where, whatever calls the      *)
(* threads make: the properties of Sync about queues, and the control      *)
(* state, exits, waits and thread monitors that preserve them.             *)
QueueInv == /\ TypeOK /\ LinkedOnce /\ StateMatchesQueue /\ NoThreadLost
            /\ Frames /\ Unstarted /\ Exited /\ Sleepers /\ Current
            /\ ThreadMonitors /\ RunQueueNeverEmpty

(* What a thread holds, by where it is, when threads give up the CPU only  *)
(* with no monitor held: off the CPU it holds nothing, or the monitor it   *)
(* waits on, once.                                                         *)
HeldBy(t) ==
  /\ \A m \in Monitors : held[t][m] >= 0
  /\ Waiting(t, mon[t]) => HoldsOnly(t, mon[t]) /\ saved[t] = 1
  /\ (t # cur \/ cpu # "run") /\ ~Waiting(t, mon[t]) => HoldsNone(t)
  /\ pc[t] = "acquire" /\ lret[t] \in {"check", "broadcast"} => HoldsNone(t)
  /\ pc[t] \in {"release", "restore"} => saved[t] = 1
  /\ pc[t] \in {"release", "restore", "check", "finish"} => HoldsOnly(t, mon[t])
  /\ pc[t] = "broadcast" /\ ret[t] = "finish" => HoldsOnly(t, mon[t])
  /\ pc[t] # "retry"

(* The mutex of m records the running thread, if it is inside, or nobody. *)
MutexOf(m) ==
  IF cpu = "run" /\ Inside(cur, m)
  THEN owner[m] = cur /\ count[m] = held[cur][m]
  ELSE owner[m] = NULL /\ count[m] = 0

HeldInv == (\A t \in Threads : HeldBy(t)) /\ (\A m \in Monitors : MutexOf(m))

(* Among threads that keep the rules, the thread using a monitor is the    *)
(* running one, and no thread finds a mutex taken: mutex_lock never gets   *)
(* to its waiting loop.                                                    *)
MutexInv == WellBehaved => HeldInv
-----------------------------------------------------------------------------
(* The processor goes on with what it is doing in the kernel, and threads  *)
(* cooperate: whichever is running, some thread calls thread_schedule      *)
(* again.  The boot thread and process 1 yield in endless loops, and the   *)
(* other threads join, wait or exit.                                       *)
Fairness == /\ WF_vars(Dispatch) /\ WF_vars(\E t \in Threads : Continue(t))
            /\ []<>(cpu = "schedule")

FairSpec == Spec /\ Fairness

Joining(t, u) == mon[t] = u /\ ret[t] = "check" /\ pc[t] \notin {"run", "dead"}

(* Every join of a thread that has called thread_exit returns: all joiners *)
(* are woken, get their turn on the run queue and the monitor back, and    *)
(* see that the thread has terminated.                                     *)
JoinReturns ==
  \A t \in Threads, u \in Threads :
    Joining(t, u) /\ tstate[u] = "TERMINATED" ~> ~Joining(t, u)
=============================================================================

------------------------------- MODULE Timer -------------------------------
(***************************************************************************)
(* The timer queue (kernel/timer.c) over the 16 bit interval timer of the  *)
(* i386 port (arch/i386/isa.c).                                            *)
(*                                                                         *)
(* An event's usec counts from the expiry of the event before it, and only *)
(* the first one is programmed into the interval timer.  A delay of more   *)
(* than PitMax ticks takes several interrupts.  timer_add and timer_delete *)
(* run under a spin lock, that is with interrupts off, so each is a step.  *)
(* The interrupt handler drops its locks to call the event's callback,     *)
(* which may add and delete events itself; no other interrupt comes before *)
(* the handler has acknowledged this one, but the counter goes on.         *)
(***************************************************************************)
EXTENDS Integers, FiniteSets, Sequences

CONSTANTS
  Events,     \* the timer_event_t structures; each is added once
  Delays,     \* the delays passed to timer_add, in microseconds
  PitMax,     \* the longest delay of the interval timer, 65535
  PitNum,     \* PitNum / PitDen ticks to a microsecond: 1193180 and 1000000
  PitDen,
  Latched,    \* TRUE: an interrupt request outlives reprogramming the timer
  DeleteAny,  \* TRUE: timer_delete is called for any event, FALSE: for the first
  NULL

ASSUME TimerAssumption ==
  /\ Delays \subseteq Nat
  /\ PitMax \in Nat \ {0} /\ PitNum \in Nat \ {0} /\ PitDen \in Nat \ {0}
  /\ Latched \in BOOLEAN /\ DeleteAny \in BOOLEAN
  /\ IsFiniteSet(Events) /\ NULL \notin Events

VARIABLES
  queue,      \* timers->queue, in order: the events with their usec
  ticks,      \* isa.c's count of the ticks still to go
  pit_expire, \* whether pit_expire is timer_expire or 0
  counter,    \* the timer chip: its counter, and its output line
  out,
  irq,        \* the interrupt controller: a timer interrupt is requested
  firing,     \* the entry whose callback the handler is in, if it is in one
  status,     \* history: "new", "queued", "fired" or "deleted"
  newest      \* history: the event added last, until the next timer_delete

vars == <<queue, ticks, pit_expire, counter, out, irq, firing, status, newest>>

\* An entry of the queue; left is history: PitDen times the ticks that must pass
\* before the event is due
Entry == [event : Events, usec : Int, left : Nat]

\* C's integer division
Quotient(a, b) == IF a >= 0 THEN a \div b ELSE -((-a) \div b)

Init ==
  /\ queue = <<>> /\ firing = <<>>
  /\ ticks = 0 /\ pit_expire = FALSE
  /\ counter = 0 /\ out = TRUE /\ irq = FALSE
  /\ status = [e \in Events |-> "new"] /\ newest = NULL

-----------------------------------------------------------------------------
\* The interval timer

\* The counter takes the low 16 bits of ticks; its output goes low
pit_set(t) ==
  /\ ticks' = t
  /\ counter' = IF t > PitMax THEN PitMax ELSE t % (PitMax + 1)
  /\ out' = FALSE
  /\ irq' = (irq /\ Latched)

pit_timer_set(us) ==
  /\ pit_expire' = TRUE
  /\ pit_set(Quotient(PitNum * us, PitDen))

\* The counter as it is read; it has gone round if the interrupt is late
pit_get == counter

\* What pit_timer_clear returns: the time left
pit_timer_clear ==
  Quotient((IF ticks > PitMax THEN ticks - PitMax + pit_get ELSE pit_get) * PitDen, PitNum)

\* The counter goes round; its output rises when it reaches 0
Tick ==
  /\ counter' = (counter - 1) % (PitMax + 1)
  /\ out' = (out \/ counter' = 0)
  /\ irq' = (irq \/ (out' /\ ~out))
  /\ queue' = [i \in DOMAIN queue |->
                 [queue[i] EXCEPT !.left = IF @ > PitDen THEN @ - PitDen ELSE 0]]
  /\ UNCHANGED <<ticks, pit_expire, firing, status, newest>>

-----------------------------------------------------------------------------
\* The queue

\* The queue after "cancel the current outstanding timer"
Cancelled == IF queue = <<>> THEN queue
             ELSE [queue EXCEPT ![1].usec = @ - pit_timer_clear]

\* When the i-th event of q expires, from now
Expiry(q, i) ==
  LET sum[k \in 0..Len(q)] == IF k = 0 THEN 0 ELSE sum[k - 1] + q[k].usec
  IN  sum[i]

\* Where the walk of timer_add ends
Position(q, us) ==
  CHOOSE i \in 1..Len(q) + 1 :
    /\ i = Len(q) + 1 \/ us < Expiry(q, i)
    /\ \A j \in 1..i - 1 : us >= Expiry(q, j)

\* Faulty variant: the events after the new one are not linked to it
Inserted_Truncates(q, e, us) ==
  LET i == Position(q, us)
  IN  SubSeq(q, 1, i - 1)
        \o <<[event |-> e, usec |-> us - Expiry(q, i - 1), left |-> us * PitNum]>>

\* The queue after the walk: the event that follows counts from the new one
Inserted(q, e, us) ==
  LET i    == Position(q, us)
      left == us - Expiry(q, i - 1)
      r    == IF i <= Len(q) THEN [q EXCEPT ![i].usec = @ - left] ELSE q
  IN  SubSeq(r, 1, i - 1) \o <<[event |-> e, usec |-> left, left |-> us * PitNum]>> \o SubSeq(r, i, Len(r))

timer_add(e, us) ==
  /\ status[e] = "new"
  /\ queue' = Inserted(Cancelled, e, us)
  /\ pit_timer_set(queue'[1].usec)
  /\ status' = [status EXCEPT ![e] = "queued"]
  /\ newest' = e
  /\ UNCHANGED firing

\* The walk never moves its link pointer: *pprev is always the list head, so
\* that the events before the deleted one go with it
timer_delete(e) ==
  LET i == CHOOSE i \in DOMAIN queue : queue[i].event = e
      q == Cancelled
      r == SubSeq(q, i + 1, Len(q))
  IN  /\ status[e] = "queued"
      /\ DeleteAny \/ e = queue[1].event
      /\ queue' = IF r = <<>> THEN r ELSE [r EXCEPT ![1].usec = @ + q[i].usec]
      /\ status' = [status EXCEPT ![e] = "deleted"]
      /\ newest' = NULL
      /\ IF r # <<>> THEN pit_timer_set(queue'[1].usec)
         ELSE ticks' = 0 /\ pit_expire' = FALSE /\ UNCHANGED <<counter, out, irq>>
      /\ UNCHANGED firing

\* Faulty variant: the first interrupt ends a delay of several
pit_timer_int_OneShot ==
  /\ irq /\ firing = <<>>
  /\ ticks' = 0 /\ irq' = FALSE
  /\ pit_expire /\ queue # <<>>
  /\ queue' = Tail(queue) /\ firing' = <<queue[1]>>
  /\ status' = [status EXCEPT ![queue[1].event] = "fired"]
  /\ UNCHANGED <<counter, out, pit_expire, newest>>

\* Faulty variant: ticks is not counted down
pit_timer_int_NoCount ==
  /\ irq /\ firing = <<>> /\ irq' = FALSE
  /\ IF ticks > PitMax
     THEN counter' = PitMax /\ out' = FALSE /\ UNCHANGED <<queue, firing, status, ticks>>
     ELSE /\ ticks' = 0
          /\ IF pit_expire /\ queue # <<>>
             THEN /\ queue' = Tail(queue) /\ firing' = <<queue[1]>>
                  /\ status' = [status EXCEPT ![queue[1].event] = "fired"]
             ELSE UNCHANGED <<queue, firing, status>>
          /\ UNCHANGED <<counter, out>>
  /\ UNCHANGED <<pit_expire, newest>>

\* pit_timer_int, and timer_expire up to the call of the event's callback
pit_timer_int ==
  /\ irq /\ firing = <<>>
  /\ IF ticks > PitMax
     THEN /\ ticks' = ticks - PitMax
          /\ counter' = IF ticks' > PitMax THEN PitMax ELSE ticks'
          /\ out' = FALSE
          /\ UNCHANGED <<queue, firing, status>>
     ELSE /\ ticks' = 0
          /\ IF pit_expire /\ queue # <<>>
             THEN /\ queue' = Tail(queue) /\ firing' = <<queue[1]>>
                  /\ status' = [status EXCEPT ![queue[1].event] = "fired"]
             ELSE UNCHANGED <<queue, firing, status>>
          /\ UNCHANGED <<counter, out>>
  /\ irq' = FALSE
  /\ UNCHANGED <<pit_expire, newest>>

\* Faulty variant: the next event is not started
timer_expire_Stops ==
  /\ firing # <<>> /\ firing' = <<>>
  /\ UNCHANGED <<ticks, pit_expire, counter, out, irq, queue, status, newest>>

\* The rest of timer_expire, after the callback, and the end of the interrupt
timer_expire ==
  /\ firing # <<>> /\ firing' = <<>>
  /\ IF queue # <<>> THEN pit_timer_set(queue[1].usec)
     ELSE UNCHANGED <<ticks, pit_expire, counter, out, irq>>
  /\ UNCHANGED <<queue, status, newest>>

Next ==
  \/ Tick
  \/ pit_timer_int
  \/ timer_expire
  \/ \E e \in Events : timer_delete(e) \/ \E us \in Delays : timer_add(e, us)

\* The clock does not stop, an interrupt is delivered, and a handler ends
Fairness == WF_vars(Tick) /\ WF_vars(pit_timer_int) /\ WF_vars(timer_expire)

Spec == Init /\ [][Next]_vars /\ Fairness

-----------------------------------------------------------------------------
TypeOK ==
  /\ queue \in Seq(Entry) /\ firing \in Seq(Entry)
  /\ ticks \in Int /\ counter \in 0..PitMax
  /\ pit_expire \in BOOLEAN /\ out \in BOOLEAN /\ irq \in BOOLEAN
  /\ status \in [Events -> {"new", "queued", "fired", "deleted"}]
  /\ newest \in Events \cup {NULL}

\* An event that was added, and neither fired nor deleted, is on the queue, once,
\* and no other is: neither a callback that adds events, nor a deletion, loses one.
NoEventLost ==
  /\ TypeOK
  /\ \A e \in Events :
       Cardinality({i \in DOMAIN queue : queue[i].event = e})
         = IF status[e] = "queued" THEN 1 ELSE 0

\* While events wait and no callback runs, the interval timer counts towards an
\* interrupt, or has requested it, and the interrupt will run timer_expire.
Armed ==
  queue # <<>> /\ firing = <<>> => pit_expire /\ (irq \/ ~out)

\* An event is not called before its delay is over, but for the part of a tick
\* that each programming of the timer rounds off: a thread that sleeps for a
\* second sleeps for a second.
NotEarly ==
  firing # <<>> => firing[1].left < PitDen * Cardinality(Events)

\* An event is not called early when nothing was added or deleted after it.
NewestNotEarly ==
  firing # <<>> /\ firing[1].event = newest => firing[1].left < PitDen * Cardinality(Events)

\* Every event that was added fires, or is deleted, in the end.
EveryEventEnds == \A e \in Events : status[e] = "queued" ~> status[e] # "queued"
=============================================================================

---------------------------- MODULE TimerProofs ----------------------------
(***************************************************************************)
(* The interval timer stays armed, and the queue holds the events that are *)
(* waiting, for any set of events, any delays and any timer chip.          *)
(***************************************************************************)
EXTENDS Timer, FiniteSetTheorems, SequenceTheorems, TLAPS

\* Armed, and that the flags it is about are Booleans
TimerInv == pit_expire \in BOOLEAN /\ out \in BOOLEAN /\ irq \in BOOLEAN /\ Armed

\* Programming the interval timer leaves it counting towards timer_expire, whatever the
\* delay, one of no ticks included.
LEMMA SetArms ==
  ASSUME NEW us, pit_timer_set(us)
  PROVE  pit_expire' = TRUE /\ out' = FALSE /\ irq' \in BOOLEAN
BY DEF pit_timer_set, pit_set

\* No event waits when the kernel starts.
LEMMA InitArmed == Init => TimerInv
BY Zenon DEF Init, TimerInv, Armed

\* The timer chip requests an interrupt when its output rises.
LEMMA TickArmed == TimerInv /\ Tick => TimerInv'
<1> SUFFICES ASSUME TimerInv, Tick PROVE TimerInv'
  OBVIOUS
<1>1. pit_expire' \in BOOLEAN /\ out' \in BOOLEAN /\ irq' \in BOOLEAN /\ (irq \/ ~out => irq' \/ ~out')
  BY DEF Tick, TimerInv
<1>2. queue' # <<>> => queue # <<>>
  BY DEF Tick
<1>3. firing' = firing /\ pit_expire' = pit_expire
  BY DEF Tick
<1> QED
  BY <1>1, <1>2, <1>3 DEF TimerInv, Armed

\* A step of a delay that takes several arms the timer again, and the last one ends in
\* the callback, since the invariant says that there is an event and an expiry function.
LEMMA InterruptArmed == TimerInv /\ pit_timer_int => TimerInv'
<1> SUFFICES ASSUME TimerInv, pit_timer_int PROVE TimerInv'
  OBVIOUS
<1>1. irq' \in BOOLEAN /\ out' \in BOOLEAN /\ pit_expire' \in BOOLEAN
  BY Zenon DEF pit_timer_int, TimerInv
<1>2. CASE ticks > PitMax
  <2>1. out' = FALSE /\ pit_expire' = pit_expire /\ queue' = queue /\ firing = <<>>
    BY <1>2 DEF pit_timer_int
  <2> QED
    BY <1>1, <2>1 DEF TimerInv, Armed
<1>3. CASE ~(ticks > PitMax)
  <2>1. CASE pit_expire /\ queue # <<>>
    <3>1. firing' = <<queue[1]>>
      BY <1>3, <2>1 DEF pit_timer_int
    <3>2. firing' # <<>>
      BY <3>1
    <3> QED
      BY <1>1, <3>2 DEF TimerInv, Armed
  <2>2. CASE ~(pit_expire /\ queue # <<>>)
    <3>1. queue' = queue /\ firing = <<>>
      BY <1>3, <2>2 DEF pit_timer_int
    <3> QED
      BY <1>1, <2>2, <3>1 DEF TimerInv, Armed
  <2> QED
    BY <2>1, <2>2
<1> QED
  BY <1>2, <1>3

\* Adding and deleting events, and the end of the handler, program the timer when they
\* leave an event on the queue.
LEMMA QueueArmed ==
  ASSUME TimerInv,
         timer_expire \/ \E e \in Events : timer_delete(e) \/ \E us \in Delays : timer_add(e, us)
  PROVE  TimerInv'
<1>1. CASE timer_expire
  <2>1. CASE queue # <<>>
    BY <1>1, <2>1, SetArms, Zenon DEF timer_expire, TimerInv, Armed
  <2>2. CASE queue = <<>>
    BY <1>1, <2>2 DEF timer_expire, TimerInv, Armed
  <2> QED
    BY <2>1, <2>2
<1>2. ASSUME NEW e \in Events, timer_delete(e) PROVE TimerInv'
  BY <1>2, SetArms, Zenon DEF timer_delete, TimerInv, Armed
<1>3. ASSUME NEW e \in Events, NEW us \in Delays, timer_add(e, us) PROVE TimerInv'
  BY <1>3, SetArms, Zenon DEF timer_add, TimerInv, Armed
<1> QED
  BY <1>1, <1>2, <1>3

\* While events wait and no callback runs, the interval timer counts towards an
\* interrupt that will run timer_expire, or has requested it.
THEOREM ArmedCorrect == Spec => []Armed
<1>1. TimerInv /\ [Next]_vars => TimerInv'
  <2> SUFFICES ASSUME TimerInv, [Next]_vars PROVE TimerInv'
    OBVIOUS
  <2>1. CASE UNCHANGED vars
    BY <2>1 DEF vars, TimerInv, Armed
  <2>2. CASE Next
    BY <2>2, TickArmed, InterruptArmed, QueueArmed DEF Next
  <2> QED
    BY <2>1, <2>2
<1>2. TimerInv => Armed
  BY DEF TimerInv
<1> QED
  BY InitArmed, <1>1, <1>2, PTL DEF Spec

-----------------------------------------------------------------------------
\* Sums over the queue

\* A set of naturals that is not empty has a least element: initial segments are well
\* founded by inclusion.
LEMMA LeastNatural ==
  ASSUME NEW T \in SUBSET Nat, T # {}
  PROVE  \E n \in T : \A m \in T : n <= m
<1> DEFINE F == {0..n : n \in T}
<1>0. \A n \in T : 0..n \in FiniteSubsetsOf(Nat)
  BY FS_Interval DEF FiniteSubsetsOf
<1>1. F # {} /\ F \subseteq FiniteSubsetsOf(Nat)
  BY <1>0, Zenon
<1>2. \E x \in F : \A y \in F : <<y, x>> \notin StrictSubsetOrdering(Nat)
  <2> HIDE DEF F
  <2> QED
    BY <1>1, FS_StrictSubsetOrderingWellFounded, WFMin, Zenon
<1>3. PICK n \in T : \A m \in T : <<0..m, 0..n>> \notin StrictSubsetOrdering(Nat)
  BY <1>2, Zenon
<1>4. \A X, Y \in SUBSET Nat : X \subseteq Y /\ X # Y => <<X, Y>> \in StrictSubsetOrdering(Nat)
  BY Zenon DEF StrictSubsetOrdering
<1>5. ASSUME NEW m \in T, m < n PROVE FALSE
  <2>1. 0..m \subseteq 0..n /\ n \in 0..n /\ n \notin 0..m
    BY <1>5
  <2>2. 0..m \in SUBSET Nat /\ 0..n \in SUBSET Nat
    OBVIOUS
  <2> QED
    BY <2>1, <2>2, <1>3, <1>4, Zenon
<1> QED
  BY <1>3, <1>5

\* The recursive function of Expiry exists: were there a length for which it did not,
\* the least one would be the next after a length for which it does.
LEMMA SumsExist ==
  ASSUME NEW n \in Nat, NEW u \in [1..n -> Int]
  PROVE  \E f \in [0..n -> Int] : f[0] = 0 /\ \A k \in 1..n : f[k] = f[k - 1] + u[k]
<1> DEFINE Good(m) == \E f \in [0..m -> Int] : f[0] = 0 /\ \A k \in 1..m : f[k] = f[k - 1] + u[k]
           Bad == {m \in 0..n : ~Good(m)}
<1>1. SUFFICES ASSUME Bad # {} PROVE FALSE
  <2>1. n \in 0..n
    OBVIOUS
  <2> HIDE DEF Good
  <2>2. Bad = {} => Good(n)
    BY <2>1
  <2> QED
    BY <2>2, Zenon DEF Good
<1>2. PICK m \in Bad : \A k \in Bad : m <= k
  <2>1. Bad \in SUBSET Nat
    OBVIOUS
  <2> HIDE DEF Bad
  <2> QED
    BY <1>1, <2>1, LeastNatural
<1>3. m \in 0..n /\ ~Good(m)
  OBVIOUS
<1>4. m # 0
  <2>1. [k \in 0..0 |-> 0] \in [0..0 -> Int]
    OBVIOUS
  <2>2. Good(0)
    <3> DEFINE g == [k \in 0..0 |-> 0]
    <3>1. g \in [0..0 -> Int] /\ g[0] = 0 /\ \A k \in 1..0 : g[k] = g[k - 1] + u[k]
      OBVIOUS
    <3> QED
      BY <3>1, Zenon
  <2> QED
    BY <1>3, <2>2, Zenon
<1>5. Good(m - 1)
  <2>1. m - 1 \in 0..n /\ ~(m <= m - 1)
    BY <1>3, <1>4
  <2> HIDE DEF Good
  <2> QED
    BY <1>2, <2>1
<1>6. PICK f \in [0..m - 1 -> Int] : f[0] = 0 /\ \A k \in 1..m - 1 : f[k] = f[k - 1] + u[k]
  BY <1>5, Zenon
<1> DEFINE g == [k \in 0..m |-> IF k = m THEN f[m - 1] + u[m] ELSE f[k]]
<1>7. g \in [0..m -> Int]
  BY <1>3, <1>4, <1>6
<1>8. g[0] = 0 /\ \A k \in 1..m : g[k] = g[k - 1] + u[k]
  BY <1>3, <1>4, <1>6
<1>9. Good(m)
  <2> HIDE DEF g
  <2> QED
    BY <1>7, <1>8, Zenon
<1> QED
  BY <1>3, <1>9, Zenon

\* Expiry is the sum of the delays up to an event.
LEMMA ExpiryIs ==
  ASSUME NEW q \in Seq(Entry)
  PROVE  /\ \A i \in 0..Len(q) : Expiry(q, i) \in Int
         /\ Expiry(q, 0) = 0
         /\ \A i \in 1..Len(q) : Expiry(q, i) = Expiry(q, i - 1) + q[i].usec
<1> DEFINE n == Len(q)
           u == [k \in 1..n |-> q[k].usec]
           S(f) == f = [k \in 0..n |-> IF k = 0 THEN 0 ELSE f[k - 1] + q[k].usec]
           sum == CHOOSE f : S(f)
<1>1. n \in Nat /\ u \in [1..n -> Int]
  <2>1. n \in Nat /\ \A k \in 1..n : q[k] \in Entry
    BY ElementOfSeq, LenProperties, Zenon
  <2> QED
    BY <2>1 DEF Entry
<1>2. PICK f \in [0..n -> Int] : f[0] = 0 /\ \A k \in 1..n : f[k] = f[k - 1] + u[k]
  <2> HIDE DEF n, u
  <2> QED
    BY <1>1, SumsExist, Zenon
<1>3. S(f)
  BY <1>1, <1>2
<1>4. S(sum)
  <2> HIDE DEF S
  <2> QED
    BY <1>3
<1>5. \A i : Expiry(q, i) = sum[i]
  BY DEF Expiry
<1>6. sum = [k \in 0..n |-> IF k = 0 THEN 0 ELSE sum[k - 1] + q[k].usec]
  BY <1>4
<1>7. sum[0] = 0 /\ \A k \in 1..n : sum[k] = sum[k - 1] + q[k].usec
  <2> HIDE DEF sum
  <2> QED
    BY <1>1, <1>6
<1> DEFINE Other == {k \in 0..n : sum[k] # f[k]}
<1> HIDE DEF sum, S
<1>8. Other = {}
  <2> SUFFICES ASSUME Other # {} PROVE FALSE
    OBVIOUS
  <2>1. PICK m \in Other : \A k \in Other : m <= k
    <3>1. Other \in SUBSET Nat
      BY <1>1
    <3> HIDE DEF Other
    <3> QED
      BY <3>1, LeastNatural
  <2>2. m # 0 /\ m \in 1..n /\ m - 1 \in 0..n /\ ~(m <= m - 1)
    BY <1>1, <1>2, <1>7
  <2>3. sum[m - 1] = f[m - 1]
    BY <2>1, <2>2
  <2>4. sum[m] = f[m]
    BY <1>1, <1>2, <1>7, <2>2, <2>3
  <2> QED
    BY <2>4
<1>9. \A k \in 0..n : sum[k] \in Int
  BY <1>1, <1>2, <1>8
<1> QED
  BY <1>1, <1>5, <1>7, <1>9, Zenon

\* The walk of timer_add ends before the first event that expires later, or at the end.
LEMMA PositionIs ==
  ASSUME NEW q \in Seq(Entry), NEW us \in Int
  PROVE  Position(q, us) \in 1..Len(q) + 1
<1> DEFINE T == {i \in 1..Len(q) + 1 : i = Len(q) + 1 \/ us < Expiry(q, i)}
<1>1. Len(q) \in Nat
  BY LenProperties
<1>2. PICK i \in T : \A j \in T : i <= j
  <2>1. T \in SUBSET Nat /\ Len(q) + 1 \in T
    BY <1>1
  <2> HIDE DEF T
  <2> QED
    BY <2>1, LeastNatural
<1>3. \A j \in 1..i - 1 : us >= Expiry(q, j)
  <2> TAKE j \in 1..i - 1
  <2>1. j \in 1..Len(q) /\ j \in 0..Len(q) /\ ~(i <= j)
    BY <1>1
  <2>2. Expiry(q, j) \in Int
    BY <2>1, ExpiryIs
  <2> QED
    BY <1>2, <2>1, <2>2
<1> QED
  BY <1>2, <1>3 DEF Position

\* timer_add puts the new event at one place of the queue; the others stay in order.
LEMMA InsertedIs ==
  ASSUME NEW q \in Seq(Entry), NEW e \in Events, NEW us \in Delays
  PROVE  /\ Inserted(q, e, us) \in Seq(Entry)
         /\ Len(Inserted(q, e, us)) = Len(q) + 1
         /\ \E i \in 1..Len(q) + 1 :
              /\ Inserted(q, e, us)[i] = [event |-> e, usec |-> us - Expiry(q, i - 1), left |-> us * PitNum]
              /\ \A j \in 1..i - 1 : Inserted(q, e, us)[j] = q[j]
              /\ \A j \in i..Len(q) : Inserted(q, e, us)[j + 1].event = q[j].event
<1> DEFINE i == Position(q, us)
           n == Len(q)
           left == us - Expiry(q, i - 1)
           x == [event |-> e, usec |-> left, left |-> us * PitNum]
           p == IF i <= n THEN [q EXCEPT ![i].usec = @ - left] ELSE q
           a == SubSeq(p, 1, i - 1)
           b == SubSeq(p, i, n)
           r == a \o <<x>> \o b
<1>1. us \in Nat /\ us \in Int /\ PitNum \in Nat
  BY TimerAssumption
<1>2. n \in Nat /\ i \in 1..n + 1
  BY <1>1, PositionIs, LenProperties
<1>3. \A j \in 1..n : q[j] \in Entry
  BY ElementOfSeq, LenProperties, Zenon
<1>4. left \in Int
  <2>1. i - 1 \in 0..n
    BY <1>2
  <2>2. Expiry(q, i - 1) \in Int
    BY <2>1, ExpiryIs, Zenon
  <2> HIDE DEF i
  <2> QED
    BY <1>1, <2>2
<1>5. us * PitNum \in Nat
  BY <1>1
<1>6. x \in Entry
  <2> HIDE DEF left
  <2> QED
    BY <1>4, <1>5 DEF Entry
<1> HIDE DEF i, left, x
<1>7. p \in Seq(Entry) /\ Len(p) = n
      /\ \A j \in 1..n : p[j] \in Entry /\ p[j].event = q[j].event /\ (j # i => p[j] = q[j])
  <2>1. CASE i <= n
    <3>1. p = [q EXCEPT ![i] = [q[i] EXCEPT !.usec = @ - left]] /\ i \in 1..n
      BY <1>2, <2>1
    <3>2. [q[i] EXCEPT !.usec = @ - left] \in Entry /\ [q[i] EXCEPT !.usec = @ - left].event = q[i].event
      <4> DEFINE y == q[i]
                 l == y.usec - left
      <4>1. y \in Entry /\ l \in Int
        BY <1>3, <1>4, <3>1 DEF Entry
      <4> HIDE DEF y, l
      <4>2. [y EXCEPT !.usec = l] \in Entry /\ [y EXCEPT !.usec = l].event = y.event
        BY <4>1 DEF Entry
      <4> QED
        BY <4>2 DEF y, l
    <3> QED
      BY <1>2, <1>3, <3>1, <3>2
  <2>2. CASE ~(i <= n)
    BY <1>3, <2>2
  <2> QED
    BY <2>1, <2>2
<1> HIDE DEF p
<1>8. a \in Seq(Entry) /\ Len(a) = i - 1 /\ \A j \in 1..i - 1 : a[j] = p[j]
  BY <1>2, <1>7
<1>9. b \in Seq(Entry) /\ Len(b) = n - i + 1 /\ \A j \in 1..n - i + 1 : b[j] = p[i + j - 1]
  BY <1>2, <1>7
<1> HIDE DEF a, b
<1>10. /\ r \in Seq(Entry) /\ Len(r) = n + 1 /\ r[i] = x
       /\ \A j \in 1..i - 1 : r[j] = a[j]
       /\ \A j \in i + 1..n + 1 : r[j] = b[j - i]
  <2>1. a \o <<x>> \in Seq(Entry) /\ Len(a \o <<x>>) = i /\ (a \o <<x>>)[i] = x
        /\ \A j \in 1..i - 1 : (a \o <<x>>)[j] = a[j]
    BY <1>2, <1>6, <1>8
  <2> DEFINE c == a \o <<x>>
  <2> HIDE DEF c
  <2>2. c \in Seq(Entry) /\ Len(c) = i /\ c[i] = x /\ \A j \in 1..i - 1 : c[j] = a[j]
    BY <2>1 DEF c
  <2>3. /\ c \o b \in Seq(Entry) /\ Len(c \o b) = n + 1 /\ (c \o b)[i] = x
        /\ \A j \in 1..i - 1 : (c \o b)[j] = a[j]
        /\ \A j \in i + 1..n + 1 : (c \o b)[j] = b[j - i]
    <3> DEFINE d == c \o b
    <3>1. /\ d \in Seq(Entry) /\ Len(d) = Len(c) + Len(b)
          /\ \A j \in 1..Len(c) + Len(b) : d[j] = IF j <= Len(c) THEN c[j] ELSE b[j - Len(c)]
      BY <1>9, <2>2, ConcatProperties
    <3> HIDE DEF d
    <3>2. Len(c) = i /\ Len(b) = n - i + 1 /\ i + (n - i + 1) = n + 1
      BY <1>2, <1>9, <2>2
    <3>3. \A j \in 1..n + 1 : d[j] = IF j <= i THEN c[j] ELSE b[j - i]
      BY <3>1, <3>2
    <3> QED
      BY <1>2, <2>2, <3>1, <3>2, <3>3 DEF d
  <2> QED
    BY <2>3, Zenon DEF c
<1>11. r = Inserted(q, e, us)
  BY <1>7, Zenon DEF Inserted, r, a, b, p, x, left, i
<1> HIDE DEF r
<1>12. r[i] = [event |-> e, usec |-> us - Expiry(q, i - 1), left |-> us * PitNum]
  BY <1>10, Zenon DEF x, left
<1>13. \A j \in 1..i - 1 : r[j] = q[j]
  BY <1>2, <1>7, <1>8, <1>10
<1>14. ASSUME NEW j \in i..n PROVE r[j + 1].event = q[j].event
  <2>1. j + 1 \in i + 1..n + 1 /\ (j + 1) - i \in 1..n - i + 1 /\ i + ((j + 1) - i) - 1 = j /\ j \in 1..n
    BY <1>2
  <2>2. r[j + 1] = b[(j + 1) - i] /\ b[(j + 1) - i] = p[i + ((j + 1) - i) - 1]
    BY <1>9, <1>10, <2>1, Zenon
  <2> QED
    BY <1>7, <2>1, <2>2
<1> QED
  BY <1>2, <1>10, <1>11, <1>12, <1>13, <1>14

-----------------------------------------------------------------------------
\* The events of the queue

\* The queue holds each event that waits once, and no other
Queued ==
  /\ \A i, j \in DOMAIN queue : queue[i].event = queue[j].event => i = j
  /\ \A e \in Events : status[e] = "queued" <=> \E i \in DOMAIN queue : queue[i].event = e

EventInv == TypeOK /\ Queued

\* C's division of integers
LEMMA QuotientType == ASSUME NEW a \in Int, NEW b \in Nat \ {0} PROVE Quotient(a, b) \in Int
BY DEF Quotient

LEMMA SetTypes ==
  ASSUME TypeOK, NEW us \in Int, pit_timer_set(us)
  PROVE  ticks' \in Int /\ counter' \in 0..PitMax /\ pit_expire' \in BOOLEAN /\ out' \in BOOLEAN /\ irq' \in BOOLEAN
<1> DEFINE t == Quotient(PitNum * us, PitDen)
<1>0. PitNum \in Nat /\ PitDen \in Nat \ {0} /\ PitMax \in Nat
  BY TimerAssumption
<1>1. PitNum * us \in Int
  BY <1>0
<1>2. t \in Int
  BY <1>0, <1>1, QuotientType
<1> HIDE DEF t
<1>3. /\ ticks' = t /\ counter' = (IF t > PitMax THEN PitMax ELSE t % (PitMax + 1))
      /\ out' = FALSE /\ irq' = (irq /\ Latched) /\ pit_expire' = TRUE
  BY DEF pit_timer_set, pit_set, t
<1>4. counter' \in 0..PitMax
  <2>1. CASE t > PitMax
    BY <1>0, <1>3, <2>1
  <2>2. CASE ~(t > PitMax)
    <3> DEFINE m == PitMax + 1
    <3>1. m \in Nat \ {0}
      BY <1>0
    <3>2. counter' = t % m
      BY <1>3, <2>2
    <3> HIDE DEF m
    <3>3. t % m \in 0..m - 1
      BY <1>2, <3>1
    <3> QED
      BY <1>0, <3>2, <3>3 DEF m
  <2> QED
    BY <2>1, <2>2
<1>5. irq' \in BOOLEAN
  BY <1>3
<1> QED
  BY <1>2, <1>3, <1>4, <1>5, Zenon

\* pit_timer_clear changes the delay of the first event only.
LEMMA CancelledIs ==
  ASSUME TypeOK
  PROVE  /\ Cancelled \in Seq(Entry) /\ Len(Cancelled) = Len(queue)
         /\ \A i \in 1..Len(queue) : Cancelled[i].event = queue[i].event
<1>1. CASE queue = <<>>
  BY <1>1 DEF Cancelled, TypeOK
<1>2. CASE queue # <<>>
  <2>1. PitNum \in Nat \ {0} /\ PitDen \in Nat \ {0} /\ PitMax \in Nat /\ ticks \in Int /\ counter \in Int
    BY TimerAssumption DEF TypeOK
  <2> DEFINE c == IF ticks > PitMax THEN ticks - PitMax + pit_get ELSE pit_get
  <2>2. c \in Int
    BY <2>1 DEF pit_get
  <2>3. c * PitDen \in Int
    <3> HIDE DEF c
    <3> QED
      BY <2>1, <2>2
  <2>4. pit_timer_clear \in Int
    BY <2>1, <2>3, QuotientType DEF pit_timer_clear
  <2>5. queue \in Seq(Entry) /\ 1 \in 1..Len(queue) /\ queue[1] \in Entry
    BY <1>2 DEF TypeOK
  <2> DEFINE h == [queue[1] EXCEPT !.usec = @ - pit_timer_clear]
  <2>6. h \in Entry /\ h.event = queue[1].event
    BY <2>4, <2>5 DEF Entry
  <2>7. Cancelled = [queue EXCEPT ![1] = h]
    BY <1>2 DEF Cancelled
  <2> HIDE DEF h
  <2> QED
    BY <2>5, <2>6, <2>7
<1> QED
  BY <1>1, <1>2

LEMMA EventInit == Init => EventInv
<1> SUFFICES ASSUME Init PROVE EventInv
  OBVIOUS
<1>1. queue \in Seq(Entry) /\ firing \in Seq(Entry) /\ DOMAIN queue = {}
  BY DEF Init
<1>2. ticks \in Int /\ counter \in 0..PitMax
  BY TimerAssumption DEF Init
<1>3. status \in [Events -> {"new", "queued", "fired", "deleted"}] /\ \A e \in Events : status[e] # "queued"
  BY DEF Init
<1> QED
  BY <1>1, <1>2, <1>3, Zenon DEF Init, EventInv, TypeOK, Queued

LEMMA TickEvents == EventInv /\ Tick => EventInv'
<1> SUFFICES ASSUME EventInv, Tick PROVE EventInv'
  OBVIOUS
<1>0. PitDen \in Nat /\ PitMax \in Nat
  BY TimerAssumption
<1>1. queue \in Seq(Entry) /\ \A i \in 1..Len(queue) : queue[i] \in Entry
  BY ElementOfSeq, LenProperties DEF EventInv, TypeOK
<1> DEFINE L(i) == [queue[i] EXCEPT !.left = IF @ > PitDen THEN @ - PitDen ELSE 0]
<1>2. \A i \in 1..Len(queue) : L(i) \in Entry /\ L(i).event = queue[i].event
  <2> TAKE i \in 1..Len(queue)
  <2> DEFINE x == queue[i]
             l == IF x.left > PitDen THEN x.left - PitDen ELSE 0
  <2>1. x \in Entry /\ l \in Nat /\ L(i) = [x EXCEPT !.left = l]
    BY <1>0, <1>1 DEF Entry
  <2> HIDE DEF l, x, L
  <2>2. L(i) \in Entry /\ L(i).event = x.event
    BY <2>1 DEF Entry
  <2> QED
    BY <2>2 DEF x
<1>3. queue' = [i \in 1..Len(queue) |-> L(i)]
  BY <1>1 DEF Tick
<1> HIDE DEF L
<1>4. queue' \in Seq(Entry) /\ DOMAIN queue' = DOMAIN queue /\ \A i \in DOMAIN queue : queue'[i].event = queue[i].event
  BY <1>1, <1>2, <1>3
<1>5. /\ counter' \in 0..PitMax /\ out' \in BOOLEAN /\ irq' \in BOOLEAN
      /\ UNCHANGED <<ticks, pit_expire, firing, status, newest>>
  BY <1>0 DEF Tick, EventInv, TypeOK
<1>6. TypeOK'
  BY <1>4, <1>5 DEF EventInv, TypeOK
<1> QED
  BY <1>4, <1>5, <1>6 DEF EventInv, Queued

\* The first event leaves the queue, and is no longer waiting
LEMMA HeadGone ==
  ASSUME EventInv, queue # <<>>, NEW s \in {"fired", "deleted"}, Len(queue') = Len(queue) - 1, queue' \in Seq(Entry),
         \A i \in 1..Len(queue) - 1 : queue'[i].event = queue[i + 1].event,
         status' = [status EXCEPT ![queue[1].event] = s]
  PROVE  Queued'
<1>1. queue \in Seq(Entry) /\ Len(queue) \in Nat \ {0} /\ DOMAIN queue = 1..Len(queue)
      /\ DOMAIN queue' = 1..Len(queue) - 1
  BY DEF EventInv, TypeOK
<1>2. ASSUME NEW i \in DOMAIN queue', NEW j \in DOMAIN queue', queue'[i].event = queue'[j].event
      PROVE  i = j
  <2>1. i + 1 \in DOMAIN queue /\ j + 1 \in DOMAIN queue /\ i \in Int /\ j \in Int
    BY <1>1
  <2>2. queue[i + 1].event = queue[j + 1].event
    BY <1>1, <1>2
  <2>3. i + 1 = j + 1
    BY <2>1, <2>2 DEF EventInv, Queued
  <2> QED
    BY <2>1, <2>3
<1>3. ASSUME NEW e \in Events
      PROVE  status'[e] = "queued" <=> \E i \in DOMAIN queue' : queue'[i].event = e
  <2>1. CASE e = queue[1].event
    <3>1. status'[e] # "queued"
      BY <2>1 DEF EventInv, TypeOK
    <3>2. ASSUME NEW i \in DOMAIN queue', queue'[i].event = e PROVE FALSE
      <4>1. i + 1 \in DOMAIN queue /\ 1 \in DOMAIN queue /\ queue[i + 1].event = queue[1].event /\ i + 1 # 1
        BY <1>1, <2>1, <3>2
      <4> QED
        BY <4>1 DEF EventInv, Queued
    <3> QED
      BY <3>1, <3>2
  <2>2. CASE e # queue[1].event
    <3>1. status'[e] = status[e]
      BY <2>2 DEF EventInv, TypeOK
    <3>2. ASSUME NEW i \in DOMAIN queue, queue[i].event = e PROVE \E j \in DOMAIN queue' : queue'[j].event = e
      <4>1. i # 1 /\ i - 1 \in 1..Len(queue) - 1 /\ (i - 1) + 1 = i
        BY <1>1, <2>2, <3>2
      <4>2. queue'[i - 1].event = queue[(i - 1) + 1].event
        BY <4>1
      <4> QED
        BY <1>1, <3>2, <4>1, <4>2
    <3>3. ASSUME NEW i \in DOMAIN queue', queue'[i].event = e PROVE \E j \in DOMAIN queue : queue[j].event = e
      <4>1. i + 1 \in DOMAIN queue
        BY <1>1
      <4> QED
        BY <1>1, <3>3, <4>1
    <3> QED
      BY <3>1, <3>2, <3>3 DEF EventInv, Queued
  <2> QED
    BY <2>1, <2>2
<1> QED
  BY <1>2, <1>3 DEF Queued

\* An interrupt takes the first event from the queue, or goes on counting.
LEMMA InterruptEvents == EventInv /\ pit_timer_int => EventInv'
<1> SUFFICES ASSUME EventInv, pit_timer_int PROVE EventInv'
  OBVIOUS
<1>0. PitMax \in Nat /\ ticks \in Int /\ counter \in 0..PitMax /\ queue \in Seq(Entry)
  BY TimerAssumption DEF EventInv, TypeOK
<1>1. irq' = FALSE /\ UNCHANGED <<pit_expire, newest>> /\ ticks' \in Int /\ counter' \in 0..PitMax /\ out' \in BOOLEAN
  <2>1. CASE ticks > PitMax
    <3>1. /\ ticks' = ticks - PitMax /\ counter' = (IF ticks' > PitMax THEN PitMax ELSE ticks')
          /\ out' = FALSE /\ irq' = FALSE /\ UNCHANGED <<pit_expire, newest>>
      BY <2>1 DEF pit_timer_int
    <3>2. ticks' \in Int /\ counter' \in 0..PitMax
      BY <1>0, <2>1, <3>1
    <3> QED
      BY <3>1, <3>2, Zenon
  <2>2. CASE ~(ticks > PitMax)
    <3>1. ticks' = 0 /\ counter' = counter /\ out' = out
      BY <2>2 DEF pit_timer_int
    <3> QED
      BY <1>0, <3>1 DEF pit_timer_int, EventInv, TypeOK
  <2> QED
    BY <2>1, <2>2, Zenon
<1>2. CASE ticks <= PitMax /\ pit_expire /\ queue # <<>>
  <2>1. queue' = Tail(queue) /\ firing' = <<queue[1]>> /\ status' = [status EXCEPT ![queue[1].event] = "fired"]
    BY <1>0, <1>2 DEF pit_timer_int
  <2>2. queue' \in Seq(Entry) /\ Len(queue') = Len(queue) - 1 /\ queue[1] \in Entry
        /\ \A i \in 1..Len(queue) - 1 : queue'[i] = queue[i + 1]
    BY <1>0, <1>2, <2>1
  <2>3. Queued'
    BY <1>2, <2>1, <2>2, HeadGone
  <2>4. firing' \in Seq(Entry) /\ queue[1].event \in Events
    BY <2>1, <2>2 DEF Entry
  <2>5. TypeOK'
    BY <1>1, <2>1, <2>2, <2>4, Zenon DEF EventInv, TypeOK
  <2> QED
    BY <2>3, <2>5 DEF EventInv
<1>3. CASE ~(ticks <= PitMax /\ pit_expire /\ queue # <<>>)
  <2>1. UNCHANGED <<queue, firing, status>>
    BY <1>0, <1>3 DEF pit_timer_int
  <2> QED
    BY <1>1, <2>1, Zenon DEF EventInv, TypeOK, Queued
<1> QED
  BY <1>2, <1>3

LEMMA ExpireEvents == EventInv /\ timer_expire => EventInv'
<1> SUFFICES ASSUME EventInv, timer_expire PROVE EventInv'
  OBVIOUS
<1>1. UNCHANGED <<queue, status, newest>> /\ firing' = <<>> /\ firing' \in Seq(Entry)
  BY DEF timer_expire
<1>2. ticks' \in Int /\ counter' \in 0..PitMax /\ pit_expire' \in BOOLEAN /\ out' \in BOOLEAN /\ irq' \in BOOLEAN
  <2>1. CASE queue # <<>>
    <3>1. queue[1] \in Entry
      BY <2>1 DEF EventInv, TypeOK
    <3>2. queue[1].usec \in Int /\ pit_timer_set(queue[1].usec)
      BY <2>1, <3>1 DEF timer_expire, Entry
    <3> QED
      BY <3>2, SetTypes DEF EventInv
  <2>2. CASE queue = <<>>
    BY <2>2 DEF timer_expire, EventInv, TypeOK
  <2> QED
    BY <2>1, <2>2
<1> QED
  BY <1>1, <1>2 DEF EventInv, TypeOK, Queued

\* timer_add: the new event is on the queue once, among the others.
LEMMA AddEvents ==
  ASSUME EventInv, NEW e \in Events, NEW us \in Delays, timer_add(e, us) PROVE EventInv'
<1> DEFINE q == Cancelled
<1>1. TypeOK /\ q \in Seq(Entry) /\ Len(q) = Len(queue) /\ \A i \in 1..Len(queue) : q[i].event = queue[i].event
  BY CancelledIs DEF EventInv
<1>2. /\ status[e] = "new" /\ queue' = Inserted(q, e, us) /\ pit_timer_set(queue'[1].usec)
      /\ status' = [status EXCEPT ![e] = "queued"] /\ newest' = e /\ UNCHANGED firing
  BY DEF timer_add
<1> HIDE DEF q
<1>3. /\ queue' \in Seq(Entry) /\ Len(queue') = Len(q) + 1
      /\ \E i \in 1..Len(q) + 1 :
              /\ queue'[i] = [event |-> e, usec |-> us - Expiry(q, i - 1), left |-> us * PitNum]
              /\ \A j \in 1..i - 1 : queue'[j] = q[j]
              /\ \A j \in i..Len(q) : queue'[j + 1].event = q[j].event
  BY <1>1, <1>2, InsertedIs, Zenon
<1> DEFINE n == Len(queue)
<1>4. n \in Nat /\ DOMAIN queue = 1..n /\ DOMAIN queue' = 1..n + 1
  BY <1>1, <1>3 DEF TypeOK
<1>5. PICK i \in 1..n + 1 : /\ queue'[i].event = e
                            /\ \A j \in 1..i - 1 : queue'[j].event = queue[j].event
                            /\ \A j \in i..n : queue'[j + 1].event = queue[j].event
  <2>1. PICK i \in 1..n + 1 : /\ queue'[i].event = e
                              /\ \A j \in 1..i - 1 : queue'[j] = q[j]
                              /\ \A j \in i..n : queue'[j + 1].event = q[j].event
    BY <1>1, <1>3
  <2>2. (\A j \in 1..i - 1 : j \in 1..n) /\ \A j \in i..n : j \in 1..n
    BY <1>4
  <2> QED
    BY <1>1, <2>1, <2>2
<1> HIDE DEF n
<1>6. ticks' \in Int /\ counter' \in 0..PitMax /\ pit_expire' \in BOOLEAN /\ out' \in BOOLEAN /\ irq' \in BOOLEAN
  <2>1. queue'[1] \in Entry
    BY <1>1, <1>3, <1>4 DEF n
  <2>2. queue'[1].usec \in Int
    BY <2>1 DEF Entry
  <2> QED
    BY <1>1, <1>2, <2>2, SetTypes
<1>7. TypeOK'
  BY <1>1, <1>2, <1>3, <1>6 DEF TypeOK
<1> DEFINE From(j) == IF j < i THEN j ELSE j - 1
<1>8. \A j \in 1..n + 1 : j # i => From(j) \in 1..n /\ queue'[j].event = queue[From(j)].event
  <2> TAKE j \in 1..n + 1
  <2>1. CASE j < i
    BY <1>4, <1>5, <2>1
  <2>2. CASE j > i
    <3>1. j - 1 \in i..n /\ (j - 1) + 1 = j /\ From(j) = j - 1 /\ j - 1 \in 1..n
      BY <1>4, <2>2
    <3> QED
      BY <1>5, <3>1
  <2> QED
    BY <1>4, <2>1, <2>2
<1>9. \A j \in 1..n : queue[j].event # e
  BY <1>2, <1>4 DEF EventInv, Queued
<1>10. \A j, k \in 1..n + 1 : queue'[j].event = queue'[k].event => j = k
  <2> SUFFICES ASSUME NEW j \in 1..n + 1, NEW k \in 1..n + 1, queue'[j].event = queue'[k].event
               PROVE  j = k
    OBVIOUS
  <2>1. j = i <=> k = i
    <3> HIDE DEF From
    <3> QED
      BY <1>5, <1>8, <1>9
  <2>2. CASE j # i /\ k # i
    <3>1. From(j) = From(k)
      <4> HIDE DEF From
      <4> QED
        BY <1>4, <1>8, <2>2 DEF EventInv, Queued
    <3> QED
      BY <1>4, <2>2, <3>1
  <2> QED
    BY <2>1, <2>2
<1>11. \A j \in 1..n : \E k \in 1..n + 1 : queue'[k].event = queue[j].event
  <2> TAKE j \in 1..n
  <2>1. CASE j < i
    BY <1>4, <1>5, <2>1
  <2>2. CASE ~(j < i)
    <3>1. j \in i..n /\ j + 1 \in 1..n + 1
      BY <1>4, <2>2
    <3> QED
      BY <1>5, <3>1
  <2> QED
    BY <2>1, <2>2
<1>12. ASSUME NEW d \in Events
       PROVE  status'[d] = "queued" <=> \E j \in 1..n + 1 : queue'[j].event = d
  <2>1. CASE d = e
    BY <1>1, <1>2, <1>5, <2>1 DEF TypeOK
  <2>2. CASE d # e
    <3>1. status'[d] = status[d]
      BY <1>1, <1>2, <2>2 DEF TypeOK
    <3>2. (\E j \in 1..n + 1 : queue'[j].event = d) <=> \E j \in 1..n : queue[j].event = d
      <4> HIDE DEF From
      <4> QED
        BY <1>5, <1>8, <1>11, <2>2
    <3> QED
      BY <1>4, <3>1, <3>2 DEF EventInv, Queued
  <2> QED
    BY <2>1, <2>2
<1>13. Queued'
  BY <1>4, <1>10, <1>12 DEF Queued
<1> QED
  BY <1>7, <1>13 DEF EventInv

\* timer_delete of the first event: the walk stops at once, so that the list head it
\* writes to is the link it means.
LEMMA DeleteEvents ==
  ASSUME EventInv, DeleteAny = FALSE, NEW e \in Events, timer_delete(e) PROVE EventInv'
<1> DEFINE q == Cancelled
           n == Len(queue)
           r == SubSeq(q, 2, n)
<1>1. TypeOK /\ q \in Seq(Entry) /\ Len(q) = n /\ \A i \in 1..n : q[i].event = queue[i].event
  BY CancelledIs DEF EventInv
<1>2. status[e] = "queued" /\ e = queue[1].event /\ status' = [status EXCEPT ![e] = "deleted"]
      /\ newest' = NULL /\ UNCHANGED firing
  BY DEF timer_delete
<1>3. n \in Nat \ {0} /\ DOMAIN queue = 1..n /\ queue # <<>>
  BY <1>1, <1>2 DEF EventInv, Queued, TypeOK
<1>4. (CHOOSE i \in DOMAIN queue : queue[i].event = e) = 1
  <2>1. 1 \in DOMAIN queue
    BY <1>3
  <2> QED
    BY <1>2, <2>1 DEF EventInv, Queued
<1> HIDE DEF q
<1>5. q[1] \in Entry
  BY <1>1, <1>3
<1>6. r \in Seq(Entry) /\ Len(r) = n - 1 /\ \A i \in 1..n - 1 : r[i] = q[i + 1]
  BY <1>1, <1>3
<1>7. /\ queue' = IF r = <<>> THEN r ELSE [r EXCEPT ![1].usec = @ + q[1].usec]
      /\ IF r # <<>> THEN pit_timer_set(queue'[1].usec)
         ELSE ticks' = 0 /\ pit_expire' = FALSE /\ UNCHANGED <<counter, out, irq>>
  <2> DEFINE c == CHOOSE i \in DOMAIN queue : queue[i].event = e
             R(i) == SubSeq(q, i + 1, Len(q))
  <2>1. /\ queue' = IF R(c) = <<>> THEN R(c) ELSE [R(c) EXCEPT ![1].usec = @ + q[c].usec]
        /\ IF R(c) # <<>> THEN pit_timer_set(queue'[1].usec)
           ELSE ticks' = 0 /\ pit_expire' = FALSE /\ UNCHANGED <<counter, out, irq>>
    BY Zenon DEF timer_delete, q
  <2>2. c = 1
    BY <1>4
  <2> HIDE DEF c
  <2>3. R(c) = r
    BY <1>1, <2>2
  <2> HIDE DEF R, r
  <2> QED
    BY <2>1, <2>2, <2>3
<1> HIDE DEF r, n
<1>8. queue' \in Seq(Entry) /\ Len(queue') = n - 1 /\ \A i \in 1..n - 1 : queue'[i].event = queue[i + 1].event
  <2>1. \A i \in 1..n - 1 : r[i].event = queue[i + 1].event
    BY <1>1, <1>3, <1>6
  <2>2. CASE r = <<>>
    BY <1>6, <1>7, <2>1, <2>2
  <2>3. CASE r # <<>>
    <3>1. r[1] \in Entry /\ 1 \in 1..n - 1
      BY <1>3, <1>6, <2>3
    <3> DEFINE h == [r[1] EXCEPT !.usec = @ + q[1].usec]
    <3>2. h \in Entry /\ h.event = r[1].event
      BY <1>5, <3>1 DEF Entry
    <3>3. queue' = [r EXCEPT ![1] = h]
      BY <1>7, <2>3
    <3> HIDE DEF h
    <3> QED
      BY <1>6, <2>1, <3>1, <3>2, <3>3
  <2> QED
    BY <2>2, <2>3
<1>9. Queued'
  BY <1>2, <1>3, <1>8, HeadGone DEF n
<1>10. ticks' \in Int /\ counter' \in 0..PitMax /\ pit_expire' \in BOOLEAN /\ out' \in BOOLEAN /\ irq' \in BOOLEAN
  <2>1. CASE r = <<>>
    <3>1. ticks' = 0 /\ pit_expire' = FALSE /\ UNCHANGED <<counter, out, irq>>
      BY <1>7, <2>1
    <3>2. ticks' \in Int
      BY <3>1
    <3> QED
      BY <1>1, <3>1, <3>2, Zenon DEF TypeOK
  <2>2. CASE r # <<>>
    <3>1. queue'[1] \in Entry
      BY <1>3, <1>6, <1>8, <2>2
    <3>2. queue'[1].usec \in Int /\ pit_timer_set(queue'[1].usec)
      BY <1>7, <2>2, <3>1 DEF Entry
    <3> QED
      BY <1>1, <3>2, SetTypes
  <2> QED
    BY <2>1, <2>2
<1>11. TypeOK'
  BY <1>1, <1>2, <1>8, <1>10 DEF TypeOK
<1> QED
  BY <1>9, <1>11 DEF EventInv

\* When only the first event is ever deleted, an event that was added, and neither fired
\* nor was deleted, is on the queue, once, and no other is: for any events and delays.
\* (timer_delete of another event loses those before it.)
THEOREM NoEventLostCorrect ==
  ASSUME DeleteAny = FALSE
  PROVE  Spec => []NoEventLost
<1>1. EventInv /\ [Next]_vars => EventInv'
  <2> SUFFICES ASSUME EventInv, [Next]_vars PROVE EventInv'
    OBVIOUS
  <2>1. CASE UNCHANGED vars
    BY <2>1 DEF vars, EventInv, TypeOK, Queued
  <2>2. CASE Next
    BY <2>2, TickEvents, InterruptEvents, ExpireEvents, AddEvents, DeleteEvents, Zenon DEF Next
  <2> QED
    BY <2>1, <2>2
<1>2. EventInv => NoEventLost
  <2> SUFFICES ASSUME EventInv, NEW e \in Events
               PROVE  Cardinality({i \in DOMAIN queue : queue[i].event = e})
                        = IF status[e] = "queued" THEN 1 ELSE 0
    BY DEF EventInv, NoEventLost
  <2> DEFINE At == {i \in DOMAIN queue : queue[i].event = e}
  <2>1. CASE status[e] = "queued"
    <3>1. PICK i \in DOMAIN queue : queue[i].event = e
      BY <2>1 DEF EventInv, Queued
    <3>2. At = {i}
      BY <3>1 DEF EventInv, Queued
    <3> QED
      BY <2>1, <3>2, FS_Singleton, Zenon
  <2>2. CASE status[e] # "queued"
    <3>1. At = {}
      BY <2>2 DEF EventInv, Queued
    <3> QED
      BY <2>2, <3>1, FS_EmptySet
  <2> QED
    BY <2>1, <2>2
<1> QED
  BY EventInit, <1>1, <1>2, PTL DEF Spec

-----------------------------------------------------------------------------
\* The newest event

\* Expiries of a queue that has the delays of another one, d places further on
LEMMA ExpiryShift ==
  ASSUME NEW q \in Seq(Entry), NEW r \in Seq(Entry), NEW d \in Nat, NEW n \in Nat, n <= Len(r), n + d <= Len(q),
         \A j \in 1..n : r[j].usec = q[j + d].usec
  PROVE  \A j \in 0..n : Expiry(r, j) = Expiry(q, j + d) - Expiry(q, d)
<1> DEFINE Bad == {j \in 0..n : Expiry(r, j) # Expiry(q, j + d) - Expiry(q, d)}
<1>0. Len(q) \in Nat /\ Len(r) \in Nat
  BY LenProperties
<1> SUFFICES ASSUME Bad # {} PROVE FALSE
  OBVIOUS
<1>1. PICK m \in Bad : \A k \in Bad : m <= k
  <2>1. Bad \in SUBSET Nat
    OBVIOUS
  <2> HIDE DEF Bad
  <2> QED
    BY <2>1, LeastNatural
<1>2. /\ Expiry(r, 0) = 0 /\ \A j \in 1..Len(r) : Expiry(r, j) = Expiry(r, j - 1) + r[j].usec
      /\ \A j \in 1..Len(q) : Expiry(q, j) = Expiry(q, j - 1) + q[j].usec
      /\ \A j \in 0..Len(q) : Expiry(q, j) \in Int
  BY ExpiryIs
<1>3. \A j \in 1..Len(q) : q[j].usec \in Int
  <2>1. \A j \in 1..Len(q) : q[j] \in Entry
    BY ElementOfSeq, LenProperties, Zenon
  <2> QED
    BY <2>1 DEF Entry
<1>4. m # 0
  <2>1. d \in 0..Len(q) /\ 0 + d = d
    BY <1>0
  <2>2. Expiry(q, d) \in Int
    BY <1>2, <2>1
  <2>3. Expiry(r, 0) = Expiry(q, 0 + d) - Expiry(q, d)
    BY <1>2, <2>1, <2>2
  <2> QED
    BY <2>3
<1>5. m \in 1..n /\ m - 1 \in 0..n /\ ~(m <= m - 1) /\ m \in 1..Len(r) /\ m + d \in 1..Len(q) /\ (m - 1) + d \in 0..Len(q)
      /\ (m + d) - 1 = (m - 1) + d /\ d \in 0..Len(q)
  BY <1>0, <1>4
<1>6. Expiry(r, m - 1) = Expiry(q, (m - 1) + d) - Expiry(q, d)
  BY <1>1, <1>5
<1>7. Expiry(r, m) = Expiry(r, m - 1) + q[m + d].usec /\ Expiry(q, m + d) = Expiry(q, (m - 1) + d) + q[m + d].usec
  BY <1>2, <1>5
<1>8. Expiry(q, (m - 1) + d) \in Int /\ Expiry(q, d) \in Int /\ q[m + d].usec \in Int
  BY <1>2, <1>3, <1>5
<1> QED
  BY <1>6, <1>7, <1>8

\* Multiplication keeps the order, and is distributive
LEMMA Scaled == \A c \in Nat : \A a, b \in Int : a <= b => c * a <= c * b
OBVIOUS

LEMMA Distributed == \A c \in Nat : \A a, b \in Int : c * (a + b) = c * a + c * b /\ c * (a - b) = c * a - c * b
                                                      /\ c * a \in Int
OBVIOUS

\* The ticks that pit_timer_set counts are as many as the delay takes, but for a part of one.
LEMMA QuotientBound ==
  ASSUME NEW a \in Int, NEW b \in Nat \ {0}
  PROVE  a <= b * Quotient(a, b) + (b - 1)
<1>1. CASE a >= 0
  <2> DEFINE t == a \div b
  <2>1. t \in Int /\ a < b * t + b
    BY <1>1
  <2> HIDE DEF t
  <2> QED
    BY <1>1, <2>1 DEF Quotient, t
<1>2. CASE a < 0
  <2> DEFINE t == (-a) \div b
  <2>1. t \in Int /\ b * t <= -a
    BY <1>2
  <2> HIDE DEF t
  <2>2. Quotient(a, b) = -t
    BY <1>2 DEF Quotient, t
  <2>3. b * (-t) = -(b * t) /\ b * t \in Int
    BY <2>1
  <2> QED
    BY <2>1, <2>2, <2>3
<1> QED
  BY <1>1, <1>2

\* The ticks to the end of the delay: those to the next interrupt, and those that are
\* given to the chip after it
Wait ==
  (IF irq \/ out THEN 0 ELSE IF counter = 0 THEN PitMax + 1 ELSE counter)
    + (IF ticks > PitMax THEN ticks - PitMax ELSE 0)

\* The i-th event of q is due when the delays up to it are over, but for a part of a tick
\* that each programming of the timer before it has rounded off: when the timer is yet to
\* be programmed for the first event, and when it has w ticks to go
Waiting(q, i) ==
  q[i].left = 0 \/ q[i].left <= PitNum * Expiry(q, i) + (PitDen - 1) * (Cardinality(Events) - i)
Counting(q, i, w) ==
  q[i].left = 0 \/ q[i].left <= PitDen * w + PitNum * (Expiry(q, i) - q[1].usec)
                                  + (PitDen - 1) * ((Cardinality(Events) - i) + 1)

NewestInv ==
  /\ \A i \in DOMAIN queue : queue[i].event = newest =>
       IF firing = <<>> THEN Counting(queue, i, Wait) ELSE Waiting(queue, i)
  /\ firing # <<>> => status[firing[1].event] = "fired"
  /\ NewestNotEarly

\* Numbers the bounds are made of
LEMMA BoundTypes ==
  ASSUME NEW q \in Seq(Entry), NEW i \in 1..Len(q)
  PROVE  /\ Len(q) \in Nat /\ i \in Int /\ 1 \in 1..Len(q) /\ q[1].usec \in Int /\ q[i].left \in Nat
         /\ Expiry(q, i) \in Int /\ Expiry(q, 1) = q[1].usec /\ Cardinality(Events) \in Nat
         /\ PitNum \in Nat /\ PitDen \in Nat /\ PitDen - 1 \in Nat
<1>1. Len(q) \in Nat /\ \A j \in 1..Len(q) : q[j] \in Entry
  BY ElementOfSeq, LenProperties, Zenon
<1>2. 1 \in 1..Len(q) /\ i \in 0..Len(q) /\ i \in Int
  BY <1>1
<1>3. q[1].usec \in Int /\ q[i].left \in Nat
  BY <1>1, <1>2 DEF Entry
<1>4. Expiry(q, i) \in Int /\ Expiry(q, 0) = 0 /\ Expiry(q, 1) = Expiry(q, 1 - 1) + q[1].usec
  BY <1>2, ExpiryIs
<1>5. Expiry(q, 1) = q[1].usec
  BY <1>3, <1>4
<1>6. Cardinality(Events) \in Nat
  BY TimerAssumption, FS_CardinalityType
<1>7. PitNum \in Nat /\ PitDen \in Nat /\ PitDen - 1 \in Nat
  BY TimerAssumption
<1> QED
  BY <1>1, <1>2, <1>3, <1>4, <1>5, <1>6, <1>7

\* Programming the timer for the first event
LEMMA Programmed ==
  ASSUME NEW q \in Seq(Entry), NEW i \in 1..Len(q), Waiting(q, i), NEW w \in Int,
         PitNum * q[1].usec <= PitDen * w + (PitDen - 1)
  PROVE  Counting(q, i, w)
<1> DEFINE c == PitDen - 1
           s == Cardinality(Events) - i
           x == Expiry(q, i)
           u == q[1].usec
<1>0. c \in Nat /\ x \in Int /\ u \in Int /\ PitNum \in Nat /\ PitDen \in Nat /\ q[i].left \in Nat /\ i \in Int
      /\ Cardinality(Events) \in Nat
  BY BoundTypes, Zenon
<1>1. c \in Nat /\ s \in Int /\ x \in Int /\ u \in Int /\ PitNum \in Nat /\ PitDen \in Nat /\ q[i].left \in Nat
  BY <1>0
<1>2. q[i].left = 0 \/ q[i].left <= PitNum * x + c * s
  BY DEF Waiting
<1>3. Counting(q, i, w) <=> q[i].left = 0 \/ q[i].left <= PitDen * w + PitNum * (x - u) + c * (s + 1)
  BY DEF Counting
<1>4. PitNum * u <= PitDen * w + c
  OBVIOUS
<1> HIDE DEF c, s, x, u
<1>5. PitNum * (x - u) = PitNum * x - PitNum * u /\ c * (s + 1) = c * s + c * 1 /\ c * 1 = c
      /\ PitNum * x \in Int /\ PitNum * u \in Int /\ c * s \in Int /\ PitDen * w \in Int
  BY <1>1, Distributed
<1> QED
  BY <1>1, <1>2, <1>3, <1>4, <1>5

\* A longer way to go keeps the bound.
LEMMA CountingLonger ==
  ASSUME NEW q \in Seq(Entry), NEW i \in 1..Len(q), NEW v \in Int, NEW w \in Int, v <= w, Counting(q, i, v)
  PROVE  Counting(q, i, w)
<1> DEFINE y == PitNum * (Expiry(q, i) - q[1].usec)
           z == (PitDen - 1) * ((Cardinality(Events) - i) + 1)
<1>1. y \in Int /\ z \in Int /\ q[i].left \in Nat /\ PitDen \in Nat
  <2>1. Expiry(q, i) \in Int /\ q[1].usec \in Int /\ PitNum \in Nat /\ PitDen - 1 \in Nat /\ PitDen \in Nat /\ i \in Int
        /\ Cardinality(Events) \in Nat /\ q[i].left \in Nat
    BY BoundTypes, Zenon
  <2>2. Expiry(q, i) - q[1].usec \in Int /\ (Cardinality(Events) - i) + 1 \in Int
    BY <2>1
  <2> QED
    BY <2>1, <2>2, Distributed, Zenon
<1>2. PitDen * v <= PitDen * w /\ PitDen * v \in Int /\ PitDen * w \in Int
  BY <1>1, Scaled
<1>3. /\ q[i].left = 0 \/ q[i].left <= PitDen * v + y + z
      /\ Counting(q, i, w) <=> q[i].left = 0 \/ q[i].left <= PitDen * w + y + z
  BY DEF Counting
<1> HIDE DEF y, z
<1> QED
  BY <1>1, <1>2, <1>3

LEMMA WaitType == ASSUME TypeOK PROVE Wait \in Nat
BY TimerAssumption DEF TypeOK, Wait

LEMMA WaitTypeNext == ASSUME TypeOK' PROVE Wait' \in Nat
<1> DEFINE a == IF irq' \/ out' THEN 0 ELSE IF counter' = 0 THEN PitMax + 1 ELSE counter'
           b == IF ticks' > PitMax THEN ticks' - PitMax ELSE 0
<1>1. ticks' \in Int /\ counter' \in 0..PitMax /\ PitMax \in Nat
  BY TimerAssumption DEF TypeOK
<1>2. a \in Nat /\ b \in Nat
  <2> DEFINE c == counter'
             t == ticks'
  <2>1. c \in 0..PitMax /\ t \in Int /\ PitMax \in Nat
    BY <1>1
  <2> HIDE DEF c, t
  <2>2. (IF c = 0 THEN PitMax + 1 ELSE c) \in Nat /\ (IF t > PitMax THEN t - PitMax ELSE 0) \in Nat
    BY <2>1
  <2> QED
    BY <2>2 DEF c, t
<1>3. Wait' = a + b
  BY DEF Wait
<1> HIDE DEF a, b
<1> QED
  BY <1>2, <1>3

\* pit_timer_set gives the chip a delay that is not shorter, but for a part of a tick.
LEMMA SetWaits ==
  ASSUME TypeOK, Latched = FALSE, NEW us \in Int, pit_timer_set(us)
  PROVE  Wait' \in Int /\ PitNum * us <= PitDen * Wait' + (PitDen - 1)
<1> DEFINE t == Quotient(PitNum * us, PitDen)
<1>0. PitNum \in Nat /\ PitDen \in Nat \ {0} /\ PitMax \in Nat
  BY TimerAssumption
<1>1. PitNum * us \in Int
  BY <1>0
<1>2. t \in Int /\ PitNum * us <= PitDen * t + (PitDen - 1)
  BY <1>0, <1>1, QuotientType, QuotientBound
<1> HIDE DEF t
<1>3. /\ ticks' = t /\ counter' = (IF t > PitMax THEN PitMax ELSE t % (PitMax + 1))
      /\ out' = FALSE /\ irq' = FALSE
  BY DEF pit_timer_set, pit_set, t
<1>4. Wait' = (IF counter' = 0 THEN PitMax + 1 ELSE counter') + (IF t > PitMax THEN t - PitMax ELSE 0)
  BY <1>3 DEF Wait
<1>5. Wait' \in Int /\ t <= Wait'
  <2>1. CASE t > PitMax
    BY <1>0, <1>2, <1>3, <1>4, <2>1
  <2>2. CASE ~(t > PitMax)
    <3> DEFINE m == PitMax + 1
               c == t % m
    <3>1. c \in 0..m - 1 /\ (t \in 0..m - 1 => c = t) /\ m \in Nat
      BY <1>0, <1>2
    <3>2. Wait' = (IF c = 0 THEN PitMax + 1 ELSE c) + 0
      BY <1>3, <1>4, <2>2
    <3> HIDE DEF c
    <3> QED
      BY <1>0, <1>2, <2>2, <3>1, <3>2
  <2> QED
    BY <2>1, <2>2
<1>6. PitDen * t <= PitDen * Wait'
  BY <1>0, <1>2, <1>5, Scaled
<1> DEFINE p == PitNum * us
           a == PitDen * t
           b == PitDen * Wait'
<1>7. p \in Int /\ a \in Int /\ b \in Int /\ p <= a + (PitDen - 1) /\ a <= b
  BY <1>0, <1>1, <1>2, <1>5, <1>6, Distributed
<1> HIDE DEF p, a, b
<1>8. p <= b + (PitDen - 1)
  BY <1>0, <1>7
<1> QED
  BY <1>5, <1>8 DEF p, b

\* A tick brings every event, and the end of the delay, a tick nearer.
LEMMA TickNewest ==
  ASSUME EventInv, EventInv', NewestInv, Tick PROVE NewestInv'
<1>0. PitDen \in Nat /\ PitMax \in Nat \ {0} /\ PitDen - 1 \in Nat
  BY TimerAssumption
<1>1. queue \in Seq(Entry) /\ queue' \in Seq(Entry) /\ TypeOK /\ TypeOK' /\ \A i \in 1..Len(queue) : queue[i] \in Entry
  BY ElementOfSeq, LenProperties DEF EventInv, TypeOK
<1>2. /\ Len(queue') = Len(queue) /\ DOMAIN queue' = DOMAIN queue /\ DOMAIN queue = 1..Len(queue) /\ Len(queue) \in Nat
      /\ \A i \in 1..Len(queue) : queue'[i] = [queue[i] EXCEPT !.left = IF @ > PitDen THEN @ - PitDen ELSE 0]
  BY <1>1 DEF Tick
<1>3. \A i \in 1..Len(queue) :
        /\ queue'[i].event = queue[i].event /\ queue'[i].usec = queue[i].usec
        /\ queue'[i].left = 0 \/ queue'[i].left = queue[i].left - PitDen
  <2> TAKE i \in 1..Len(queue)
  <2> DEFINE x == queue[i]
             l == IF x.left > PitDen THEN x.left - PitDen ELSE 0
  <2>1. x \in Entry /\ queue'[i] = [x EXCEPT !.left = l] /\ (l = 0 \/ l = x.left - PitDen)
    BY <1>1, <1>2
  <2> HIDE DEF l, x
  <2>2. queue'[i].event = x.event /\ queue'[i].usec = x.usec /\ queue'[i].left = l
    BY <2>1 DEF Entry
  <2> QED
    BY <2>1, <2>2 DEF x
<1>4. UNCHANGED <<ticks, pit_expire, firing, status, newest>>
  BY DEF Tick
<1>5. Wait \in Int /\ Wait' \in Int /\ Wait - 1 <= Wait'
  <2>1. Wait \in Int /\ Wait' \in Int
    BY <1>1, WaitType, WaitTypeNext
  <2>2. counter \in 0..PitMax /\ out \in BOOLEAN /\ irq \in BOOLEAN /\ ticks \in Int
    BY <1>1 DEF TypeOK
  <2>3. CASE irq \/ out
    BY <1>0, <1>4, <2>2, <2>3 DEF Tick, Wait
  <2>4. CASE ~irq /\ ~out /\ counter = 0
    <3>1. (counter - 1) % (PitMax + 1) = PitMax
      BY <1>0, <2>4
    <3> QED
      BY <1>0, <1>4, <2>2, <2>4, <3>1 DEF Tick, Wait
  <2>5. CASE ~irq /\ ~out /\ counter # 0
    <3>1. (counter - 1) % (PitMax + 1) = counter - 1
      BY <1>0, <2>2, <2>5
    <3> QED
      BY <1>0, <1>4, <2>2, <2>5, <3>1 DEF Tick, Wait
  <2> QED
    BY <2>1, <2>2, <2>3, <2>4, <2>5
<1>6. ASSUME NEW i \in 1..Len(queue) PROVE Expiry(queue', i) = Expiry(queue, i)
  <2>1. \A j \in 0..Len(queue) : Expiry(queue', j) = Expiry(queue, j + 0) - Expiry(queue, 0)
    <3>1. \A j \in 1..Len(queue) : j + 0 = j /\ queue'[j].usec = queue[j + 0].usec
      BY <1>3
    <3> QED
      BY <1>1, <1>2, <3>1, ExpiryShift
  <2>2. i \in 0..Len(queue) /\ i + 0 = i
    BY <1>2
  <2>3. Expiry(queue, i) \in Int /\ Expiry(queue, 0) = 0
    BY <1>1, <2>2, ExpiryIs
  <2> QED
    BY <2>1, <2>2, <2>3
<1>7. ASSUME NEW i \in 1..Len(queue), queue[i].event = newest
      PROVE  IF firing = <<>> THEN Counting(queue', i, Wait') ELSE Waiting(queue', i)
  <2> DEFINE x == Expiry(queue, i)
             u == queue[1].usec
             y == PitNum * (x - u)
             z == (PitDen - 1) * ((Cardinality(Events) - i) + 1)
             a == PitNum * x + (PitDen - 1) * (Cardinality(Events) - i)
  <2>1. /\ x \in Int /\ u \in Int /\ PitNum \in Nat /\ Cardinality(Events) \in Nat /\ i \in Int /\ queue[i].left \in Nat
        /\ 1 \in 1..Len(queue)
    BY <1>1, BoundTypes, Zenon
  <2>2. queue'[1].usec = u /\ Expiry(queue', i) = x
    BY <1>3, <1>6, <2>1
  <2>3. CASE firing = <<>>
    <3>1. queue[i].left = 0 \/ queue[i].left <= PitDen * Wait + y + z
      BY <1>2, <1>7, <2>3 DEF NewestInv, Counting
    <3>2. Counting(queue', i, Wait') <=> queue'[i].left = 0 \/ queue'[i].left <= PitDen * Wait' + y + z
      BY <2>2 DEF Counting
    <3>3. y \in Int /\ z \in Int
      <4>1. x - u \in Int /\ (Cardinality(Events) - i) + 1 \in Int
        BY <2>1
      <4> QED
        BY <1>0, <2>1, <4>1, Distributed, Zenon
    <3> DEFINE v == PitDen * Wait
               w == PitDen * Wait'
    <3>4. v - PitDen <= w /\ v \in Int /\ w \in Int
      <4>1. Wait - 1 \in Int /\ 1 \in Int /\ PitDen * 1 = PitDen
        BY <1>0, <1>5
      <4>2. PitDen * (Wait - 1) <= w /\ PitDen * (Wait - 1) = v - PitDen * 1 /\ v \in Int /\ w \in Int
        BY <1>0, <1>5, <4>1, Scaled, Distributed, Zenon
      <4> QED
        BY <4>1, <4>2, Zenon
    <3> DEFINE l == queue[i].left
               k == queue'[i].left
    <3>5. (k = 0 \/ k = l - PitDen) /\ l \in Nat /\ (l = 0 \/ l <= v + y + z) /\ k \in Nat
      <4>1. queue'[i].left \in Nat
        BY <1>1, <1>2, ElementOfSeq DEF Entry
      <4> QED
        BY <1>3, <2>1, <3>1, <4>1
    <3> HIDE DEF y, z, x, u, v, w, l, k
    <3>6. k = 0 \/ k <= w + y + z
      BY <1>0, <3>3, <3>4, <3>5
    <3>7. Counting(queue', i, Wait')
      BY <3>2, <3>6 DEF w, k
    <3> QED
      BY <2>3, <3>7
  <2>4. CASE firing # <<>>
    <3>1. queue[i].left = 0 \/ queue[i].left <= a
      BY <1>2, <1>7, <2>4 DEF NewestInv, Waiting
    <3>2. Waiting(queue', i) <=> queue'[i].left = 0 \/ queue'[i].left <= a
      BY <2>2 DEF Waiting
    <3>3. a \in Int
      <4>1. PitNum * x \in Int /\ Cardinality(Events) - i \in Int
        BY <2>1
      <4>2. (PitDen - 1) * (Cardinality(Events) - i) \in Int
        BY <1>0, <4>1, Distributed, Zenon
      <4> QED
        BY <4>1, <4>2
    <3> HIDE DEF a
    <3> DEFINE l == queue[i].left
               k == queue'[i].left
    <3>4. (k = 0 \/ k = l - PitDen) /\ l \in Nat /\ (l = 0 \/ l <= a) /\ k \in Nat
      <4>1. queue'[i].left \in Nat
        BY <1>1, <1>2, ElementOfSeq DEF Entry
      <4> QED
        BY <1>3, <2>1, <3>1, <4>1
    <3> HIDE DEF l, k
    <3>5. k = 0 \/ k <= a
      BY <1>0, <3>3, <3>4
    <3>6. Waiting(queue', i)
      BY <3>2, <3>5 DEF k
    <3> QED
      BY <2>4, <3>6
  <2> QED
    BY <2>3, <2>4
<1> QED
  BY <1>2, <1>3, <1>4, <1>7 DEF NewestInv, NewestNotEarly

\* Events that are finite and not none
LEMMA SomeEvents == ASSUME NEW e \in Events PROVE Cardinality(Events) \in Nat /\ Cardinality(Events) >= 1
<1>1. IsFiniteSet(Events)
  BY TimerAssumption
<1>2. Cardinality(Events) \in Nat /\ (Cardinality(Events) = 0 <=> Events = {})
  BY <1>1, FS_CardinalityType, FS_EmptySet, Zenon
<1> QED
  BY <1>2

\* The first event is taken off when the delay is over; an interrupt before that starts
\* the next part of the delay.
LEMMA InterruptNewest ==
  ASSUME EventInv, EventInv', NewestInv, pit_timer_int PROVE NewestInv'
<1>0. PitDen \in Nat /\ PitMax \in Nat \ {0} /\ PitDen - 1 \in Nat /\ PitNum \in Nat
  BY TimerAssumption
<1>1. queue \in Seq(Entry) /\ queue' \in Seq(Entry) /\ TypeOK /\ TypeOK' /\ ticks \in Int
  BY DEF EventInv, TypeOK
<1>2. Wait \in Int /\ Wait' \in Int /\ 0 <= Wait'
  BY <1>1, WaitType, WaitTypeNext
<1>3. irq /\ firing = <<>> /\ irq' = FALSE /\ newest' = newest
  BY DEF pit_timer_int
<1>4. DOMAIN queue = 1..Len(queue) /\ \A i \in 1..Len(queue) : queue[i].event = newest => Counting(queue, i, Wait)
  BY <1>1, <1>3 DEF NewestInv
<1>5. CASE ticks > PitMax
  <2>1. /\ ticks' = ticks - PitMax /\ counter' = (IF ticks' > PitMax THEN PitMax ELSE ticks') /\ out' = FALSE
        /\ queue' = queue /\ firing' = <<>>
    BY <1>3, <1>5 DEF pit_timer_int
  <2>2. Wait = ticks - PitMax
    BY <1>0, <1>1, <1>3, <1>5 DEF Wait
  <2>3. Wait' = ticks - PitMax
    <3>1. Wait' = (IF counter' = 0 THEN PitMax + 1 ELSE counter') + (IF ticks' > PitMax THEN ticks' - PitMax ELSE 0)
      BY <1>3, <2>1 DEF Wait
    <3> QED
      BY <1>0, <1>1, <1>5, <2>1, <3>1
  <2> QED
    BY <1>3, <1>4, <2>1, <2>2, <2>3, Zenon DEF NewestInv, NewestNotEarly
<1>6. CASE ~(ticks > PitMax) /\ pit_expire /\ queue # <<>>
  <2> DEFINE s == Cardinality(Events)
  <2>1. queue' = Tail(queue) /\ firing' = <<queue[1]>> /\ status' = [status EXCEPT ![queue[1].event] = "fired"]
    BY <1>6 DEF pit_timer_int
  <2>2. Wait = 0
    BY <1>3, <1>6 DEF Wait
  <2>3. Len(queue) \in Nat \ {0} /\ Len(queue') = Len(queue) - 1 /\ DOMAIN queue' = 1..Len(queue')
        /\ \A i \in 1..Len(queue') : queue'[i] = queue[i + 1]
    BY <1>1, <1>6, <2>1
  <2>4. 1 \in 1..Len(queue) /\ queue[1] \in Entry /\ queue[1].event \in Events /\ queue[1].left \in Nat
        /\ firing' # <<>> /\ firing'[1] = queue[1]
    <3>1. 1 \in 1..Len(queue)
      BY <2>3
    <3>2. queue[1] \in Entry
      BY <1>1, <3>1, ElementOfSeq, Zenon
    <3>3. firing' # <<>> /\ firing'[1] = queue[1]
      BY <2>1
    <3> QED
      BY <3>1, <3>2, <3>3 DEF Entry
  <2>5. status'[firing'[1].event] = "fired"
    BY <1>1, <2>1, <2>4 DEF TypeOK
  <2>6. s \in Nat /\ s >= 1
    BY <2>4, SomeEvents
  <2>7. queue[1].event = newest => queue[1].left < PitDen * s
    <3> SUFFICES ASSUME queue[1].event = newest PROVE queue[1].left < PitDen * s
      OBVIOUS
    <3>1. Counting(queue, 1, 0)
      BY <1>4, <2>2, <2>4
    <3>2. Expiry(queue, 1) = queue[1].usec /\ queue[1].usec \in Int
      BY <1>1, <2>4, BoundTypes, Zenon
    <3>3. queue[1].left = 0 \/ queue[1].left <= PitDen * 0 + PitNum * (queue[1].usec - queue[1].usec) + (PitDen - 1) * ((s - 1) + 1)
      BY <3>1, <3>2 DEF Counting
    <3>4. queue[1].usec - queue[1].usec = 0 /\ PitDen * 0 = 0 /\ PitNum * 0 = 0 /\ (s - 1) + 1 = s
      BY <1>0, <2>6, <3>2
    <3> HIDE DEF s
    <3>5. queue[1].left = 0 \/ queue[1].left <= 0 + 0 + (PitDen - 1) * s
      BY <3>3, <3>4, Zenon
    <3>6. s * (PitDen - 1) = s * PitDen - s * 1 /\ s * PitDen \in Int /\ s * 1 = s /\ 1 \in Int /\ s * PitDen = PitDen * s
          /\ s * (PitDen - 1) = (PitDen - 1) * s /\ 1 <= PitDen
      BY <1>0, <2>6, Distributed
    <3>7. s * 1 <= s * PitDen
      BY <1>0, <2>6, <3>6, Scaled
    <3> DEFINE a == PitDen * s
               b == (PitDen - 1) * s
               l == queue[1].left
    <3>8. b = a - s /\ a \in Int /\ s <= a /\ (l = 0 \/ l <= b) /\ l \in Nat
      <4>1. b = a - s /\ a \in Int /\ s <= a
        BY <3>6, <3>7, Zenon
      <4> HIDE DEF a, b
      <4>2. b \in Int
        BY <4>1, <2>6
      <4>3. l = 0 \/ l <= 0 + 0 + b
        BY <3>5 DEF b
      <4> QED
        BY <2>4, <4>1, <4>2, <4>3
    <3> HIDE DEF a, b, l
    <3>9. l < a
      BY <2>6, <3>8
    <3> QED
      BY <3>9 DEF l, a
  <2>8. ASSUME NEW i \in 1..Len(queue'), queue'[i].event = newest PROVE Waiting(queue', i)
    <3>1. i \in Int /\ i + 1 \in 1..Len(queue) /\ queue'[i] = queue[i + 1] /\ i \in 0..Len(queue')
      BY <2>3
    <3>2. Counting(queue, i + 1, 0)
      BY <1>4, <2>2, <2>8, <3>1, Zenon
    <3>3. Expiry(queue', i) = Expiry(queue, i + 1) - queue[1].usec
      <4>1. \A j \in 1..Len(queue') : queue'[j].usec = queue[j + 1].usec
        BY <2>3
      <4>2. Len(queue') \in Nat /\ Len(queue') <= Len(queue') /\ Len(queue') + 1 <= Len(queue) /\ 1 \in Nat
        BY <2>3
      <4>3. \A j \in 0..Len(queue') : Expiry(queue', j) = Expiry(queue, j + 1) - Expiry(queue, 1)
        BY <1>1, <4>1, <4>2, ExpiryShift, Zenon
      <4>4. Expiry(queue, 1) = queue[1].usec
        BY <1>1, <2>4, BoundTypes, Zenon
      <4> QED
        BY <3>1, <4>3, <4>4, Zenon
    <3>4. (s - (i + 1)) + 1 = s - i /\ s - i \in Int /\ PitDen * 0 = 0
      BY <1>0, <2>6, <3>1
    <3> DEFINE x == PitNum * (Expiry(queue, i + 1) - queue[1].usec)
               z == (PitDen - 1) * (s - i)
    <3>5. x \in Int /\ z \in Int
      <4>1. Expiry(queue, i + 1) \in Int /\ queue[1].usec \in Int
        BY <1>1, <3>1, BoundTypes, Zenon
      <4>2. Expiry(queue, i + 1) - queue[1].usec \in Int
        BY <4>1
      <4> QED
        BY <1>0, <3>4, <4>2, Distributed, Zenon
    <3>6. queue[i + 1].left = 0 \/ queue[i + 1].left <= 0 + x + z
      BY <3>2, <3>4, Zenon DEF Counting
    <3>7. Waiting(queue', i) <=> queue[i + 1].left = 0 \/ queue[i + 1].left <= x + z
      BY <3>1, <3>3 DEF Waiting
    <3> HIDE DEF x, z
    <3>8. 0 + x + z = x + z
      BY <3>5
    <3> QED
      BY <3>6, <3>7, <3>8
  <2> QED
    BY <1>3, <2>3, <2>4, <2>5, <2>7, <2>8, Zenon DEF NewestInv, NewestNotEarly
<1>7. CASE ~(ticks > PitMax) /\ ~(pit_expire /\ queue # <<>>)
  <2>1. queue' = queue /\ firing' = <<>>
    BY <1>3, <1>7 DEF pit_timer_int
  <2>2. Wait = 0
    BY <1>3, <1>7 DEF Wait
  <2>3. \A i \in 1..Len(queue) : queue[i].event = newest => Counting(queue, i, Wait')
    BY <1>1, <1>2, <1>4, <2>2, CountingLonger, Zenon
  <2> QED
    BY <1>3, <1>4, <2>1, <2>3, Zenon DEF NewestInv, NewestNotEarly
<1> QED
  BY <1>5, <1>6, <1>7

\* timer_expire programs the timer for the event that is now the first.
LEMMA ExpireNewest ==
  ASSUME EventInv, EventInv', NewestInv, Latched = FALSE, timer_expire PROVE NewestInv'
<1>1. queue \in Seq(Entry) /\ TypeOK /\ DOMAIN queue = 1..Len(queue)
  BY DEF EventInv, TypeOK
<1>2. firing # <<>> /\ firing' = <<>> /\ queue' = queue /\ newest' = newest
  BY DEF timer_expire
<1>3. ASSUME NEW i \in 1..Len(queue), queue[i].event = newest PROVE Counting(queue, i, Wait')
  <2>1. Waiting(queue, i)
    BY <1>1, <1>2, <1>3, Zenon DEF NewestInv
  <2>2. queue[1].usec \in Int
    BY <1>1, BoundTypes, Zenon
  <2>3. queue # <<>>
    BY <1>3
  <2>4. pit_timer_set(queue[1].usec)
    BY <2>3 DEF timer_expire
  <2>5. Wait' \in Int /\ PitNum * queue[1].usec <= PitDen * Wait' + (PitDen - 1)
    BY <1>1, <2>2, <2>4, SetWaits, Zenon
  <2> QED
    BY <1>1, <2>1, <2>5, Programmed, Zenon
<1> QED
  BY <1>1, <1>2, <1>3, Zenon DEF NewestInv, NewestNotEarly

\* A queue of distinct events has no more entries than there are events.
LEMMA QueueFits ==
  ASSUME NEW q \in Seq(Entry), \A i, j \in 1..Len(q) : q[i].event = q[j].event => i = j
  PROVE  Len(q) \in Nat /\ Len(q) <= Cardinality(Events)
<1> DEFINE f == [i \in 1..Len(q) |-> q[i].event]
<1>1. Len(q) \in Nat /\ \A i \in 1..Len(q) : q[i] \in Entry
  BY ElementOfSeq, LenProperties, Zenon
<1>2. \A i \in 1..Len(q) : q[i].event \in Events
  BY <1>1 DEF Entry
<1>3. f \in Injection(1..Len(q), Events)
  BY <1>1, <1>2 DEF Injection, IsInjective
<1>4. IsFiniteSet(Events)
  BY TimerAssumption
<1>5. 1 \in Int /\ Len(q) \in Int
  BY <1>1
<1>6. Cardinality(1..Len(q)) = IF 1 > Len(q) THEN 0 ELSE Len(q) - 1 + 1
  BY <1>5, FS_Interval, Zenon
<1>7. Cardinality(1..Len(q)) <= Cardinality(Events)
  BY <1>3, <1>4, FS_Injection, Zenon
<1>8. Cardinality(1..Len(q)) = Len(q)
  BY <1>1, <1>6
<1> QED
  BY <1>1, <1>7, <1>8

\* timer_add puts the event where the delays up to it are as long as its own.
LEMMA AddNewest ==
  ASSUME EventInv, EventInv', NewestInv, Latched = FALSE, NEW e \in Events, NEW us \in Delays, timer_add(e, us)
  PROVE  NewestInv'
<1> DEFINE q == Cancelled
           s == Cardinality(Events)
<1>1. TypeOK /\ q \in Seq(Entry) /\ queue' \in Seq(Entry) /\ DOMAIN queue' = 1..Len(queue') /\ Len(q) \in Nat
  BY CancelledIs, LenProperties DEF EventInv, TypeOK
<1>2. /\ status[e] = "new" /\ queue' = Inserted(q, e, us) /\ pit_timer_set(queue'[1].usec)
      /\ status' = [status EXCEPT ![e] = "queued"] /\ newest' = e /\ firing' = firing
  BY DEF timer_add
<1> HIDE DEF q
<1>3. /\ Len(queue') = Len(q) + 1
      /\ \E i \in 1..Len(q) + 1 :
              /\ queue'[i] = [event |-> e, usec |-> us - Expiry(q, i - 1), left |-> us * PitNum]
              /\ \A j \in 1..i - 1 : queue'[j] = q[j]
  BY <1>1, <1>2, InsertedIs, Zenon
<1>4. PICK i \in 1..Len(queue') : /\ queue'[i] = [event |-> e, usec |-> us - Expiry(q, i - 1), left |-> us * PitNum]
                                  /\ \A j \in 1..i - 1 : queue'[j] = q[j]
  BY <1>3, Zenon
<1>5. us \in Nat /\ PitNum \in Nat /\ PitDen - 1 \in Nat /\ s \in Nat
  BY TimerAssumption, SomeEvents
<1>6. i \in Nat /\ i - 1 \in Nat /\ i - 1 \in 0..Len(q) /\ i - 1 \in 0..i - 1 /\ i - 1 <= Len(queue') /\ (i - 1) + 0 <= Len(q)
      /\ (i - 1) + 0 = i - 1
  BY <1>1, <1>3
<1>7. Expiry(queue', i) = us
  <2>1. \A j \in 1..i - 1 : queue'[j].usec = q[j + 0].usec
    <3> TAKE j \in 1..i - 1
    <3>1. j + 0 = j
      BY <1>6
    <3> QED
      BY <1>4, <3>1
  <2>2. \A j \in 0..i - 1 : Expiry(queue', j) = Expiry(q, j + 0) - Expiry(q, 0)
    BY <1>1, <1>6, <2>1, ExpiryShift
  <2>3. Expiry(q, 0) = 0 /\ Expiry(q, i - 1) \in Int
    BY <1>1, <1>6, ExpiryIs, Zenon
  <2>4. Expiry(queue', i - 1) = Expiry(q, i - 1) - 0
    BY <1>6, <2>2, <2>3, Zenon
  <2>5. Expiry(queue', i) = Expiry(queue', i - 1) + queue'[i].usec
    BY <1>1, ExpiryIs, Zenon
  <2>6. queue'[i].usec = us - Expiry(q, i - 1)
    BY <1>4
  <2> QED
    BY <1>5, <2>3, <2>4, <2>5, <2>6
<1>8. \A j \in 1..Len(queue') : queue'[j].event = e => j = i
  <2>1. \A j, k \in 1..Len(queue') : queue'[j].event = queue'[k].event => j = k
    BY <1>1, Zenon DEF EventInv, Queued
  <2>2. queue'[i].event = e
    BY <1>4
  <2> QED
    BY <2>1, <2>2, Zenon
<1>9. Waiting(queue', i)
  <2>1. Len(queue') <= s /\ Len(queue') \in Nat
    <3>1. \A j, k \in 1..Len(queue') : queue'[j].event = queue'[k].event => j = k
      BY <1>1, Zenon DEF EventInv, Queued
    <3> QED
      BY <1>1, <3>1, QueueFits, Zenon
  <2>2. s - i \in Nat
    BY <1>5, <2>1
  <2> DEFINE z == (PitDen - 1) * (s - i)
             x == PitNum * us
  <2>3. z \in Nat /\ x \in Nat /\ us * PitNum = x
    BY <1>5, <2>2
  <2>4. queue'[i].left = x
    BY <1>4, <2>3
  <2>5. Waiting(queue', i) <=> queue'[i].left = 0 \/ queue'[i].left <= x + z
    BY <1>7 DEF Waiting
  <2> HIDE DEF x, z
  <2> QED
    BY <2>3, <2>4, <2>5
<1>10. Counting(queue', i, Wait')
  <2>1. queue'[1].usec \in Int
    BY <1>1, BoundTypes, Zenon
  <2>2. Wait' \in Int /\ PitNum * queue'[1].usec <= PitDen * Wait' + (PitDen - 1)
    BY <1>1, <1>2, <2>1, SetWaits, Zenon
  <2> QED
    BY <1>1, <1>9, <2>2, Programmed, Zenon
<1>11. firing # <<>> => firing[1].event # e /\ status'[firing[1].event] = "fired"
  <2> SUFFICES ASSUME firing # <<>> PROVE firing[1].event # e /\ status'[firing[1].event] = "fired"
    OBVIOUS
  <2>1. firing \in Seq(Entry) /\ status \in [Events -> {"new", "queued", "fired", "deleted"}]
    BY <1>1 DEF TypeOK
  <2>2. firing[1] \in Entry
    BY <2>1
  <2>3. firing[1].event \in Events
    BY <2>2 DEF Entry
  <2>4. status[firing[1].event] = "fired"
    BY DEF NewestInv
  <2> QED
    BY <1>2, <2>1, <2>3, <2>4
<1> QED
  BY <1>1, <1>2, <1>8, <1>9, <1>10, <1>11, Zenon DEF NewestInv, NewestNotEarly

\* After a deletion there is no newest event.
LEMMA DeleteNewest ==
  ASSUME EventInv, EventInv', NewestInv, NEW e \in Events, timer_delete(e) PROVE NewestInv'
<1>1. status[e] = "queued" /\ status' = [status EXCEPT ![e] = "deleted"] /\ newest' = NULL /\ firing' = firing
  BY DEF timer_delete
<1>2. /\ firing \in Seq(Entry) /\ status \in [Events -> {"new", "queued", "fired", "deleted"}]
      /\ queue' \in Seq(Entry) /\ NULL \notin Events /\ DOMAIN queue' = 1..Len(queue')
  BY TimerAssumption DEF EventInv, TypeOK
<1>3. \A i \in 1..Len(queue') : queue'[i].event # NULL
  <2>1. \A i \in 1..Len(queue') : queue'[i] \in Entry
    BY <1>2, ElementOfSeq, Zenon
  <2> QED
    BY <1>2, <2>1 DEF Entry
<1>4. firing # <<>> => firing[1].event # NULL /\ status'[firing[1].event] = "fired"
  <2> SUFFICES ASSUME firing # <<>> PROVE firing[1].event # NULL /\ status'[firing[1].event] = "fired"
    OBVIOUS
  <2>1. firing[1] \in Entry
    BY <1>2
  <2>2. firing[1].event \in Events
    BY <2>1 DEF Entry
  <2>3. status[firing[1].event] = "fired"
    BY DEF NewestInv
  <2> QED
    BY <1>1, <1>2, <2>2, <2>3
<1> QED
  BY <1>1, <1>2, <1>3, <1>4, Zenon DEF NewestInv, NewestNotEarly

\* With an interrupt controller that drops the request when the timer is programmed again,
\* and with timer_delete called for the first event only, an event that was added last is
\* not called before its delay is over, but for the part of a tick that each programming
\* rounds off: timer_add, the walk of the queue and the delays of several interrupts do
\* not shorten it.
THEOREM NewestNotEarlyCorrect ==
  ASSUME DeleteAny = FALSE, Latched = FALSE
  PROVE  Spec => []NewestNotEarly
<1>1. Init => EventInv /\ NewestInv
  <2> SUFFICES ASSUME Init PROVE EventInv /\ NewestInv
    OBVIOUS
  <2>1. DOMAIN queue = {} /\ firing = <<>>
    BY DEF Init
  <2> QED
    BY <2>1, EventInit, Zenon DEF NewestInv, NewestNotEarly
<1>2. EventInv /\ NewestInv /\ [Next]_vars => EventInv' /\ NewestInv'
  <2> SUFFICES ASSUME EventInv, NewestInv, [Next]_vars PROVE EventInv' /\ NewestInv'
    OBVIOUS
  <2>1. CASE UNCHANGED vars
    BY <2>1, Zenon DEF vars, EventInv, TypeOK, Queued, NewestInv, NewestNotEarly, Wait, Counting, Waiting
  <2>2. CASE Tick
    BY <2>2, TickEvents, TickNewest, Zenon
  <2>3. CASE pit_timer_int
    BY <2>3, InterruptEvents, InterruptNewest, Zenon
  <2>4. CASE timer_expire
    BY <2>4, ExpireEvents, ExpireNewest, Zenon
  <2>5. ASSUME NEW e \in Events, timer_delete(e) PROVE EventInv' /\ NewestInv'
    BY <2>5, DeleteEvents, DeleteNewest, Zenon
  <2>6. ASSUME NEW e \in Events, NEW us \in Delays, timer_add(e, us) PROVE EventInv' /\ NewestInv'
    BY <2>6, AddEvents, AddNewest, Zenon
  <2> QED
    BY <2>1, <2>2, <2>3, <2>4, <2>5, <2>6, Zenon DEF Next
<1>3. NewestInv => NewestNotEarly
  BY DEF NewestInv
<1> QED
  BY <1>1, <1>2, <1>3, PTL DEF Spec
=============================================================================

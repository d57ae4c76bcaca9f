------------------------------ MODULE ArrayMap ------------------------------
(***************************************************************************)
(* The map in a sorted array of libk/arraymap.c, with its binary searches  *)
(* as they are coded.  Two of their habits shape what can be said: entry 0 *)
(* is not compared once there are two entries, and with one entry or none  *)
(* a search for a smaller key never ends.                                  *)
(***************************************************************************)
EXTENDS Integers, Sequences

CONSTANTS
  Keys,      \* positive integers, compared by map_keycmp; 0 is no key
  Values,    \* what tells the data stored under one key apart
  Capacity,  \* amap->capacity
  Careful,   \* TRUE: callers keep to the calls that Supported names
  NULL

VARIABLES
  array,  \* amap->data
  count,  \* amap->count
  looping,  \* a call does not return
  call,  \* the last call
  ret     \* the data it returned or walked over, in order

vars == <<array, count, looping, call, ret>>

Never == -2
Cleared == [key |-> 0, data |-> NULL]

Init ==
  /\ array = [i \in 0..Capacity - 1 |-> Cleared]
  /\ count = 0
  /\ looping = FALSE
  /\ call = <<>> /\ ret = <<>>

map_keycmp(k1, k2) == IF k1 > k2 THEN 1 ELSE IF k2 > k1 THEN -1 ELSE 0

\* Faulty variant: the upper half is searched without a test for its end
RECURSIVE SearchNoEnd(_, _, _, _)
SearchNoEnd(k, cond, low, high) ==
  LET i    == (low + high) \div 2
      diff == map_keycmp(k, array[i].key)
      l    == IF diff > 0 THEN i ELSE low
      h    == IF diff < 0 THEN i ELSE high
  IN  CASE diff = 0 -> CASE cond = "LT" -> i - 1 [] cond = "GT" -> i + 1 [] OTHER -> i
        [] diff < 0 /\ l = h - 1 ->
             CASE cond \in {"GT", "GE"} -> i [] cond \in {"LT", "LE"} -> i - 1 [] OTHER -> -1
        [] OTHER -> IF l = low /\ h = high THEN Never ELSE SearchNoEnd(k, cond, l, h)

\* One round of the binary search between low and high, and the next ones
RECURSIVE Search(_, _, _, _)
Search(k, cond, low, high) ==
  LET i    == (low + high) \div 2
      diff == map_keycmp(k, array[i].key)
      l    == IF diff > 0 THEN i ELSE low
      h    == IF diff < 0 THEN i ELSE high
      next == IF i < count THEN i + 1 ELSE -1
  IN  CASE diff = 0 -> CASE cond = "LT" -> i - 1 [] cond = "GT" -> next [] OTHER -> i
        [] diff # 0 /\ l = h - 1 ->
             CASE cond \in {"GT", "GE"} -> IF diff < 0 THEN i ELSE next
               [] cond \in {"LT", "LE"} -> IF diff < 0 THEN i - 1 ELSE i
               [] OTHER -> -1
        [] OTHER -> IF l = low /\ h = high THEN Never ELSE Search(k, cond, l, h)

arraymap_get_index(k, cond) == Search(k, cond, 0, count)

\* The calls that the searches serve: for keys above the first, and for the
\* others where the answer does not hang on entry 0 or on the one after the last
Supported(k, cond) ==
  /\ count > 0
  /\ \/ k > array[0].key
     \/ k = array[0].key /\ (count = 1 \/ cond \in {"LE", "GT"})
     \/ k < array[0].key /\ count > 1 /\ cond = "EQ"
  /\ count = Capacity /\ cond \in {"GE", "GT"} => k < array[count - 1].key

Call(k, cond) == ~looping /\ (Careful => Supported(k, cond))

Loops(i) ==
  i = Never /\ looping' = TRUE /\ UNCHANGED <<array, count, call, ret>>

\* The entry at an index the search returned may lie behind the array
Entry(i) == IF i < Capacity THEN {array[i].data} ELSE (Keys \X Values) \cup {NULL}

Answer(d) == IF d = NULL THEN <<>> ELSE <<d>>

arraymap_get(k, cond) ==
  LET i == arraymap_get_index(k, cond)
  IN  /\ Call(k, cond)
      /\ \/ Loops(i)
         \/ /\ i # Never
            /\ \E d \in IF i >= 0 THEN Entry(i) ELSE {NULL} : ret' = Answer(d)
            /\ call' = <<"get", k, cond>>
            /\ UNCHANGED <<array, count, looping>>

arraymap_walk ==
  /\ ~looping
  /\ call' = <<"walk">> /\ ret' = [i \in 1..count |-> array[i - 1].data]
  /\ UNCHANGED <<array, count, looping>>

arraymap_walk_range(from, to) ==
  LET f == arraymap_get_index(from, "GE")
      t == arraymap_get_index(to, "LT")
  IN  /\ Call(from, "GE") /\ Call(to, "LT")
      /\ \/ Loops(f) \/ (f # Never /\ Loops(t))
         \/ /\ f # Never /\ t # Never
            /\ call' = <<"range", from, to>>
            /\ ret' = [i \in 1..t - f + 1 |-> array[f + i - 1].data]
            /\ UNCHANGED <<array, count, looping>>

\* Where the search of arraymap_put stops: at the key, or with the key not found
RECURSIVE Narrow(_, _, _)
Narrow(k, low, high) ==
  LET i    == (low + high) \div 2
      diff == map_keycmp(k, array[i].key)
      l    == IF diff > 0 THEN i ELSE low
      h    == IF diff < 0 THEN i ELSE high
  IN  CASE diff = 0 -> [found |-> TRUE, at |-> i]
        [] diff # 0 /\ l < h - 1 -> Narrow(k, l, h)
        [] OTHER -> [found |-> FALSE, at |-> l]

\* Where a new key goes
Insert(at, k) == IF map_keycmp(k, array[at].key) > 0 THEN at + 1 ELSE at

HasRoom == count # Capacity

arraymap_put(k, d) ==
  LET s   == Narrow(k, 0, count)
      new == [key |-> k, data |-> d]
      at  == Insert(s.at, k)
  IN  /\ ~looping
      /\ Careful /\ count > 1 => k # array[0].key
      /\ \/ /\ count > 0 /\ s.found
            /\ array' = [array EXCEPT ![s.at].data = d]
            /\ call' = <<"put", k, d>> /\ ret' = <<array[s.at].data>>
            /\ UNCHANGED count
         \/ /\ count > 0 /\ ~s.found /\ ~HasRoom   \* ArrayMapFullException
            /\ call' = <<"put", k, d>> /\ ret' = "full"
            /\ UNCHANGED <<array, count>>
         \/ /\ count > 0 /\ ~s.found /\ HasRoom
            /\ array' = [i \in DOMAIN array |->
                           IF i < at \/ i > count THEN array[i]
                           ELSE IF i = at THEN new ELSE array[i - 1]]
            /\ count' = count + 1
            /\ call' = <<"put", k, d>> /\ ret' = <<>>
         \/ /\ count = 0
            /\ array' = [array EXCEPT ![0] = new]
            /\ count' = 1
            /\ call' = <<"put", k, d>> /\ ret' = <<>>
      /\ UNCHANGED looping

\* The array without entry i
Shifted(i) ==
  [j \in DOMAIN array |-> IF j < i \/ j >= count THEN array[j]
                          ELSE IF j = count - 1 THEN Cleared ELSE array[j + 1]]

arraymap_remove(k) ==
  LET i == arraymap_get_index(k, "EQ")
  IN  /\ Call(k, "EQ")
      /\ \/ Loops(i)
         \/ /\ i = -1
            /\ call' = <<"remove", k>> /\ ret' = <<>>
            /\ UNCHANGED <<array, count, looping>>
         \/ /\ i >= 0
            /\ array' = Shifted(i)
            /\ count' = count - 1
            /\ call' = <<"remove", k>> /\ ret' = <<array[i].data>>
            /\ UNCHANGED looping

Next ==
  \/ \E k \in Keys :
       \/ \E v \in Values : arraymap_put(k, <<k, v>>)
       \/ \E cond \in {"LT", "LE", "EQ", "GE", "GT"} : arraymap_get(k, cond)
       \/ arraymap_remove(k)
       \/ \E to \in Keys : arraymap_walk_range(k, to)
  \/ arraymap_walk

Spec == Init /\ [][Next]_vars

-----------------------------------------------------------------------------
TypeOK ==
  /\ count \in 0..Capacity
  /\ array \in [0..Capacity - 1 -> [key : Keys \cup {0}, data : (Keys \X Values) \cup {NULL}]]
  /\ looping \in BOOLEAN

\* The keys ascend, which the binary searches rely on, and behind them there is
\* nothing: "Remove stale references for GC".
Sorted ==
  /\ \A i \in 0..count - 1 : i > 0 => array[i - 1].key < array[i].key
  /\ \A i \in count..Capacity - 1 : array[i] = Cleared

\* No supported call searches for ever: a hidden bound of the search loop, which
\* has no other exit than its returns.
Returns == ~looping

Contents ==
  [k \in Keys |-> IF \E i \in 0..count - 1 : array[i].key = k
                  THEN array[CHOOSE i \in 0..count - 1 : array[i].key = k].data ELSE NULL]

\* "Replace existing data": no key has two entries.
OneEntryPerKey ==
  \A i, j \in 0..count - 1 : array[i].key = array[j].key => i = j
=============================================================================

------------------------------- MODULE MapSpec -------------------------------
(***************************************************************************)
(* What a map promises its users (the interface of libk/map.c): an ordered *)
(* dictionary.  map_put, map_get and map_remove and their variants for     *)
(* pointers and integers all call the same operation of the map, with a    *)
(* cast.  Data 0, here NULL, stands for no entry.                          *)
(***************************************************************************)
EXTENDS Integers, FiniteSetsExt

CONSTANTS Keys, Data, NULL

VARIABLES
  map,  \* the data of each key
  call,  \* the last call
  ret   \* the data it returned or walked over, in order

vars == <<map, call, ret>>

Conditions == {"LT", "LE", "EQ", "GE", "GT"}

\* map_keycmp
map_keycmp(k1, k2) == IF k1 > k2 THEN 1 ELSE IF k2 > k1 THEN -1 ELSE 0

Present == {k \in Keys : map[k] # NULL}

\* The keys that meet a condition, and the one of them nearest to k
Matching(k, cond) ==
  {j \in Present : LET d == map_keycmp(j, k)
                   IN  CASE cond = "LT" -> d < 0
                         [] cond = "LE" -> d <= 0
                         [] cond = "EQ" -> d = 0
                         [] cond = "GE" -> d >= 0
                         [] cond = "GT" -> d > 0}

Nearest(k, cond) ==
  IF cond \in {"LT", "LE"} THEN Max(Matching(k, cond)) ELSE Min(Matching(k, cond))

Ascending(S) ==
  [i \in 1..Cardinality(S) |->
     map[CHOOSE k \in S : Cardinality({j \in S : map_keycmp(j, k) < 0}) = i - 1]]

\* What a call that returns data d returns
Answer(d) == IF d = NULL THEN <<>> ELSE <<d>>

Init == map = [k \in Keys |-> NULL] /\ call = <<>> /\ ret = <<>>

map_put(k, d) ==
  /\ call' = <<"put", k, d>>
  /\ map' = [map EXCEPT ![k] = d]
  /\ ret' = Answer(map[k])

map_get_cond(k, cond) ==
  /\ call' = <<"get", k, cond>>
  /\ ret' = IF Matching(k, cond) = {} THEN <<>> ELSE <<map[Nearest(k, cond)]>>
  /\ UNCHANGED map

map_remove(k) ==
  /\ call' = <<"remove", k>>
  /\ map' = [map EXCEPT ![k] = NULL]
  /\ ret' = Answer(map[k])

map_walk == call' = <<"walk">> /\ ret' = Ascending(Present) /\ UNCHANGED map

map_walk_range(from, to) ==
  /\ call' = <<"range", from, to>>
  /\ ret' = Ascending({k \in Present : from <= k /\ k < to})
  /\ UNCHANGED map

map_optimize == call' = <<"optimize">> /\ ret' = <<>> /\ UNCHANGED map

\* A map of bounded size may refuse a put with an exception
map_full(k, d) == call' = <<"put", k, d>> /\ ret' = "full" /\ UNCHANGED map

Next ==
  \/ \E k \in Keys :
       \/ \E d \in Data : map_put(k, d) \/ map_full(k, d)
       \/ \E cond \in Conditions : map_get_cond(k, cond)
       \/ map_remove(k)
       \/ \E to \in Keys : map_walk_range(k, to)
  \/ map_walk
  \/ map_optimize

Spec == Init /\ [][Next]_vars
=============================================================================

---------------------------- MODULE UnwindProofs ----------------------------
(***************************************************************************)
(* The destructor stacks and the try statements of Unwind, for any         *)
(* threads, any nesting, any frames and any tree of exception types.       *)
(***************************************************************************)
EXTENDS Unwind, WellFoundedInduction, TLAPS

-----------------------------------------------------------------------------
\* Numbers and sequences

\* A set of naturals that is not empty has a least element.
LEMMA LeastNatural ==
  ASSUME NEW T \in SUBSET Nat, T # {}
  PROVE  \E n \in T : \A m \in T : n <= m
<1> DEFINE R == {p \in Nat \X Nat : p[1] < p[2]}
<1>1. IsWellFoundedOn(R, Nat)
  BY NatLessThanWellFounded DEF OpToRel
<1>2. PICK n \in T : \A m \in T : <<m, n>> \notin R
  BY <1>1, WFMin, Zenon
<1>3. ASSUME NEW m \in T PROVE n <= m
  <2>1. <<m, n>> \in Nat \X Nat /\ ~(<<m, n>>[1] < <<m, n>>[2])
    BY <1>2
  <2> QED
    BY <2>1
<1> QED
  BY <1>3

LEMMA SeqFacts ==
  ASSUME NEW S, NEW s \in Seq(S)
  PROVE  /\ Len(s) \in Nat /\ DOMAIN s = 1..Len(s) /\ s \in [1..Len(s) -> S]
         /\ \A i \in 1..Len(s) : s[i] \in S
  OBVIOUS

LEMMA EmptySeq ==
  ASSUME NEW S
  PROVE  <<>> \in Seq(S) /\ Len(<<>>) = 0 /\ \A s \in Seq(S) : s # <<>> => Len(s) \in Nat \ {0}
  OBVIOUS

LEMMA SeqEqual ==
  ASSUME NEW S, NEW s \in Seq(S), NEW t \in Seq(S), Len(s) = Len(t), \A i \in 1..Len(s) : s[i] = t[i]
  PROVE  s = t
  OBVIOUS

LEMMA ExceptSeq ==
  ASSUME NEW S, NEW s \in Seq(S), NEW i \in 1..Len(s), NEW e \in S
  PROVE  /\ [s EXCEPT ![i] = e] \in Seq(S) /\ Len([s EXCEPT ![i] = e]) = Len(s)
         /\ \A j \in 1..Len(s) : [s EXCEPT ![i] = e][j] = IF j = i THEN e ELSE s[j]
  OBVIOUS

LEMMA TailSeq ==
  ASSUME NEW S, NEW s \in Seq(S), s # <<>>
  PROVE  /\ Tail(s) \in Seq(S) /\ Len(Tail(s)) = Len(s) - 1
         /\ \A i \in 1..Len(Tail(s)) : Tail(s)[i] = s[i + 1]
  OBVIOUS

LEMMA ConcatSeq ==
  ASSUME NEW S, NEW s \in Seq(S), NEW t \in Seq(S)
  PROVE  /\ s \o t \in Seq(S) /\ Len(s \o t) = Len(s) + Len(t)
         /\ \A i \in 1..Len(s) + Len(t) : (s \o t)[i] = IF i <= Len(s) THEN s[i] ELSE t[i - Len(s)]
  OBVIOUS

LEMMA ConcatEmpty == ASSUME NEW S, NEW s \in Seq(S) PROVE s \o <<>> = s /\ <<>> \o s = s
  OBVIOUS

LEMMA AppendConcat == ASSUME NEW S, NEW s \in Seq(S), NEW e \in S PROVE Append(s, e) = s \o <<e>>
  OBVIOUS

LEMMA PartSeq ==
  ASSUME NEW S, NEW s, NEW m \in Int, NEW n \in Int, \A i \in m..n : s[i] \in S
  PROVE  /\ SubSeq(s, m, n) \in Seq(S) /\ Len(SubSeq(s, m, n)) = IF m <= n THEN n - m + 1 ELSE 0
         /\ \A i \in 1..n - m + 1 : SubSeq(s, m, n)[i] = s[m + i - 1]
  OBVIOUS

LEMMA WholeSeq == ASSUME NEW S, NEW s \in Seq(S) PROVE SubSeq(s, 1, Len(s)) = s
  OBVIOUS

LEMMA RangeConcat ==
  ASSUME NEW S, NEW s \in Seq(S), NEW t \in Seq(S) PROVE Range(s \o t) = Range(s) \cup Range(t)
<1> DEFINE r == s \o t
<1>1. /\ Len(s) \in Nat /\ Len(t) \in Nat /\ DOMAIN s = 1..Len(s) /\ DOMAIN t = 1..Len(t)
      /\ DOMAIN r = 1..Len(s) + Len(t)
  OBVIOUS
<1>2. \A i \in 1..Len(s) + Len(t) : r[i] = IF i <= Len(s) THEN s[i] ELSE t[i - Len(s)]
  OBVIOUS
<1> HIDE DEF r
<1>3. \A i \in 1..Len(s) : i \in 1..Len(s) + Len(t) /\ r[i] = s[i]
  BY <1>1, <1>2
<1>4. \A i \in 1..Len(t) : i + Len(s) \in 1..Len(s) + Len(t) /\ r[i + Len(s)] = t[i]
  BY <1>1, <1>2
<1>5. \A i \in 1..Len(s) + Len(t) : (i \in 1..Len(s) /\ r[i] = s[i]) \/ (i - Len(s) \in 1..Len(t) /\ r[i] = t[i - Len(s)])
  BY <1>1, <1>2
<1>6. ASSUME NEW x PROVE x \in Range(r) <=> x \in Range(s) \/ x \in Range(t)
  <2>1. x \in Range(r) <=> \E i \in 1..Len(s) + Len(t) : r[i] = x
    BY <1>1, Zenon DEF Range
  <2>2. x \in Range(s) <=> \E i \in 1..Len(s) : s[i] = x
    BY <1>1, Zenon DEF Range
  <2>3. x \in Range(t) <=> \E i \in 1..Len(t) : t[i] = x
    BY <1>1, Zenon DEF Range
  <2> QED
    BY <1>3, <1>4, <1>5, <2>1, <2>2, <2>3, Zenon
<1> QED
  BY <1>6 DEF r

\* One of n places is taken twice by n + 1.
LEMMA Pigeonhole ==
  ASSUME NEW n \in Nat, NEW f \in [1..n + 1 -> 1..n]
  PROVE  \E i, j \in 1..n + 1 : i # j /\ f[i] = f[j]
<1>0. \A k \in Nat : \A a, b \in 1..k : a # b => (a = k => b \in 1..k - 1) /\ (a # k => a \in 1..k - 1)
  OBVIOUS
<1> DEFINE Fits(k, g) == \A i, j \in 1..k + 1 : g[i] = g[j] => i = j
           T == {k \in Nat : \E g \in [1..k + 1 -> 1..k] : Fits(k, g)}
<1>1. ASSUME T # {} PROVE FALSE
  <2>1. PICK k \in T : \A m \in T : k <= m
    BY Zenon, <1>1, LeastNatural
  <2>2. PICK g \in [1..k + 1 -> 1..k] : Fits(k, g)
    BY <2>1
  <2>3. k \in Nat /\ k # 0
    BY <2>1, <2>2
  <2> DEFINE h == [i \in 1..k |-> IF g[i] = k THEN g[k + 1] ELSE g[i]]
  <2>4. /\ \A i \in 1..k : i \in 1..k + 1 /\ i # k + 1 /\ g[i] \in 1..k
        /\ k + 1 \in 1..k + 1 /\ g[k + 1] \in 1..k
        /\ \A i \in 1..k : h[i] = IF g[i] = k THEN g[k + 1] ELSE g[i]
    <3>1. k + 1 \in 1..k + 1 /\ \A i \in 1..k : i \in 1..k + 1 /\ i # k + 1
      BY <2>3
    <3> QED
      BY <2>2, <3>1, Zenon
  <2>5. \A i \in 1..k : g[i] # g[k + 1] /\ \A j \in 1..k : g[i] = g[j] => i = j
    BY <2>2, <2>4, Zenon
  <2>6. h \in [1..k -> 1..k - 1]
    <3>1. ASSUME NEW i \in 1..k PROVE h[i] \in 1..k - 1
      <4>1. g[i] # g[k + 1] /\ g[i] \in 1..k /\ g[k + 1] \in 1..k /\ h[i] = IF g[i] = k THEN g[k + 1] ELSE g[i]
        BY <2>4, <2>5, Zenon
      <4> QED
        BY <1>0, <2>3, <4>1, Zenon
    <3> QED
      BY Zenon, <3>1
  <2>7. \A i, j \in 1..k : h[i] = h[j] => i = j
    BY <2>4, <2>5, Zenon
  <2> HIDE DEF h
  <2>8. (k - 1) + 1 = k /\ k - 1 \in Nat /\ ~(k <= k - 1)
    BY <2>3
  <2>9. h \in [1..(k - 1) + 1 -> 1..k - 1] /\ Fits(k - 1, h)
    BY <2>6, <2>7, <2>8, Zenon
  <2>10. k - 1 \in T
    BY <2>8, <2>9, Zenon
  <2> QED
    BY <2>1, <2>8, <2>10, Zenon
<1>2. n \notin T
  BY Zenon, <1>1
<1> QED
  BY <1>2

-----------------------------------------------------------------------------
\* The types above a type

\* A set of types, and the parents of those in it
Widen(u) == u \cup ({Parent[x] : x \in u \ {NONE}})

\* Repeating this defines a function: its sets are the ends of the paths up the tree.
LEMMA WidenedSets ==
  ASSUME NEW type \in DOMAIN Parent, NEW N \in Nat
  PROVE  \E up : up = [k \in 0..N |-> IF k = 0 THEN {type} ELSE Widen(up[k - 1])]
<1> DEFINE U == DOMAIN Parent \cup {NONE}
           Goes(p, k) == \A i \in 0..k - 1 : p[i + 1] = p[i] \/ (p[i] # NONE /\ p[i + 1] = Parent[p[i]])
           Ends1(k) == {x \in U : \E p \in [0..k -> U] : p[0] = type /\ p[k] = x /\ Goes(p, k)}
           g == [k \in 0..N |-> Ends1(k)]
<1>1. N \in Nat
  OBVIOUS
<1>2. Ends1(0) = {type}
  <2> DEFINE o == [i \in 0..0 |-> type]
  <2>1. o \in [0..0 -> U] /\ o[0] = type /\ type \in U
    OBVIOUS
  <2>4. Goes(o, 0)
    OBVIOUS
  <2>2. type \in Ends1(0)
    <3> HIDE DEF o, Goes
    <3> QED
      BY <2>1, <2>4
  <2>3. \A x \in Ends1(0) : x = type
    OBVIOUS
  <2> HIDE DEF Ends1
  <2> QED
    BY <2>2, <2>3
<1>3. ASSUME NEW k \in 1..N PROVE Ends1(k) = Widen(Ends1(k - 1))
  <2>0. k \in Nat /\ k - 1 \in Nat /\ k # 0 /\ k - 1 \in 0..k - 1 /\ (k - 1) + 1 = k /\ 0 \in 0..k - 1 /\ 0..k - 1 \subseteq 0..k
    BY <1>1
  <2>1. ASSUME NEW x \in Ends1(k) PROVE x \in Widen(Ends1(k - 1))
    <3>1. PICK p \in [0..k -> U] : p[0] = type /\ p[k] = x /\ Goes(p, k)
      BY <2>1
    <3> DEFINE q == [i \in 0..k - 1 |-> p[i]]
               y == p[k - 1]
    <3>2. q \in [0..k - 1 -> U] /\ q[0] = type /\ q[k - 1] = y /\ y \in U
      BY <2>0, <3>1
    <3>3. Goes(q, k - 1)
      <4>1. \A i \in 0..(k - 1) - 1 : i \in 0..k - 1 /\ i + 1 \in 0..k - 1
        BY <2>0
      <4> QED
        BY <3>1, <4>1
    <3>4. y \in Ends1(k - 1)
      <4> HIDE DEF Goes, q, y
      <4> QED
        BY <3>2, <3>3
    <3>5. x = y \/ (y # NONE /\ x = Parent[y])
      <4>1. p[(k - 1) + 1] = p[k - 1] \/ (p[k - 1] # NONE /\ p[(k - 1) + 1] = Parent[p[k - 1]])
        BY <2>0, <3>1
      <4> QED
        BY <2>0, <3>1, <4>1
    <3> HIDE DEF Ends1, y
    <3> QED
      BY <3>4, <3>5 DEF Widen
  <2>2. ASSUME NEW x \in Widen(Ends1(k - 1)) PROVE x \in Ends1(k)
    <3>1. PICK y \in Ends1(k - 1) : x = y \/ (y # NONE /\ x = Parent[y])
      <4> HIDE DEF Ends1
      <4> QED
        BY <2>2 DEF Widen
    <3>2. y \in U /\ \E q \in [0..k - 1 -> U] : q[0] = type /\ q[k - 1] = y /\ Goes(q, k - 1)
      OBVIOUS
    <3>3. PICK q \in [0..k - 1 -> U] : q[0] = type /\ q[k - 1] = y /\ Goes(q, k - 1)
      BY <3>2
    <3>4. x \in U
      BY <3>1, <3>2, UnwindAssumption
    <3> DEFINE p == [i \in 0..k |-> IF i = k THEN x ELSE q[i]]
    <3>5. \A i \in 0..k : i = k \/ i \in 0..k - 1
      BY <2>0
    <3>6. k \notin 0..k - 1 /\ k \in 0..k
      BY <2>0
    <3>7. p \in [0..k -> U] /\ p[0] = type /\ p[k] = x /\ \A i \in 0..k - 1 : p[i] = q[i]
      BY <2>0, <3>3, <3>4, <3>5, <3>6
    <3>8. Goes(p, k)
      <4> TAKE i \in 0..k - 1
      <4>1. CASE i = k - 1
        BY <2>0, <3>1, <3>3, <3>7, <4>1
      <4>2. CASE i # k - 1
        <5>1. i \in 0..(k - 1) - 1 /\ i + 1 \in 0..k - 1
          BY <2>0, <4>2
        <5>2. q[i + 1] = q[i] \/ (q[i] # NONE /\ q[i + 1] = Parent[q[i]])
          BY <3>3, <5>1
        <5> HIDE DEF p
        <5> QED
          BY <3>7, <5>1, <5>2
      <4> QED
        BY <4>1, <4>2
    <3> HIDE DEF Goes, p
    <3> QED
      BY <3>4, <3>7, <3>8
  <2> HIDE DEF Ends1
  <2> QED
    BY <2>1, <2>2
<1> HIDE DEF Ends1
<1>4. ASSUME NEW k \in 0..N PROVE g[k] = IF k = 0 THEN {type} ELSE Widen(g[k - 1])
  <2>1. CASE k = 0
    BY <1>2, <2>1
  <2>2. CASE k # 0
    <3>1. k \in 1..N /\ k - 1 \in 0..N
      BY <1>1, <2>2
    <3> QED
      BY <1>3, <2>2, <3>1
  <2> QED
    BY <2>1, <2>2
<1>5. g = [k \in 0..N |-> g[k]]
  OBVIOUS
<1> HIDE DEF g
<1>6. g = [k \in 0..N |-> IF k = 0 THEN {type} ELSE Widen(g[k - 1])]
  BY <1>4, <1>5
<1> QED
  BY <1>6, Zenon

-----------------------------------------------------------------------------
\* Chains of frames

\* s is what the links lead to from n, down to a frame without a next one
Follows(links, s, n) ==
  /\ n = IF s = <<>> THEN 0 ELSE s[1]
  /\ \A i \in 1..Len(s) : links[s[i]] = IF i < Len(s) THEN s[i + 1] ELSE 0

Distinct(s) == \A i, j \in 1..Len(s) : s[i] = s[j] => i = j

\* The walk along a chain collects it, up to the frame where it is to stop.
LEMMA LinkedIs ==
  ASSUME NEW links, NEW n, NEW until, NEW s \in Seq(1..Frames), Len(s) <= Frames, Follows(links, s, n),
         NEW j \in 0..Len(s), until = (IF j < Len(s) THEN s[j + 1] ELSE 0), \A i \in 1..j : s[i] # until
  PROVE  Linked(links, n, until) = SubSeq(s, 1, j)
<1> DEFINE Body(f, k) == IF k = 0 THEN <<>>
                         ELSE LET r == f[k - 1]
                                  m == IF r = <<>> THEN n ELSE links[Bottom(r)]
                              IN  IF Len(r) < k - 1 \/ m \in {0, until} THEN r ELSE Append(r, m)
           S(f) == f = [k \in 0..Frames |-> Body(f, k)]
           from == CHOOSE f : S(f)
           g == [k \in 0..Frames |-> SubSeq(s, 1, IF k < j THEN k ELSE j)]
<1>1. Frames \in Nat /\ Len(s) \in Nat /\ j \in Nat /\ j <= Frames /\ j <= Len(s) /\ \A i \in 1..Len(s) : s[i] \in 1..Frames
  BY UnwindAssumption, SeqFacts
<1>2. \A i \in 0..j : /\ SubSeq(s, 1, i) \in Seq(1..Frames) /\ Len(SubSeq(s, 1, i)) = i
                      /\ i # 0 => SubSeq(s, 1, i) # <<>> /\ Bottom(SubSeq(s, 1, i)) = s[i]
                      /\ i # 0 => Append(SubSeq(s, 1, i - 1), s[i]) = SubSeq(s, 1, i)
  BY <1>1 DEF Bottom
<1>3. SubSeq(s, 1, 0) = <<>>
  OBVIOUS
<1>4. ASSUME NEW f, NEW k \in 1..Frames, f[k - 1] = g[k - 1] PROVE Body(f, k) = g[k]
  <2> DEFINE r == f[k - 1]
             m == IF r = <<>> THEN n ELSE links[Bottom(r)]
  <2>0. k - 1 \in 0..Frames /\ k \in 0..Frames /\ k # 0 /\ k \in Nat
    BY <1>1
  <2>1. Body(f, k) = IF Len(r) < k - 1 \/ m \in {0, until} THEN r ELSE Append(r, m)
    BY <2>0
  <2>2. CASE k <= j
    <3>1. r = SubSeq(s, 1, k - 1) /\ g[k] = SubSeq(s, 1, k)
      BY <1>1, <1>4, <2>0, <2>2
    <3>2. Len(r) = k - 1
      BY <1>1, <1>2, <2>0, <2>2, <3>1
    <3>3. m = s[k]
      <4>1. CASE k = 1
        BY <1>1, <1>3, <2>2, <3>1, <4>1 DEF Follows
      <4>2. CASE k # 1
        <5>1. k - 1 \in 1..Len(s) /\ k - 1 \in 0..j /\ k - 1 # 0 /\ k - 1 < Len(s) /\ (k - 1) + 1 = k
          BY <1>1, <2>0, <2>2, <4>2
        <5>2. r # <<>> /\ Bottom(r) = s[k - 1]
          BY <1>2, <3>1, <5>1
        <5> HIDE DEF r
        <5> QED
          BY <5>1, <5>2 DEF Follows
      <4> QED
        BY <4>1, <4>2
    <3>4. m \notin {0, until}
      BY <1>1, <2>0, <2>2, <3>3
    <3> HIDE DEF r, m
    <3>5. Append(r, s[k]) = SubSeq(s, 1, k)
      BY <1>1, <1>2, <2>0, <2>2, <3>1
    <3> HIDE DEF g, Body
    <3> QED
      BY <1>1, <2>0, <2>1, <3>1, <3>2, <3>3, <3>4, <3>5
  <2>3. CASE ~(k <= j)
    <3>1. r = SubSeq(s, 1, j) /\ g[k] = SubSeq(s, 1, j) /\ Len(r) = j
      BY <1>1, <1>2, <1>4, <2>0, <2>3
    <3>2. CASE j < k - 1
      <4> HIDE DEF r, m, g, Body
      <4> QED
        BY <2>1, <3>1, <3>2
    <3>3. CASE ~(j < k - 1)
      <4>1. j = k - 1
        BY <1>1, <2>0, <2>3, <3>3
      <4>2. m \in {0, until}
        <5>1. CASE j = 0
          BY <1>1, <1>3, <3>1, <5>1 DEF Follows
        <5>2. CASE j # 0
          <6>1. j \in 0..j /\ j \in 1..Len(s)
            BY <1>1, <5>2
          <6>2. r # <<>> /\ Bottom(r) = s[j]
            BY <1>2, <3>1, <5>2, <6>1, Zenon
          <6> HIDE DEF r
          <6> QED
            BY <6>1, <6>2 DEF Follows
        <5> QED
          BY <5>1, <5>2
      <4> HIDE DEF r, m, g, Body
      <4> QED
        BY <2>1, <3>1, <4>2
    <3> QED
      BY <3>2, <3>3
  <2> QED
    BY <1>1, <2>0, <2>2, <2>3
<1>5. S(g)
  <2>1. g[0] = <<>> /\ Body(g, 0) = <<>>
    BY <1>1, <1>3
  <2>2. \A k \in 1..Frames : Body(g, k) = g[k]
    BY Zenon, <1>4
  <2>3. \A k \in 0..Frames : k = 0 \/ k \in 1..Frames
    BY <1>1
  <2>4. g = [k \in 0..Frames |-> g[k]]
    OBVIOUS
  <2> HIDE DEF g, Body
  <2>5. \A k \in 0..Frames : g[k] = Body(g, k)
    BY <2>1, <2>2, <2>3
  <2> QED
    BY <2>4, <2>5
<1>6. S(from)
  <2> HIDE DEF S, g
  <2> QED
    BY <1>5
<1>7. Linked(links, n, until) = from[Frames]
  BY DEF Linked
<1> HIDE DEF from
<1>8. from[0] = <<>> /\ \A k \in 1..Frames : from[k] = Body(from, k)
  <2>1. \A k \in 0..Frames : from[k] = Body(from, k)
    <3> HIDE DEF Body
    <3> QED
      BY <1>6
  <2>2. 0 \in 0..Frames /\ 1..Frames \subseteq 0..Frames
    BY <1>1
  <2>3. Body(from, 0) = <<>>
    OBVIOUS
  <2> HIDE DEF Body
  <2> QED
    BY <2>1, <2>2, <2>3
<1> DEFINE Other == {k \in 0..Frames : from[k] # g[k]}
<1>9. Other = {}
  <2> SUFFICES ASSUME Other # {} PROVE FALSE
    OBVIOUS
  <2>1. PICK k \in Other : \A l \in Other : k <= l
    <3>1. Other \in SUBSET Nat
      BY <1>1
    <3> HIDE DEF Other
    <3> QED
      BY <3>1, LeastNatural
  <2>2. g[0] = <<>>
    BY <1>1, <1>3
  <2> HIDE DEF g, Body
  <2>3. k \in 1..Frames /\ k - 1 \in 0..Frames /\ ~(k <= k - 1)
    BY <1>1, <1>8, <2>2
  <2>4. from[k - 1] = g[k - 1]
    BY <2>1, <2>3
  <2>5. from[k] = g[k]
    BY <1>4, <1>8, <2>3, <2>4
  <2> QED
    BY <2>5
<1>10. from[Frames] = g[Frames] /\ g[Frames] = SubSeq(s, 1, j)
  <2>1. g[Frames] = SubSeq(s, 1, j)
    BY <1>1
  <2>2. Frames \in 0..Frames
    BY <1>1
  <2> HIDE DEF g
  <2> QED
    BY <1>9, <2>1, <2>2
<1> QED
  BY <1>7, <1>10

\* A chain of frames from n
ChainOK(links, s, n) == s \in Seq(1..Frames) /\ Distinct(s) /\ Follows(links, s, n)

LEMMA ElementsOf ==
  ASSUME NEW T, NEW s \in Seq(T)
  PROVE  /\ Len(s) \in Nat /\ DOMAIN s = 1..Len(s) /\ \A i \in 1..Len(s) : s[i] \in T
         /\ \A x : x \in Range(s) <=> \E i \in 1..Len(s) : s[i] = x
<1>1. Len(s) \in Nat /\ DOMAIN s = 1..Len(s) /\ \A i \in 1..Len(s) : s[i] \in T
  BY SeqFacts, Zenon
<1> QED
  BY <1>1, Zenon DEF Range

\* There are no more frames in a chain than there are frames.
LEMMA ChainFits == ASSUME NEW s \in Seq(1..Frames), Distinct(s) PROVE Len(s) <= Frames
<1> DEFINE f == [i \in 1..Frames + 1 |-> s[i]]
<1>1. Len(s) \in Nat /\ Frames \in Nat /\ \A i \in 1..Len(s) : s[i] \in 1..Frames
  BY UnwindAssumption
<1> SUFFICES ASSUME Frames < Len(s) PROVE FALSE
  BY <1>1
<1>2. \A i \in 1..Frames + 1 : i \in 1..Len(s)
  BY <1>1
<1>3. f \in [1..Frames + 1 -> 1..Frames]
  BY <1>1, <1>2, Zenon
<1>4. PICK i, j \in 1..Frames + 1 : i # j /\ f[i] = f[j]
  BY <1>1, <1>3, Pigeonhole, Zenon
<1> QED
  BY <1>2, <1>4, Zenon DEF Distinct

LEMMA WholeChain ==
  ASSUME NEW links, NEW s, NEW n, ChainOK(links, s, n) PROVE Linked(links, n, 0) = s
<1>1. s \in Seq(1..Frames) /\ Distinct(s) /\ Follows(links, s, n)
  BY DEF ChainOK
<1>2. Len(s) <= Frames /\ Len(s) \in Nat /\ \A i \in 1..Len(s) : s[i] \in 1..Frames
  BY <1>1, ChainFits, ElementsOf, Zenon
<1>3. Len(s) \in 0..Len(s) /\ 0 = (IF Len(s) < Len(s) THEN s[Len(s) + 1] ELSE 0) /\ \A i \in 1..Len(s) : s[i] # 0
  BY <1>2
<1>4. Linked(links, n, 0) = SubSeq(s, 1, Len(s))
  BY <1>1, <1>2, <1>3, LinkedIs
<1>5. SubSeq(s, 1, Len(s)) = s
  BY <1>1
<1> QED
  BY <1>4, <1>5

LEMMA PartOfChain ==
  ASSUME NEW links, NEW s, NEW n, ChainOK(links, s, n), NEW j \in 1..Len(s)
  PROVE  Linked(links, n, s[j]) = SubSeq(s, 1, j - 1)
<1>1. s \in Seq(1..Frames) /\ Distinct(s) /\ Follows(links, s, n)
  BY DEF ChainOK
<1>2. Len(s) <= Frames /\ Len(s) \in Nat /\ \A i \in 1..Len(s) : s[i] \in 1..Frames
  BY <1>1, ChainFits, ElementsOf, Zenon
<1>3. j - 1 \in 0..Len(s) /\ s[j] = (IF j - 1 < Len(s) THEN s[(j - 1) + 1] ELSE 0)
  BY <1>2
<1>4. \A i \in 1..j - 1 : s[i] # s[j]
  BY <1>1, <1>2 DEF Distinct
<1> QED
  BY <1>1, <1>2, <1>3, <1>4, LinkedIs

\* A frame in front of a chain
LEMMA Pushed ==
  ASSUME NEW links \in [1..Frames -> 0..Frames], NEW s, NEW h, ChainOK(links, s, h), NEW n \in 1..Frames, n \notin Range(s)
  PROVE  /\ ChainOK([links EXCEPT ![n] = h], <<n>> \o s, n)
         /\ Range(<<n>> \o s) = Range(s) \cup {n}
<1> DEFINE r == <<n>> \o s
           l == [links EXCEPT ![n] = h]
<1>1. s \in Seq(1..Frames) /\ Distinct(s) /\ Follows(links, s, h)
  BY DEF ChainOK
<1>2. /\ Len(s) \in Nat /\ \A i \in 1..Len(s) : s[i] \in 1..Frames
      /\ \A x : x \in Range(s) <=> \E i \in 1..Len(s) : s[i] = x
  BY <1>1, ElementsOf, Zenon
<1>3. /\ r \in Seq(1..Frames) /\ Len(r) = Len(s) + 1 /\ r[1] = n /\ r # <<>>
      /\ \A i \in 1..Len(s) : r[i + 1] = s[i]
      /\ \A i \in 1..Len(r) : i # 1 => i - 1 \in 1..Len(s) /\ r[i] = s[i - 1]
  BY <1>1, <1>2
<1>4. \A x : x \in Range(r) <=> \E i \in 1..Len(r) : r[i] = x
  BY <1>3, ElementsOf, Zenon
<1>5. 1 \in 1..Len(r) /\ \A i \in 1..Len(s) : i + 1 \in 1..Len(r)
  BY <1>2, <1>3
<1>6. \A i \in 1..Len(s) : s[i] # n
  BY <1>2
<1> HIDE DEF r
<1>7. Distinct(r)
  BY <1>1, <1>2, <1>3, <1>6 DEF Distinct
<1>8. l[n] = h /\ \A i \in 1..Len(s) : l[s[i]] = links[s[i]]
  BY <1>2, <1>6
<1> HIDE DEF l
<1>9. Follows(l, r, n)
  <2>1. ASSUME NEW i \in 1..Len(r) PROVE l[r[i]] = IF i < Len(r) THEN r[i + 1] ELSE 0
    <3>1. CASE i = 1
      BY <1>1, <1>2, <1>3, <1>8, <3>1 DEF Follows
    <3>2. CASE i # 1
      <4>1. i - 1 \in 1..Len(s) /\ r[i] = s[i - 1] /\ (i < Len(r) <=> i - 1 < Len(s)) /\ (i - 1) + 1 = i
            /\ (i < Len(r) => i \in 1..Len(s))
        BY <1>2, <1>3, <3>2
      <4>2. links[s[i - 1]] = IF i - 1 < Len(s) THEN s[i] ELSE 0
        BY <1>1, <4>1 DEF Follows
      <4> QED
        BY <1>3, <1>8, <4>1, <4>2
    <3> QED
      BY <3>1, <3>2
  <2> QED
    BY <1>3, <2>1 DEF Follows
<1>10. Range(r) = Range(s) \cup {n}
  <2>1. ASSUME NEW x \in Range(r) PROVE x \in Range(s) \cup {n}
    <3>1. PICK i \in 1..Len(r) : r[i] = x
      BY <1>4, Zenon
    <3> QED
      BY <1>2, <1>3, <3>1, Zenon
  <2>2. ASSUME NEW x \in Range(s) PROVE x \in Range(r)
    <3>1. PICK i \in 1..Len(s) : s[i] = x
      BY <1>2, Zenon
    <3> QED
      BY <1>3, <1>4, <1>5, <3>1, Zenon
  <2>3. n \in Range(r)
    BY <1>3, <1>4, <1>5, Zenon
  <2> QED
    BY <2>1, <2>2, <2>3, Zenon
<1> QED
  BY <1>3, <1>7, <1>9, <1>10 DEF ChainOK, r, l

\* A link that is not of a chain
LEMMA Untouched ==
  ASSUME NEW links \in [1..Frames -> 0..Frames], NEW s, NEW h, ChainOK(links, s, h), NEW n, NEW x, n \notin Range(s)
  PROVE  ChainOK([links EXCEPT ![n] = x], s, h)
<1>1. s \in Seq(1..Frames) /\ Distinct(s) /\ Follows(links, s, h)
  BY DEF ChainOK
<1>2. /\ Len(s) \in Nat /\ \A i \in 1..Len(s) : s[i] \in 1..Frames
      /\ \A y : y \in Range(s) <=> \E i \in 1..Len(s) : s[i] = y
  BY <1>1, ElementsOf, Zenon
<1>3. \A i \in 1..Len(s) : [links EXCEPT ![n] = x][s[i]] = links[s[i]]
  BY <1>2
<1> QED
  BY <1>1, <1>3 DEF ChainOK, Follows

\* The two parts of a chain
LEMMA Parts ==
  ASSUME NEW s \in Seq(1..Frames), NEW j \in 1..Len(s)
  PROVE  LET a == SubSeq(s, 1, j)
             b == SubSeq(s, j + 1, Len(s))
         IN  /\ a \in Seq(1..Frames) /\ Len(a) = j /\ \A i \in 1..j : a[i] = s[i]
             /\ b \in Seq(1..Frames) /\ Len(b) = Len(s) - j /\ \A i \in 1..Len(s) - j : b[i] = s[i + j]
             /\ Range(s) = Range(a) \cup Range(b)
             /\ Distinct(s) => Range(a) \cap Range(b) = {}
<1> DEFINE a == SubSeq(s, 1, j)
           b == SubSeq(s, j + 1, Len(s))
<1>1. Len(s) \in Nat /\ j \in Nat /\ \A x : x \in Range(s) <=> \E i \in 1..Len(s) : s[i] = x
  BY ElementsOf
<1>2. /\ a \in Seq(1..Frames) /\ Len(a) = j /\ \A i \in 1..j : a[i] = s[i]
      /\ b \in Seq(1..Frames) /\ Len(b) = Len(s) - j /\ \A i \in 1..Len(s) - j : b[i] = s[i + j]
  <2>0. \A i \in 1..Len(s) : s[i] \in 1..Frames
    BY ElementsOf, Zenon
  <2>1. (\A i \in j + 1..Len(s) : s[i] \in 1..Frames) /\ j + 1 \in Int /\ Len(s) \in Int
    BY <1>1, <2>0
  <2>2. (\A i \in 1..j : s[i] \in 1..Frames) /\ 1 \in Int /\ j \in Int
    BY <1>1, <2>0
  <2>3. a \in Seq(1..Frames) /\ Len(a) = j /\ \A i \in 1..j : a[i] = s[i]
    <3>1. a \in Seq(1..Frames)
      BY <2>2, PartSeq, Zenon
    <3>2. Len(a) = j /\ \A i \in 1..j : a[i] = s[i]
      BY <1>1
    <3> QED
      BY <1>1, <3>1, <3>2
  <2>4. b \in Seq(1..Frames)
    BY <2>1, PartSeq, Zenon
  <2>5. Len(b) = Len(s) - j
    BY <1>1
  <2>6. \A i \in 1..Len(s) - j : b[i] = s[i + j]
    BY <1>1
  <2> QED
    BY <2>3, <2>4, <2>5, <2>6
<1> HIDE DEF a, b
<1>3. /\ \A x : x \in Range(a) <=> \E i \in 1..Len(a) : a[i] = x
      /\ \A x : x \in Range(b) <=> \E i \in 1..Len(b) : b[i] = x
  BY <1>2, ElementsOf, Zenon
<1>4. /\ \A x : x \in Range(a) <=> \E i \in 1..j : s[i] = x
      /\ \A x : x \in Range(b) <=> \E i \in 1..Len(s) - j : s[i + j] = x
  <2>1. \A x : x \in Range(a) <=> \E i \in 1..j : s[i] = x
    <3>1. \A x : x \in Range(a) <=> \E i \in 1..j : a[i] = x
      BY <1>2, <1>3
    <3> QED
      BY <1>2, <3>1, Zenon
  <2>2. \A x : x \in Range(b) <=> \E i \in 1..Len(s) - j : s[i + j] = x
    <3>1. \A x : x \in Range(b) <=> \E i \in 1..Len(s) - j : b[i] = x
      BY <1>2, <1>3
    <3> QED
      BY <1>2, <3>1, Zenon
  <2> QED
    BY <2>1, <2>2
<1>5. ASSUME NEW x PROVE x \in Range(s) <=> x \in Range(a) \/ x \in Range(b)
  <2>1. ASSUME x \in Range(s) PROVE x \in Range(a) \/ x \in Range(b)
    <3>1. PICK i \in 1..Len(s) : s[i] = x
      BY <1>1, <2>1, Zenon
    <3>2. CASE i <= j
      BY <1>1, <1>4, <3>1, <3>2
    <3>3. CASE ~(i <= j)
      <4>1. i - j \in 1..Len(s) - j /\ (i - j) + j = i
        BY <1>1, <3>3
      <4> QED
        BY <1>4, <3>1, <4>1, Zenon
    <3> QED
      BY <3>2, <3>3
  <2>2. ASSUME x \in Range(a) PROVE x \in Range(s)
    <3>1. PICK i \in 1..j : s[i] = x
      BY <1>4, <2>2, Zenon
    <3>2. i \in 1..Len(s)
      BY <1>1
    <3> QED
      BY <1>1, <3>1, <3>2, Zenon
  <2>3. ASSUME x \in Range(b) PROVE x \in Range(s)
    <3>1. PICK i \in 1..Len(s) - j : s[i + j] = x
      BY <1>4, <2>3, Zenon
    <3>2. i + j \in 1..Len(s)
      BY <1>1
    <3> QED
      BY <1>1, <3>1, <3>2, Zenon
  <2> QED
    BY <2>1, <2>2, <2>3
<1>6. ASSUME Distinct(s), NEW x, x \in Range(a), x \in Range(b) PROVE FALSE
  <2>1. PICK i \in 1..j : s[i] = x
    BY <1>4, <1>6, Zenon
  <2>2. PICK k \in 1..Len(s) - j : s[k + j] = x
    BY <1>4, <1>6, Zenon
  <2>3. i \in 1..Len(s) /\ k + j \in 1..Len(s) /\ i # k + j
    BY <1>1
  <2> QED
    BY <1>6, <2>1, <2>2, <2>3 DEF Distinct
<1>7. Range(s) = Range(a) \cup Range(b)
  BY <1>5, Zenon
<1>8. Distinct(s) => Range(a) \cap Range(b) = {}
  BY <1>6, Zenon
<1> QED
  BY <1>2, <1>7, <1>8 DEF a, b

\* The end of a chain is a chain.
LEMMA RestOfChain ==
  ASSUME NEW links, NEW s, NEW h, ChainOK(links, s, h), NEW j \in 1..Len(s)
  PROVE  ChainOK(links, SubSeq(s, j + 1, Len(s)), links[s[j]])
<1> DEFINE b == SubSeq(s, j + 1, Len(s))
<1>1. s \in Seq(1..Frames) /\ Distinct(s) /\ Follows(links, s, h)
  BY DEF ChainOK
<1>2. Len(s) \in Nat /\ j \in Nat
  BY <1>1, ElementsOf
<1>3. b \in Seq(1..Frames) /\ Len(b) = Len(s) - j /\ \A i \in 1..Len(s) - j : b[i] = s[i + j]
  BY <1>1, Parts
<1> HIDE DEF b
<1>4. \A i \in 1..Len(b) : i + j \in 1..Len(s) /\ b[i] = s[i + j] /\ (i < Len(b) <=> i + j < Len(s)) /\ (i + j) + 1 = (i + 1) + j
                           /\ (i < Len(b) => i + 1 \in 1..Len(b))
  BY <1>2, <1>3
<1>5. Distinct(b)
  <2> SUFFICES ASSUME NEW i \in 1..Len(b), NEW k \in 1..Len(b), b[i] = b[k] PROVE i = k
    BY DEF Distinct
  <2>1. i + j = k + j
    BY <1>1, <1>4 DEF Distinct
  <2> QED
    BY <1>2, <1>3, <2>1
<1>6. \A i \in 1..Len(b) : links[b[i]] = IF i < Len(b) THEN b[i + 1] ELSE 0
  <2> TAKE i \in 1..Len(b)
  <2>1. links[s[i + j]] = IF i + j < Len(s) THEN s[(i + j) + 1] ELSE 0
    BY <1>1, <1>4 DEF Follows
  <2> QED
    BY <1>4, <2>1
<1>7. links[s[j]] = IF b = <<>> THEN 0 ELSE b[1]
  <2>1. links[s[j]] = IF j < Len(s) THEN s[j + 1] ELSE 0
    BY <1>1 DEF Follows
  <2>2. (b = <<>> <=> Len(b) = 0) /\ (j < Len(s) <=> Len(b) # 0) /\ (j < Len(s) => 1 \in 1..Len(s) - j /\ 1 + j = j + 1)
    BY <1>2, <1>3
  <2> QED
    BY <1>3, <2>1, <2>2
<1> QED
  BY <1>3, <1>5, <1>6, <1>7 DEF ChainOK, Follows, b

\* Two chains without a frame in common
Apart(links, s, h, c, f) == ChainOK(links, s, h) /\ ChainOK(links, c, f) /\ Range(s) \cap Range(c) = {}

\* The beginning of a chain in front of another
LEMMA Joined ==
  ASSUME NEW links \in [1..Frames -> 0..Frames], NEW s, NEW h, NEW c, NEW f, Apart(links, s, h, c, f), NEW j \in 1..Len(s)
  PROVE  /\ ChainOK([links EXCEPT ![s[j]] = f], SubSeq(s, 1, j) \o c, s[1])
         /\ \A x : x \in Range(SubSeq(s, 1, j) \o c) <=> x \in Range(SubSeq(s, 1, j)) \/ x \in Range(c)
<1> DEFINE a == SubSeq(s, 1, j)
           r == a \o c
           l == [links EXCEPT ![s[j]] = f]
<1>1. s \in Seq(1..Frames) /\ Distinct(s) /\ Follows(links, s, h) /\ c \in Seq(1..Frames) /\ Distinct(c) /\ Follows(links, c, f)
  BY DEF ChainOK, Apart
<1>2. /\ Len(s) \in Nat /\ j \in Nat /\ Len(c) \in Nat /\ \A i \in 1..Len(s) : s[i] \in 1..Frames
      /\ \A i \in 1..Len(c) : c[i] \in 1..Frames
      /\ \A x : x \in Range(s) <=> \E i \in 1..Len(s) : s[i] = x
      /\ \A x : x \in Range(c) <=> \E i \in 1..Len(c) : c[i] = x
  <2>1. /\ Len(s) \in Nat /\ \A i \in 1..Len(s) : s[i] \in 1..Frames
        /\ \A x : x \in Range(s) <=> \E i \in 1..Len(s) : s[i] = x
    BY <1>1, ElementsOf, Zenon
  <2>2. /\ Len(c) \in Nat /\ \A i \in 1..Len(c) : c[i] \in 1..Frames
        /\ \A x : x \in Range(c) <=> \E i \in 1..Len(c) : c[i] = x
    BY <1>1, ElementsOf, Zenon
  <2> QED
    BY <2>1, <2>2
<1>3. a \in Seq(1..Frames) /\ Len(a) = j /\ \A i \in 1..j : a[i] = s[i]
  BY <1>1, Parts
<1> HIDE DEF a
<1>4. /\ r \in Seq(1..Frames) /\ Len(r) = j + Len(c)
      /\ \A i \in 1..j : r[i] = s[i]
      /\ \A i \in 1..Len(c) : r[i + j] = c[i]
      /\ \A i \in 1..Len(r) : ~(i <= j) => i - j \in 1..Len(c) /\ r[i] = c[i - j]
  <2>1. r \in Seq(1..Frames) /\ Len(r) = j + Len(c)
    BY <1>1, <1>3, ConcatSeq, Zenon
  <2>2. \A i \in 1..j : r[i] = s[i]
    BY <1>1, <1>2, <1>3
  <2>3. \A i \in 1..Len(c) : r[i + j] = c[i]
    BY <1>1, <1>2, <1>3
  <2> HIDE DEF r
  <2>4. \A i \in 1..Len(r) : ~(i <= j) => i - j \in 1..Len(c) /\ (i - j) + j = i
    BY <1>2, <2>1
  <2>5. \A i \in 1..Len(r) : ~(i <= j) => r[i] = c[i - j]
    BY <2>3, <2>4, Zenon
  <2> QED
    BY <2>1, <2>2, <2>3, <2>4, <2>5
<1> HIDE DEF r
<1>5. \A i \in 1..Len(s), k \in 1..Len(c) : s[i] # c[k]
  BY <1>2, Zenon DEF Apart
<1>6. Distinct(r)
  <2> SUFFICES ASSUME NEW i \in 1..Len(r), NEW k \in 1..Len(r), r[i] = r[k] PROVE i = k
    BY DEF Distinct
  <2>0. \A m \in 1..Len(r) : m <= j => m \in 1..Len(s) /\ r[m] = s[m]
    BY <1>2, <1>4
  <2>1. CASE i <= j /\ k <= j
    BY <1>1, <2>0, <2>1 DEF Distinct
  <2>2. CASE ~(i <= j) /\ ~(k <= j)
    <3>0. i - j \in 1..Len(c) /\ k - j \in 1..Len(c) /\ c[i - j] = c[k - j]
      BY <1>4, <2>2, Zenon
    <3>1. i - j = k - j
      BY <1>1, <3>0, Zenon DEF Distinct
    <3> QED
      BY <1>2, <1>4, <3>1
  <2>3. CASE i <= j /\ ~(k <= j)
    BY <1>4, <1>5, <2>0, <2>3
  <2>4. CASE ~(i <= j) /\ k <= j
    BY <1>4, <1>5, <2>0, <2>4
  <2> QED
    BY <2>1, <2>2, <2>3, <2>4
<1>7. /\ l[s[j]] = f /\ \A i \in 1..j - 1 : l[s[i]] = links[s[i]]
      /\ \A i \in 1..Len(c) : l[c[i]] = links[c[i]]
  <2>1. \A i \in 1..j - 1 : i \in 1..Len(s) /\ s[i] # s[j]
    BY <1>1, <1>2 DEF Distinct
  <2> QED
    BY <1>2, <1>5, <2>1
<1> HIDE DEF l
<1>8. ASSUME NEW i \in 1..Len(r) PROVE l[r[i]] = IF i < Len(r) THEN r[i + 1] ELSE 0
  <2>1. CASE i < j
    <3>1. i \in 1..j - 1 /\ i \in 1..j /\ i + 1 \in 1..j /\ i \in 1..Len(s) /\ i < Len(s) /\ i < Len(r)
      BY <1>2, <1>4, <2>1
    <3>2. links[s[i]] = s[i + 1]
      BY <1>1, <3>1 DEF Follows
    <3> QED
      BY <1>4, <1>7, <3>1, <3>2
  <2>2. CASE i = j
    <3>1. j \in 1..j /\ (i < Len(r) <=> Len(c) # 0) /\ (c = <<>> <=> Len(c) = 0) /\ (Len(c) # 0 => 1 \in 1..Len(c)) /\ 1 + j = j + 1
      BY <1>1, <1>2, <1>4, <2>2
    <3>2. f = IF c = <<>> THEN 0 ELSE c[1]
      BY <1>1 DEF Follows
    <3> QED
      BY <1>4, <1>7, <2>2, <3>1, <3>2
  <2>3. CASE ~(i <= j)
    <3>1. /\ i - j \in 1..Len(c) /\ r[i] = c[i - j] /\ (i < Len(r) <=> i - j < Len(c)) /\ i - j + 1 = (i - j) + 1
          /\ (i < Len(r) => (i - j) + 1 \in 1..Len(c) /\ ((i - j) + 1) + j = i + 1)
      BY <1>2, <1>4, <2>3
    <3>2. links[c[i - j]] = IF i - j < Len(c) THEN c[(i - j) + 1] ELSE 0
      BY <1>1, <3>1 DEF Follows
    <3> QED
      BY <1>4, <1>7, <3>1, <3>2
  <2> QED
    BY <1>2, <1>4, <2>1, <2>2, <2>3
<1>9. r # <<>> /\ r[1] = s[1]
  BY <1>2, <1>4
<1>10. \A x : x \in Range(r) <=> x \in Range(a) \/ x \in Range(c)
  <2>1. /\ \A x : x \in Range(a) <=> \E i \in 1..Len(a) : a[i] = x
        /\ \A x : x \in Range(r) <=> \E i \in 1..Len(r) : r[i] = x
    BY <1>3, <1>4, ElementsOf, Zenon
  <2>2. /\ \A i \in 1..j : i \in 1..Len(r) /\ i \in 1..Len(a)
        /\ \A i \in 1..Len(c) : i + j \in 1..Len(r)
        /\ \A i \in 1..Len(r) : i <= j => i \in 1..j
    BY <1>2, <1>3, <1>4
  <2>3. ASSUME NEW x \in Range(r) PROVE x \in Range(a) \cup Range(c)
    <3>1. PICK i \in 1..Len(r) : r[i] = x
      BY <2>1, Zenon
    <3> QED
      BY <1>2, <1>3, <1>4, <2>1, <2>2, <3>1, Zenon
  <2>4. ASSUME NEW x \in Range(a) PROVE x \in Range(r)
    BY <1>3, <1>4, <2>1, <2>2, Zenon
  <2>5. ASSUME NEW x \in Range(c) PROVE x \in Range(r)
    <3>1. PICK i \in 1..Len(c) : c[i] = x
      BY <1>2, Zenon
    <3>2. i + j \in 1..Len(r) /\ r[i + j] = x
      BY <1>4, <2>2, <3>1, Zenon
    <3> QED
      BY <2>1, <3>2, Zenon
  <2> QED
    BY <2>3, <2>4, <2>5, Zenon
<1>11. Follows(l, r, s[1])
  BY <1>8, <1>9 DEF Follows
<1> QED
  BY <1>4, <1>6, <1>10, <1>11 DEF ChainOK, a, r, l

-----------------------------------------------------------------------------
\* The inductive invariant

\* The cache
Free == Chain(frames, 0)

\* The cache and the stacks are chains that share no frame, and have every frame.
FramesInv ==
  /\ next \in [1..Frames -> 0..Frames] /\ dtor \in [1..Frames -> Dtors \cup {0}]
  /\ dtors \in [Threads -> 0..Frames] /\ used \in 0..Frames
  /\ ChainOK(next, Free, frames) /\ \A t \in Threads : ChainOK(next, Stack(t), dtors[t])
  /\ \A t \in Threads : Range(Stack(t)) \cap Range(Free) = {}
  /\ \A t, u \in Threads : t # u => Range(Stack(t)) \cap Range(Stack(u)) = {}
  /\ \A n \in 1..Frames : n <= used <=> n \in Range(Free) \/ \E t \in Threads : n \in Range(Stack(t))

\* A try frame of a thread
TryFrame(t) ==
  [clauses : [catch : SUBSET (DOMAIN Parent \cup {"Throwable"}), finally : BOOLEAN],
   state : {EXCEPTION_NEW, EXCEPTION_TRYING, EXCEPTION_CATCHING, EXCEPTION_FINISHING},
   at : {"test", "try", "catch", "finally"}, caught : BOOLEAN, cause : Types[t] \cup {NONE},
   dtor_frame : 0..Frames, depth : Nat, blocks : Seq({"try", "catch", "finally"})]

\* The blocks that have run when a frame is in its state
BlocksOf(f) ==
  (IF f.state = EXCEPTION_NEW THEN <<>> ELSE <<"try">>)
    \o (IF f.caught THEN <<"catch">> ELSE <<>>)
    \o (IF f.state = EXCEPTION_FINISHING /\ f.clauses.finally THEN <<"finally">> ELSE <<>>)

\* What a frame's fields say of each other
FrameInv(f) ==
  /\ f.blocks = BlocksOf(f)
  /\ f.state = EXCEPTION_NEW => f.at = "test" /\ f.cause = NONE /\ ~f.caught
  /\ f.state = EXCEPTION_TRYING => f.at \in {"test", "try"} /\ ~f.caught
  /\ f.state = EXCEPTION_CATCHING => /\ f.at \in {"test", "catch"} /\ (f.at = "catch" => f.caught)
                                     /\ f.cause # NONE
                                     /\ f.at = "catch" => exception_match(f)
                                     /\ ~f.caught => ~exception_match(f)
  /\ f.state = EXCEPTION_FINISHING => f.at \in {"test", "finally"}

\* The frame at the given number of destructors on a stack
Place(s, depth) == IF depth = 0 THEN 0 ELSE s[(Len(s) - depth) + 1]

\* The try frames of a thread go back to places of its stack, the inner ones to higher ones.
Depths(s, frs) ==
  /\ \A i \in 1..Len(frs) : frs[i].depth \in 0..Len(s) /\ frs[i].dtor_frame = Place(s, frs[i].depth)
  /\ \A i, j \in 1..Len(frs) : i <= j => frs[j].depth <= frs[i].depth

\* Only the innermost frame is between two blocks, and the outermost is that of kernel_main.
Nested(frs, over) ==
  /\ frs # <<>>
  /\ \A i \in 1..Len(frs) : FrameInv(frs[i]) /\ (i # 1 => frs[i].at # "test")
  /\ over \/ LET f == frs[Len(frs)] IN f.state = EXCEPTION_TRYING /\ (f.at = "test" => f.cause # NONE)

TryInv ==
  /\ panic \in BOOLEAN /\ DOMAIN tries = Threads
  /\ \A t \in Threads : /\ tries[t] \in Seq(TryFrame(t))
                        /\ Nested(tries[t], panic) /\ Depths(Stack(t), tries[t])

UnwindInv == FramesInv /\ TryInv

-----------------------------------------------------------------------------
\* What the operations do to the stacks and the cache

\* The stacks and the cache after a step are the chains there are.
LEMMA Rebuilt ==
  ASSUME NEW fr, ChainOK(next', fr, frames'), NEW st, \A u \in Threads : ChainOK(next', st[u], dtors'[u])
  PROVE  Free' = fr /\ \A u \in Threads : Stack(u)' = st[u]
<1>1. Free' = fr
  BY WholeChain DEF Free, Chain
<1>2. \A u \in Threads : Stack(u)' = st[u]
  BY WholeChain DEF Stack, Chain
<1> QED
  BY <1>1, <1>2

\* The stacks, the cache and their frames
LEMMA StackFacts ==
  ASSUME FramesInv, NEW t \in Threads
  PROVE  /\ ChainOK(next, Stack(t), dtors[t]) /\ Stack(t) \in Seq(1..Frames) /\ Len(Stack(t)) \in Nat
         /\ DOMAIN Stack(t) = 1..Len(Stack(t))
         /\ \A i \in 1..Len(Stack(t)) : Stack(t)[i] \in 1..Frames /\ Stack(t)[i] \in Range(Stack(t))
         /\ \A n \in Range(Stack(t)) : n \in 1..Frames
         /\ Range(Stack(t)) \cap Range(Free) = {}
         /\ \A u \in Threads : u # t => Range(Stack(t)) \cap Range(Stack(u)) = {}
<1>1. ChainOK(next, Stack(t), dtors[t]) /\ Stack(t) \in Seq(1..Frames)
  BY Zenon DEF FramesInv, ChainOK
<1>2. /\ Len(Stack(t)) \in Nat /\ DOMAIN Stack(t) = 1..Len(Stack(t)) /\ \A i \in 1..Len(Stack(t)) : Stack(t)[i] \in 1..Frames
      /\ \A x : x \in Range(Stack(t)) <=> \E i \in 1..Len(Stack(t)) : Stack(t)[i] = x
  BY <1>1, ElementsOf, Zenon
<1>3. \A i \in 1..Len(Stack(t)) : Stack(t)[i] \in Range(Stack(t))
  BY <1>2, Zenon
<1>4. \A n \in Range(Stack(t)) : n \in 1..Frames
  BY <1>2, Zenon
<1>5. Range(Stack(t)) \cap Range(Free) = {} /\ \A u \in Threads : u # t => Range(Stack(t)) \cap Range(Stack(u)) = {}
  BY Zenon DEF FramesInv
<1> QED
  BY <1>1, <1>2, <1>3, <1>4, <1>5, Zenon

LEMMA FreeFacts ==
  ASSUME FramesInv
  PROVE  /\ ChainOK(next, Free, frames) /\ Free \in Seq(1..Frames) /\ Len(Free) \in Nat
         /\ \A i \in 1..Len(Free) : Free[i] \in 1..Frames /\ Free[i] \in Range(Free)
         /\ \A n \in Range(Free) : n \in 1..Frames
         /\ frames = IF Free = <<>> THEN 0 ELSE Free[1]
<1>1. ChainOK(next, Free, frames) /\ Free \in Seq(1..Frames) /\ frames = IF Free = <<>> THEN 0 ELSE Free[1]
  BY Zenon DEF FramesInv, ChainOK, Follows
<1>2. /\ Len(Free) \in Nat /\ \A i \in 1..Len(Free) : Free[i] \in 1..Frames
      /\ \A x : x \in Range(Free) <=> \E i \in 1..Len(Free) : Free[i] = x
  BY <1>1, ElementsOf, Zenon
<1> QED
  BY <1>1, <1>2, Zenon

LEMMA SameFrames ==
  ASSUME UNCHANGED <<dtors, next, frames>>
  PROVE  Free' = Free /\ \A u \in Threads : Stack(u)' = Stack(u)
BY DEF Free, Stack, Chain

LEMMA FramesSame ==
  ASSUME FramesInv, UNCHANGED <<dtors, next, frames, used>>, dtor' \in [1..Frames -> Dtors \cup {0}]
  PROVE  FramesInv'
<1>1. Free' = Free /\ \A u \in Threads : Stack(u)' = Stack(u)
  BY SameFrames, Zenon
<1> QED
  BY <1>1 DEF FramesInv

\* dtor_push puts a frame of the cache, or a new one, on the stack of its thread.
LEMMA PushFrames ==
  ASSUME FramesInv, NEW t \in Threads, NEW d \in Dtors, dtor_push(t, d)
  PROVE  /\ FramesInv'
         /\ \E n \in 1..Frames : /\ \A u \in Threads : n \notin Range(Stack(u))
                                 /\ Stack(t)' = <<n>> \o Stack(t) /\ \A u \in Threads : u # t => Stack(u)' = Stack(u)
                                 /\ dtor' = [dtor EXCEPT ![n] = d]
<1> DEFINE n == IF frames # 0 THEN frames ELSE used + 1
           fr == IF frames # 0 THEN SubSeq(Free, 2, Len(Free)) ELSE Free
           st == [u \in Threads |-> IF u = t THEN <<n>> \o Stack(t) ELSE Stack(u)]
<1>1. /\ n <= Frames /\ (IF frames # 0 THEN frames' = next[n] /\ used' = used ELSE used' = n /\ frames' = frames)
      /\ next' = [next EXCEPT ![n] = dtors[t]] /\ dtor' = [dtor EXCEPT ![n] = d] /\ dtors' = [dtors EXCEPT ![t] = n]
  BY DEF dtor_push
<1>2. /\ next \in [1..Frames -> 0..Frames] /\ dtor \in [1..Frames -> Dtors \cup {0}]
      /\ dtors \in [Threads -> 0..Frames] /\ used \in 0..Frames /\ Frames \in Nat
      /\ \A m \in 1..Frames : m <= used <=> m \in Range(Free) \/ \E u \in Threads : m \in Range(Stack(u))
  BY UnwindAssumption DEF FramesInv
<1>3. /\ n \in 1..Frames /\ n \notin Range(fr) /\ (\A u \in Threads : n \notin Range(Stack(u)))
      /\ ChainOK(next, fr, frames')
      /\ \A m \in 1..Frames : (m \in Range(fr) \/ m = n \/ \E u \in Threads : m \in Range(Stack(u))) <=> m <= used'
      /\ \A m \in Range(fr) : m \in Range(Free)
  <2>1. CASE frames # 0
    <3>1. /\ 1 \in 1..Len(Free) /\ n = Free[1] /\ n \in 1..Frames /\ n \in Range(Free) /\ Free \in Seq(1..Frames)
          /\ ChainOK(next, Free, frames) /\ Distinct(Free) /\ Free # <<>>
      <4>1. Free # <<>> /\ n = Free[1] /\ Free \in Seq(1..Frames) /\ ChainOK(next, Free, frames) /\ Distinct(Free)
        BY <2>1, FreeFacts DEF ChainOK
      <4>2. 1 \in 1..Len(Free)
        BY <4>1
      <4> QED
        BY <4>1, <4>2, FreeFacts, Zenon
    <3>2. fr = SubSeq(Free, 1 + 1, Len(Free))
      BY <2>1
    <3>3. ChainOK(next, fr, next[n])
      BY <3>1, <3>2, RestOfChain, Zenon
    <3> DEFINE a == SubSeq(Free, 1, 1)
    <3>4. /\ a \in Seq(1..Frames) /\ Len(a) = 1 /\ \A i \in 1..1 : a[i] = Free[i]
          /\ Range(Free) = Range(a) \cup Range(fr) /\ Range(a) \cap Range(fr) = {}
      BY <3>1, <3>2, Parts, Zenon
    <3> HIDE DEF a, fr, n
    <3>5. \A x : x \in Range(a) <=> x = n
      <4>1. \A x : x \in Range(a) <=> \E i \in 1..Len(a) : a[i] = x
        BY <3>4, ElementsOf, Zenon
      <4> QED
        BY <3>1, <3>4, <4>1
    <3>6. \A u \in Threads : n \notin Range(Stack(u))
      BY <3>1, Zenon DEF FramesInv
    <3> QED
      BY <1>1, <1>2, <2>1, <3>1, <3>3, <3>4, <3>5, <3>6, Zenon
  <2>2. CASE frames = 0
    <3>1. n = used + 1 /\ fr = Free /\ n \in 1..Frames /\ ~(n <= used) /\ used' = n /\ frames' = frames
      BY <1>1, <1>2, <2>2
    <3>2. ChainOK(next, fr, frames')
      BY Zenon, <3>1 DEF FramesInv
    <3> HIDE DEF n, fr
    <3>3. \A m \in 1..Frames : m <= n <=> m <= used \/ m = n
      BY <1>2, <3>1
    <3> QED
      BY <1>2, <3>1, <3>2, <3>3, Zenon
  <2> QED
    BY <2>1, <2>2
<1> HIDE DEF n, fr
<1>4. ChainOK(next', fr, frames')
  BY <1>1, <1>2, <1>3, Untouched
<1>5. ASSUME NEW u \in Threads PROVE ChainOK(next', st[u], dtors'[u])
  <2>1. CASE u = t
    <3>1. ChainOK(next, Stack(t), dtors[t])
      BY Zenon DEF FramesInv
    <3>2. ChainOK(next', <<n>> \o Stack(t), n)
      BY <1>1, <1>2, <1>3, <3>1, Pushed, Zenon
    <3> QED
      BY <1>1, <1>2, <2>1, <3>2
  <2>2. CASE u # t
    <3>1. ChainOK(next, Stack(u), dtors[u])
      BY Zenon DEF FramesInv
    <3>2. ChainOK(next', Stack(u), dtors[u])
      BY <1>1, <1>2, <1>3, <3>1, Untouched, Zenon
    <3> QED
      BY <1>1, <1>2, <2>2, <3>2
  <2> QED
    BY <2>1, <2>2
<1>6. Free' = fr /\ \A u \in Threads : Stack(u)' = st[u]
  <2> HIDE DEF st
  <2> QED
    BY <1>4, <1>5, Rebuilt, Zenon
<1>7. Range(<<n>> \o Stack(t)) = Range(Stack(t)) \cup {n}
  <2>1. ChainOK(next, Stack(t), dtors[t])
    BY Zenon DEF FramesInv
  <2> QED
    BY <1>2, <1>3, <2>1, Pushed, Zenon
<1>8. /\ Stack(t)' = <<n>> \o Stack(t) /\ Range(Stack(t)') = Range(Stack(t)) \cup {n}
      /\ \A u \in Threads : u # t => Stack(u)' = Stack(u)
  BY <1>6, <1>7
<1> HIDE DEF st
<1>9. FramesInv'
  <2>1. /\ next' \in [1..Frames -> 0..Frames] /\ dtor' \in [1..Frames -> Dtors \cup {0}]
        /\ dtors' \in [Threads -> 0..Frames]
    BY <1>1, <1>2, <1>3
  <2>2. used' \in 0..Frames
    BY <1>1, <1>2, <1>3
  <2>3. \A u \in Threads : Range(Stack(u)') \cap Range(Free') = {}
    <3> TAKE u \in Threads
    <3>1. Range(Stack(u)) \cap Range(Free) = {}
      BY Zenon DEF FramesInv
    <3>2. \A m \in Range(Stack(u)') : m = n \/ m \in Range(Stack(u))
      BY <1>8, Zenon
    <3>3. \A m \in Range(Free') : m # n /\ m \in Range(Free)
      BY <1>3, <1>6, Zenon
    <3> QED
      BY <3>1, <3>2, <3>3, Zenon
  <2>4. \A u, v \in Threads : u # v => Range(Stack(u)') \cap Range(Stack(v)') = {}
    <3> TAKE u, v \in Threads
    <3>1. u # v => Range(Stack(u)) \cap Range(Stack(v)) = {}
      BY Zenon DEF FramesInv
    <3>2. n \notin Range(Stack(u)) /\ n \notin Range(Stack(v))
      BY <1>3, Zenon
    <3>3. \A w \in Threads : \A m \in Range(st[w]) : m \in Range(Stack(w)) \/ (m = n /\ w = t)
      <4> TAKE w \in Threads
      <4>1. CASE w = t
        BY <1>7, <4>1, Zenon DEF st
      <4>2. CASE w # t
        <5>1. st[w] = Stack(w)
          BY <4>2 DEF st
        <5> QED
          BY <5>1
      <4> QED
        BY <4>1, <4>2, Zenon
    <3>4. Stack(u)' = st[u] /\ Stack(v)' = st[v]
      BY <1>6, Zenon
    <3> QED
      BY <3>1, <3>2, <3>3, <3>4, Zenon
  <2>5. \A m \in 1..Frames : m <= used' <=> m \in Range(Free') \/ \E u \in Threads : m \in Range(Stack(u)')
    <3> TAKE m \in 1..Frames
    <3>1. (\E u \in Threads : m \in Range(Stack(u)')) <=> m = n \/ \E u \in Threads : m \in Range(Stack(u))
      BY <1>8, Zenon
    <3> QED
      BY <1>3, <1>6, <3>1, Zenon
  <2>6. ChainOK(next', Free', frames') /\ \A u \in Threads : ChainOK(next', Stack(u)', dtors'[u])
    BY <1>4, <1>5, <1>6, Zenon
  <2> QED
    BY <2>1, <2>2, <2>3, <2>4, <2>5, <2>6 DEF FramesInv
<1> QED
  BY <1>1, <1>3, <1>8, <1>9, Zenon

\* dtor_pop gives the top of the stack of its thread back to the cache.
LEMMA PopFrames ==
  ASSUME FramesInv, NEW t \in Threads, NEW j \in 0..Len(Stack(t)), NEW until,
         Chain(dtors[t], until) = SubSeq(Stack(t), 1, j), dtor_pop(t, until)
  PROVE  /\ FramesInv'
         /\ Stack(t)' = SubSeq(Stack(t), j + 1, Len(Stack(t))) /\ \A u \in Threads : u # t => Stack(u)' = Stack(u)
         /\ dtor' = [n \in 1..Frames |-> IF n \in Range(SubSeq(Stack(t), 1, j)) THEN 0 ELSE dtor[n]]
         /\ ran' = IF j = 0 THEN <<>> ELSE Pending(SubSeq(Stack(t), 1, j))
<1> DEFINE S == Stack(t)
           a == SubSeq(S, 1, j)
           b == SubSeq(S, j + 1, Len(S))
           st == [u \in Threads |-> IF u = t THEN b ELSE Stack(u)]
<1>1. /\ next \in [1..Frames -> 0..Frames] /\ dtor \in [1..Frames -> Dtors \cup {0}]
      /\ dtors \in [Threads -> 0..Frames] /\ used \in 0..Frames /\ Frames \in Nat
      /\ \A m \in 1..Frames : m <= used <=> m \in Range(Free) \/ \E u \in Threads : m \in Range(Stack(u))
  BY UnwindAssumption DEF FramesInv
<1>2. /\ ChainOK(next, S, dtors[t]) /\ S \in Seq(1..Frames) /\ Len(S) \in Nat
      /\ \A i \in 1..Len(S) : S[i] \in 1..Frames /\ S[i] \in Range(S)
      /\ Range(S) \cap Range(Free) = {} /\ Distinct(S)
  BY StackFacts DEF ChainOK
<1>3. CASE j = 0
  <2>1. a = <<>> /\ b = S
    BY <1>2, <1>3
  <2>2. Unchanged
    BY <2>1 DEF dtor_pop
  <2>3. Free' = Free /\ \A u \in Threads : Stack(u)' = Stack(u)
    BY <2>2, SameFrames DEF Unchanged
  <2>4. FramesInv'
    BY <1>1, <2>2, FramesSame DEF Unchanged
  <2>5. Range(a) = {}
    BY <2>1 DEF Range
  <2>6. dtor' = [n \in 1..Frames |-> IF n \in Range(a) THEN 0 ELSE dtor[n]]
    BY <1>1, <2>2, <2>5 DEF Unchanged
  <2> HIDE DEF a, b, S
  <2> QED
    BY <1>3, <2>1, <2>2, <2>3, <2>4, <2>6 DEF Unchanged, a, b, S
<1>4. CASE j # 0
  <2> DEFINE fr == a \o Free
  <2>1. j \in 1..Len(S)
    BY <1>2, <1>4
  <2>2. /\ a \in Seq(1..Frames) /\ Len(a) = j /\ (\A i \in 1..j : a[i] = S[i])
        /\ Range(S) = Range(a) \cup Range(b) /\ Range(a) \cap Range(b) = {} /\ b \in Seq(1..Frames)
    BY <1>2, <2>1, Parts, Zenon
  <2> HIDE DEF a, b, S
  <2>3. a # <<>> /\ Bottom(a) = S[j] /\ a[1] = S[1] /\ S[j] \in 1..Frames
    <3>1. 1 \in 1..j /\ j \in 1..j /\ j # 0
      BY <2>1, <1>2
    <3>2. a # <<>>
      BY <2>2, <3>1
    <3> QED
      BY <1>2, <2>1, <2>2, <3>1, <3>2 DEF Bottom
  <2>4. /\ ran' = Pending(a) /\ dtor' = [n \in 1..Frames |-> IF n \in Range(a) THEN 0 ELSE dtor[n]]
        /\ frames' = S[1] /\ next' = [next EXCEPT ![S[j]] = frames]
        /\ dtors' = [dtors EXCEPT ![t] = next[S[j]]] /\ used' = used
    <3>1. Chain(dtors[t], until) = a
      BY DEF a, S
    <3>2. DOMAIN dtor = 1..Frames
      BY <1>1
    <3> QED
      BY <2>3, <3>1, <3>2 DEF dtor_pop, Cached
  <2>5. ChainOK(next, Free, frames)
    BY FreeFacts, Zenon
  <2>6. ChainOK(next', fr, frames') /\ \A x : x \in Range(fr) <=> x \in Range(a) \/ x \in Range(Free)
    <3>1. /\ ChainOK([next EXCEPT ![S[j]] = frames], SubSeq(S, 1, j) \o Free, S[1])
          /\ \A x : x \in Range(SubSeq(S, 1, j) \o Free) <=> x \in Range(SubSeq(S, 1, j)) \/ x \in Range(Free)
      <4>1. Apart(next, S, dtors[t], Free, frames)
        BY <1>2, <2>5, Zenon DEF Apart
      <4>2. next \in [1..Frames -> 0..Frames]
        BY <1>1, Zenon
      <4>3. ChainOK([next EXCEPT ![S[j]] = frames], SubSeq(S, 1, j) \o Free, S[1])
        BY <2>1, <4>1, <4>2, Joined, Zenon
      <4>4. \A x : x \in Range(SubSeq(S, 1, j) \o Free) <=> x \in Range(SubSeq(S, 1, j)) \/ x \in Range(Free)
        BY <2>1, <4>1, <4>2, Joined, Zenon
      <4> QED
        BY <4>3, <4>4, Zenon
    <3> QED
      BY <2>4, <3>1 DEF a
  <2>7. ChainOK(next', b, dtors'[t])
    <3>1. ChainOK(next, b, next[S[j]])
      BY <1>2, <2>1, RestOfChain, Zenon DEF b
    <3>2. S[j] \in Range(a)
      <4>1. \A y : y \in Range(a) <=> \E i \in 1..Len(a) : a[i] = y
        BY <2>2, ElementsOf, Zenon
      <4>2. j \in 1..j
        BY <2>1, <1>2
      <4> QED
        BY <2>2, <4>1, <4>2, Zenon
    <3>3. S[j] \notin Range(b)
      BY <2>2, <3>2, Zenon
    <3>4. dtors'[t] = next[S[j]]
      BY <1>1, <2>4
    <3> QED
      BY <1>1, <2>4, <3>1, <3>3, <3>4, Untouched, Zenon
  <2>8. \A u \in Threads : ChainOK(next', st[u], dtors'[u])
    <3> TAKE u \in Threads
    <3>1. CASE u = t
      BY <2>7, <3>1
    <3>2. CASE u # t
      <4>1. ChainOK(next, Stack(u), dtors[u]) /\ Range(S) \cap Range(Stack(u)) = {}
        BY <3>2, Zenon DEF FramesInv, S
      <4>2. S[j] \notin Range(Stack(u))
        BY <1>2, <2>1, <4>1, Zenon
      <4>3. ChainOK(next', Stack(u), dtors[u])
        BY <1>1, <2>4, <4>1, <4>2, Untouched, Zenon
      <4>4. dtors'[u] = dtors[u] /\ st[u] = Stack(u)
        BY <1>1, <2>4, <3>2
      <4> QED
        BY <4>3, <4>4
    <3> QED
      BY <3>1, <3>2
  <2> HIDE DEF fr
  <2>9. Free' = fr /\ \A u \in Threads : Stack(u)' = st[u]
    <3> HIDE DEF st
    <3> QED
      BY <2>6, <2>8, Rebuilt, Zenon
  <2>10. Stack(t)' = b /\ \A u \in Threads : u # t => Stack(u)' = Stack(u)
    BY <2>9
  <2>11. \A w \in Threads : \A m : m \in Range(st[w]) <=> m \in Range(Stack(w)) /\ (w = t => m \notin Range(a))
    <3> TAKE w \in Threads
    <3> TAKE m
    <3>1. CASE w = t
      <4>1. st[w] = b /\ Stack(w) = S
        BY <3>1 DEF S
      <4> QED
        BY <2>2, <3>1, <4>1, Zenon
    <3>2. CASE w # t
      BY <3>2
    <3> QED
      BY <3>1, <3>2
  <2> HIDE DEF st
  <2>12. FramesInv'
    <3>1. /\ next' \in [1..Frames -> 0..Frames] /\ dtor' \in [1..Frames -> Dtors \cup {0}]
          /\ dtors' \in [Threads -> 0..Frames] /\ used' \in 0..Frames
      <4>1. frames \in 0..Frames
        <5>1. \A i \in 1..Len(Free) : Free[i] \in 1..Frames
          BY FreeFacts, Zenon
        <5>2. Free # <<>> => 1 \in 1..Len(Free)
          BY FreeFacts
        <5> QED
          BY <1>1, <5>1, <5>2, FreeFacts
      <4> QED
        BY <1>1, <2>3, <2>4, <4>1
    <3>2. \A u \in Threads : Range(Stack(u)') \cap Range(Free') = {}
      <4> TAKE u \in Threads
      <4>1. Range(Stack(u)) \cap Range(Free) = {} /\ (u # t => Range(Stack(u)) \cap Range(S) = {})
        BY Zenon DEF FramesInv, S
      <4>2. \A m \in Range(st[u]) : m \in Range(Stack(u)) /\ m \notin Range(a)
        BY <2>2, <2>11, <4>1, Zenon
      <4>3. Stack(u)' = st[u]
        BY <2>9, Zenon
      <4> QED
        BY <2>6, <2>9, <4>1, <4>2, <4>3, Zenon
    <3>3. \A u, v \in Threads : u # v => Range(Stack(u)') \cap Range(Stack(v)') = {}
      <4> TAKE u, v \in Threads
      <4>1. u # v => Range(Stack(u)) \cap Range(Stack(v)) = {}
        BY Zenon DEF FramesInv
      <4>2. Stack(u)' = st[u] /\ Stack(v)' = st[v]
        BY <2>9, Zenon
      <4> QED
        BY <2>11, <4>1, <4>2, Zenon
    <3>4. \A m \in 1..Frames : m <= used' <=> m \in Range(Free') \/ \E u \in Threads : m \in Range(Stack(u)')
      <4> TAKE m \in 1..Frames
      <4>1. m <= used <=> m \in Range(Free) \/ \E u \in Threads : m \in Range(Stack(u))
        BY <1>1, Zenon
      <4>2. (\E u \in Threads : m \in Range(Stack(u)')) <=> \E u \in Threads : m \in Range(st[u])
        BY <2>9, Zenon
      <4>3. m \in Range(Free') <=> m \in Range(a) \/ m \in Range(Free)
        BY <2>6, <2>9, Zenon
      <4>4. m \in Range(a) => m \in Range(Stack(t))
        BY <2>2, Zenon DEF S
      <4>5. (m \in Range(a) \/ \E u \in Threads : m \in Range(st[u])) <=> \E u \in Threads : m \in Range(Stack(u))
        BY <2>11, <4>4, Zenon
      <4> QED
        BY <2>4, <4>1, <4>2, <4>3, <4>5, Zenon
    <3>5. ChainOK(next', Free', frames') /\ \A u \in Threads : ChainOK(next', Stack(u)', dtors'[u])
      BY <2>6, <2>8, <2>9, Zenon
    <3> QED
      BY <3>1, <3>2, <3>3, <3>4, <3>5 DEF FramesInv
  <2> QED
    BY <1>4, <2>4, <2>10, <2>12 DEF a, b, S
<1> QED
  BY <1>3, <1>4

-----------------------------------------------------------------------------
\* The places that try frames go back to

LEMMA PlacesAbove ==
  ASSUME NEW s \in Seq(1..Frames), NEW n \in 1..Frames, NEW frs, Depths(s, frs)
  PROVE  Depths(<<n>> \o s, frs)
<1> DEFINE r == <<n>> \o s
<1>1. Len(s) \in Nat /\ Len(r) = Len(s) + 1 /\ \A i \in 1..Len(s) : r[i + 1] = s[i]
  OBVIOUS
<1> HIDE DEF r
<1>2. ASSUME NEW d \in 0..Len(s) PROVE d \in 0..Len(r) /\ Place(r, d) = Place(s, d)
  <2>1. d \in 0..Len(r)
    BY <1>1
  <2>2. d # 0 => (Len(s) - d) + 1 \in 1..Len(s) /\ (Len(r) - d) + 1 = ((Len(s) - d) + 1) + 1
    BY <1>1
  <2> QED
    BY <1>1, <2>1, <2>2 DEF Place
<1>3. \A i \in 1..Len(frs) : frs[i].depth \in 0..Len(r) /\ frs[i].dtor_frame = Place(r, frs[i].depth)
  BY <1>2, Zenon DEF Depths
<1> QED
  BY <1>3, Zenon DEF Depths, r

LEMMA PlacesBelow ==
  ASSUME NEW s \in Seq(1..Frames), NEW j \in 0..Len(s), NEW frs, frs # <<>>, NEW T, frs \in Seq(T), Depths(s, frs),
         frs[1].depth <= Len(s) - j
  PROVE  Depths(SubSeq(s, j + 1, Len(s)), frs)
<1> DEFINE r == SubSeq(s, j + 1, Len(s))
<1>1. Len(s) \in Nat /\ Len(r) = Len(s) - j /\ \A i \in 1..Len(s) - j : r[i] = s[i + j]
  OBVIOUS
<1> HIDE DEF r
<1>2. ASSUME NEW d \in 0..Len(s), d <= Len(s) - j PROVE d \in 0..Len(r) /\ Place(r, d) = Place(s, d)
  <2>1. d \in 0..Len(r)
    BY <1>1, <1>2
  <2>2. d # 0 => (Len(r) - d) + 1 \in 1..Len(s) - j /\ (Len(s) - d) + 1 = ((Len(r) - d) + 1) + j
    BY <1>1, <1>2
  <2> QED
    BY <1>1, <2>1, <2>2 DEF Place
<1>3. 1 \in 1..Len(frs) /\ Len(frs) \in Nat
  BY SeqFacts, EmptySeq
<1>4. \A i \in 1..Len(frs) : 1 <= i
  BY <1>3
<1>5. ASSUME NEW i \in 1..Len(frs) PROVE frs[i].depth <= Len(s) - j /\ frs[i].depth \in 0..Len(s)
  <2>1. frs[i].depth <= frs[1].depth /\ frs[i].depth \in 0..Len(s) /\ frs[1].depth \in 0..Len(s)
    BY <1>3, <1>4, Zenon DEF Depths
  <2> DEFINE x == frs[i].depth
             y == frs[1].depth
  <2>2. x <= y /\ x \in 0..Len(s) /\ y \in 0..Len(s) /\ y <= Len(s) - j
    BY <2>1
  <2> HIDE DEF x, y
  <2>3. x <= Len(s) - j
    BY <1>1, <2>2
  <2> QED
    BY <2>2, <2>3 DEF x
<1>6. \A i \in 1..Len(frs) : frs[i].depth \in 0..Len(r) /\ frs[i].dtor_frame = Place(r, frs[i].depth)
  BY <1>2, <1>5, Zenon DEF Depths
<1> QED
  BY <1>6, Zenon DEF Depths, r

\* The frames behind the innermost one
LEMMA Behind ==
  ASSUME NEW T, NEW s \in Seq(T), Len(s) > 1
  PROVE  /\ Tail(s) \in Seq(T) /\ Len(Tail(s)) = Len(s) - 1 /\ Len(s) \in Nat /\ Tail(s) # <<>>
         /\ \A i \in 1..Len(s) - 1 : Tail(s)[i] = s[i + 1] /\ i + 1 \in 1..Len(s)
<1>1. s # <<>> /\ Len(s) \in Nat
  OBVIOUS
<1>2. Tail(s) \in Seq(T) /\ Len(Tail(s)) = Len(s) - 1 /\ \A i \in 1..Len(s) - 1 : Tail(s)[i] = s[i + 1]
  BY <1>1, TailSeq, Zenon
<1>3. Tail(s) # <<>>
  <2>1. Len(Tail(s)) # 0
    BY <1>1, <1>2
  <2>2. Len(<<>>) = 0
    OBVIOUS
  <2> QED
    BY <2>1, <2>2, Zenon
<1>4. \A i \in 1..Len(s) - 1 : i + 1 \in 1..Len(s)
  BY <1>1
<1> QED
  BY <1>1, <1>2, <1>3, <1>4, Zenon

LEMMA PlacesBehind ==
  ASSUME NEW s, NEW T, NEW frs \in Seq(T), Len(frs) > 1, Depths(s, frs)
  PROVE  Depths(s, Tail(frs))
<1> DEFINE r == Tail(frs)
<1>1. Len(r) = Len(frs) - 1 /\ Len(frs) \in Nat /\ \A i \in 1..Len(frs) - 1 : r[i] = frs[i + 1] /\ i + 1 \in 1..Len(frs)
  BY Behind, Zenon
<1> HIDE DEF r
<1>2. \A i \in 1..Len(r) : r[i] = frs[i + 1] /\ i + 1 \in 1..Len(frs)
  BY <1>1
<1>3. \A i, k \in 1..Len(r) : i <= k => i + 1 <= k + 1
  BY <1>1
<1>4. \A i \in 1..Len(r) : r[i].depth \in 0..Len(s) /\ r[i].dtor_frame = Place(s, r[i].depth)
  BY <1>2, Zenon DEF Depths
<1>5. \A i, k \in 1..Len(r) : i <= k => r[k].depth <= r[i].depth
  BY <1>2, <1>3, Zenon DEF Depths
<1> QED
  BY <1>4, <1>5, Zenon DEF Depths, r

LEMMA PlacesSame ==
  ASSUME NEW s, NEW frs, Depths(s, frs), NEW grs, Len(grs) = Len(frs),
         \A i \in 1..Len(frs) : grs[i].depth = frs[i].depth /\ grs[i].dtor_frame = frs[i].dtor_frame
  PROVE  Depths(s, grs)
<1>1. \A i \in 1..Len(grs) : grs[i].depth \in 0..Len(s) /\ grs[i].dtor_frame = Place(s, grs[i].depth)
  BY Zenon DEF Depths
<1>2. \A i, j \in 1..Len(grs) : i <= j => grs[j].depth <= grs[i].depth
  BY Zenon DEF Depths
<1> QED
  BY <1>1, <1>2, Zenon DEF Depths

LEMMA PlacesTry ==
  ASSUME NEW s, Len(s) \in Nat, NEW T, NEW frs \in Seq(T), NEW f \in T, Depths(s, frs),
         f.depth = Len(s), f.dtor_frame = Place(s, Len(s))
  PROVE  Depths(s, <<f>> \o frs)
<1> DEFINE r == <<f>> \o frs
<1>1. Len(r) = Len(frs) + 1 /\ Len(frs) \in Nat /\ r[1] = f /\ \A i \in 1..Len(frs) : r[i + 1] = frs[i]
  OBVIOUS
<1> HIDE DEF r
<1>2. \A i \in 1..Len(r) : i # 1 => i - 1 \in 1..Len(frs) /\ (i - 1) + 1 = i
  BY <1>1
<1>3. \A i \in 1..Len(r) : i # 1 => r[i] = frs[i - 1]
  BY <1>1, <1>2, Zenon
<1>4. ASSUME NEW i \in 1..Len(r) PROVE r[i].depth \in 0..Len(s) /\ r[i].dtor_frame = Place(s, r[i].depth)
  <2>1. CASE i = 1
    BY <1>1, <2>1
  <2>2. CASE i # 1
    BY <1>2, <1>3, <2>2, Zenon DEF Depths
  <2> QED
    BY <2>1, <2>2
<1>5. ASSUME NEW i \in 1..Len(r), NEW k \in 1..Len(r), i <= k PROVE r[k].depth <= r[i].depth
  <2>1. CASE i = 1
    <3>1. r[i].depth = Len(s) /\ r[k].depth \in 0..Len(s)
      BY <1>1, <1>4, <2>1
    <3> DEFINE x == r[k].depth
    <3>2. x \in 0..Len(s)
      BY <3>1
    <3> HIDE DEF x
    <3>3. x <= Len(s)
      BY <3>2
    <3> QED
      BY <3>1, <3>3 DEF x
  <2>2. CASE i # 1
    <3>1. k # 1 /\ i - 1 <= k - 1
      BY <1>1, <1>5, <2>2
    <3> QED
      BY <1>2, <1>3, <2>2, <3>1, Zenon DEF Depths
  <2> QED
    BY <2>1, <2>2
<1> QED
  BY <1>4, <1>5, Zenon DEF Depths, r

-----------------------------------------------------------------------------
\* The steps of a try frame

Names == {"try", "catch", "finally"}

\* A block after those of a sequence
LEMMA OneMore ==
  ASSUME NEW s \in Seq(Names), NEW b \in Names
  PROVE  Append(s \o <<>>, b) = s \o <<b>> /\ s \o <<b>> \in Seq(Names)
<1>1. s \o <<>> = s
  BY ConcatEmpty, Zenon
<1>2. <<b>> \in Seq(Names)
  OBVIOUS
<1> QED
  BY <1>1, <1>2, AppendConcat, ConcatSeq, Zenon

\* The blocks as they are in each state
LEMMA BlocksInState ==
  /\ <<>> \in Seq(Names) /\ <<"try">> \in Seq(Names) /\ <<"try">> \o <<"catch">> \in Seq(Names)
  /\ <<>> \o <<>> = <<>> /\ <<"try">> \o <<>> = <<"try">> /\ (<<"try">> \o <<"catch">>) \o <<>> = <<"try">> \o <<"catch">>
<1>1. <<>> \in Seq(Names) /\ <<"try">> \in Seq(Names) /\ <<"catch">> \in Seq(Names)
  BY DEF Names
<1>2. <<"try">> \o <<"catch">> \in Seq(Names)
  BY <1>1, ConcatSeq, Zenon
<1> QED
  BY <1>1, <1>2, ConcatEmpty, Zenon

\* A try statement begins.
LEMMA FrameNew ==
  ASSUME NEW t \in Threads, NEW c \in Clauses, NEW until \in 0..Frames, NEW depth \in Nat
  PROVE  LET f == Try(c, EXCEPTION_NEW, "test", until, depth)
         IN  /\ f \in TryFrame(t) /\ FrameInv(f) /\ f.depth = depth /\ f.dtor_frame = until
<1> DEFINE f == Try(c, EXCEPTION_NEW, "test", until, depth)
<1>1. /\ f.clauses = c /\ f.state = "new" /\ f.at = "test" /\ f.caught = FALSE /\ f.cause = NONE /\ f.blocks = <<>>
      /\ f.depth = depth /\ f.dtor_frame = until
  BY DEF Try, EXCEPTION_NEW
<1>2. BlocksOf(f) = <<>>
  BY <1>1, BlocksInState DEF BlocksOf, EXCEPTION_NEW, EXCEPTION_FINISHING
<1>3. f \in TryFrame(t)
  <2>1. c \in [catch : SUBSET (DOMAIN Parent \cup {"Throwable"}), finally : BOOLEAN]
    BY UnwindAssumption
  <2>2. <<>> \in Seq({"try", "catch", "finally"})
    OBVIOUS
  <2> QED
    BY <2>1, <2>2 DEF TryFrame, Try, EXCEPTION_NEW
<1> HIDE DEF f
<1>4. FrameInv(f)
  BY <1>1, <1>2 DEF FrameInv, EXCEPTION_NEW, EXCEPTION_TRYING, EXCEPTION_CATCHING, EXCEPTION_FINISHING
<1> QED
  BY <1>1, <1>3, <1>4 DEF f

\* The try statement of kernel_main
LEMMA FrameMain ==
  ASSUME NEW t \in Threads
  PROVE  LET f == Try(KernelMain, EXCEPTION_TRYING, "try", 0, 0)
         IN  f \in TryFrame(t) /\ FrameInv(f) /\ f.depth = 0 /\ f.dtor_frame = 0 /\ f.state = EXCEPTION_TRYING /\ f.at = "try"
<1> DEFINE f == Try(KernelMain, EXCEPTION_TRYING, "try", 0, 0)
<1>1. /\ f.state = "trying" /\ f.at = "try" /\ f.caught = FALSE /\ f.cause = NONE /\ f.blocks = <<"try">>
      /\ f.depth = 0 /\ f.dtor_frame = 0
  BY DEF Try, EXCEPTION_TRYING
<1>2. BlocksOf(f) = <<"try">>
  BY <1>1, BlocksInState DEF BlocksOf, EXCEPTION_NEW, EXCEPTION_FINISHING
<1>3. f \in TryFrame(t)
  <2>1. KernelMain \in [catch : SUBSET (DOMAIN Parent \cup {"Throwable"}), finally : BOOLEAN]
    BY DEF KernelMain
  <2>2. <<"try">> \in Seq({"try", "catch", "finally"}) /\ 0 \in 0..Frames
    BY UnwindAssumption
  <2> QED
    BY <2>1, <2>2 DEF TryFrame, Try, EXCEPTION_TRYING
<1> HIDE DEF f
<1>4. FrameInv(f)
  BY <1>1, <1>2 DEF FrameInv, EXCEPTION_NEW, EXCEPTION_TRYING, EXCEPTION_CATCHING, EXCEPTION_FINISHING
<1> QED
  BY <1>1, <1>3, <1>4 DEF f, EXCEPTION_TRYING

\* A frame whose fields are known
Same(g, f) == g.clauses = f.clauses /\ g.dtor_frame = f.dtor_frame /\ g.depth = f.depth

\* The innermost frame of Thrown
ThrownFrame(f, type) == [f EXCEPT !.cause = type, !.at = "test"]

\* A block throws an exception.
LEMMA FrameThrown ==
  ASSUME NEW t \in Threads, NEW f \in TryFrame(t), FrameInv(f), f.at # "test", NEW type \in Types[t]
  PROVE  LET g == ThrownFrame(f, type)
         IN  g \in TryFrame(t) /\ FrameInv(g) /\ Same(g, f) /\ g.state = f.state /\ g.cause = type /\ g.at = "test"
<1> DEFINE g == ThrownFrame(f, type)
<1>1. /\ g.clauses = f.clauses /\ g.state = f.state /\ g.at = "test" /\ g.caught = f.caught /\ g.cause = type
      /\ g.blocks = f.blocks /\ g.depth = f.depth /\ g.dtor_frame = f.dtor_frame
  BY DEF TryFrame, ThrownFrame
<1>0. type # NONE
  BY UnwindAssumption
<1>2. g \in TryFrame(t)
  BY DEF TryFrame, ThrownFrame
<1> HIDE DEF g
<1>3. BlocksOf(g) = BlocksOf(f)
  BY <1>1 DEF BlocksOf
<1>4. FrameInv(g)
  BY <1>0, <1>1, <1>3 DEF FrameInv, EXCEPTION_NEW, EXCEPTION_TRYING, EXCEPTION_CATCHING, EXCEPTION_FINISHING
<1> QED
  BY <1>1, <1>2, <1>4 DEF Same, g

\* A block ends.
LEMMA FrameEnds ==
  ASSUME NEW t \in Threads, NEW f \in TryFrame(t), FrameInv(f), f.at # "test"
  PROVE  LET g == [f EXCEPT !.at = "test"] IN g \in TryFrame(t) /\ FrameInv(g) /\ Same(g, f)
<1> DEFINE g == [f EXCEPT !.at = "test"]
<1>1. /\ g.clauses = f.clauses /\ g.state = f.state /\ g.at = "test" /\ g.caught = f.caught /\ g.cause = f.cause
      /\ g.blocks = f.blocks /\ g.depth = f.depth /\ g.dtor_frame = f.dtor_frame
  BY DEF TryFrame
<1>2. g \in TryFrame(t)
  BY DEF TryFrame
<1> HIDE DEF g
<1>3. BlocksOf(g) = BlocksOf(f)
  BY <1>1 DEF BlocksOf
<1>4. FrameInv(g)
  BY <1>1, <1>3 DEF FrameInv, EXCEPTION_NEW, EXCEPTION_TRYING, EXCEPTION_CATCHING, EXCEPTION_FINISHING
<1> QED
  BY <1>1, <1>2, <1>4 DEF Same, g

-----------------------------------------------------------------------------
\* The steps that exception_finished takes a frame

LEMMA FrameTrying ==
  ASSUME NEW t \in Threads, NEW f \in TryFrame(t), FrameInv(f), f.state = EXCEPTION_NEW
  PROVE  LET g == Runs([f EXCEPT !.state = EXCEPTION_TRYING], "try")
         IN  g \in TryFrame(t) /\ FrameInv(g) /\ Same(g, f) /\ g.state = EXCEPTION_TRYING /\ g.at = "try"
<1> DEFINE g == Runs([f EXCEPT !.state = EXCEPTION_TRYING], "try")
<1>0. f.caught = FALSE /\ f.state = "new" /\ f.blocks = BlocksOf(f) /\ f.blocks \in Seq({"try", "catch", "finally"})
  BY DEF FrameInv, TryFrame, EXCEPTION_NEW
<1>1. /\ g.clauses = f.clauses /\ g.state = "trying" /\ g.at = "try" /\ g.caught = f.caught /\ g.cause = f.cause
      /\ g.blocks = Append(f.blocks, "try") /\ g.depth = f.depth /\ g.dtor_frame = f.dtor_frame
  BY DEF TryFrame, Runs, EXCEPTION_TRYING
<1>2. f.blocks = <<>>
  BY <1>0, BlocksInState DEF BlocksOf, EXCEPTION_NEW, EXCEPTION_FINISHING
<1>3. g \in TryFrame(t)
  <2>1. Append(f.blocks, "try") \in Seq({"try", "catch", "finally"})
    BY <1>0
  <2> QED
    BY Zenon, <2>1 DEF TryFrame, Runs, EXCEPTION_TRYING
<1> HIDE DEF g
<1>4. BlocksOf(g) = <<"try">>
  BY <1>0, <1>1, BlocksInState DEF BlocksOf, EXCEPTION_NEW, EXCEPTION_FINISHING
<1>5. g.blocks = BlocksOf(g)
  BY <1>1, <1>2, <1>4
<1>6. FrameInv(g)
  BY <1>0, <1>1, <1>5 DEF FrameInv, EXCEPTION_NEW, EXCEPTION_TRYING, EXCEPTION_CATCHING, EXCEPTION_FINISHING
<1> QED
  BY <1>1, <1>3, <1>6 DEF Same, g, EXCEPTION_TRYING

\* exception_match finds a clause for the exception, or there is none.
LEMMA FrameCatching ==
  ASSUME NEW t \in Threads, NEW f \in TryFrame(t), FrameInv(f), f.state = EXCEPTION_TRYING, f.cause # NONE
  PROVE  Catching(f) \in TryFrame(t) /\ FrameInv(Catching(f)) /\ Same(Catching(f), f)
<1> DEFINE g == Catching(f)
<1>0. f.caught = FALSE /\ f.state = "trying" /\ f.blocks = BlocksOf(f) /\ f.blocks \in Seq({"try", "catch", "finally"})
  BY DEF FrameInv, TryFrame, EXCEPTION_TRYING
<1>1. f.blocks = <<"try">>
  BY Zenon, <1>0, BlocksInState DEF BlocksOf, EXCEPTION_NEW, EXCEPTION_FINISHING
<1>2. CASE exception_match(f)
  <2>0. g = Runs([[f EXCEPT !.state = EXCEPTION_CATCHING] EXCEPT !.caught = TRUE], "catch")
    BY <1>2 DEF Catching
  <2>1. /\ g.clauses = f.clauses /\ g.state = "catching" /\ g.at = "catch" /\ g.caught = TRUE /\ g.cause = f.cause
        /\ g.blocks = Append(f.blocks, "catch") /\ g.depth = f.depth /\ g.dtor_frame = f.dtor_frame
    BY <2>0 DEF TryFrame, Runs, EXCEPTION_CATCHING
  <2>2. g \in TryFrame(t)
    <3>1. Append(f.blocks, "catch") \in Seq({"try", "catch", "finally"})
      BY <1>0
    <3> QED
      BY <2>0, <3>1 DEF TryFrame, Runs, EXCEPTION_CATCHING
  <2> HIDE DEF g
  <2>3. BlocksOf(g) = <<"try">> \o <<"catch">>
    BY <2>1, BlocksInState DEF BlocksOf, EXCEPTION_NEW, EXCEPTION_FINISHING
  <2>4. g.blocks = BlocksOf(g)
    BY <1>1, <2>1, <2>3
  <2>5. exception_match(g)
    BY <1>2, <2>1 DEF exception_match
  <2>6. FrameInv(g)
    BY <2>1, <2>4, <2>5 DEF FrameInv, EXCEPTION_NEW, EXCEPTION_TRYING, EXCEPTION_CATCHING, EXCEPTION_FINISHING
  <2> QED
    BY <2>1, <2>2, <2>6 DEF Same, g
<1>3. CASE ~exception_match(f)
  <2>0. g = [[f EXCEPT !.state = EXCEPTION_CATCHING] EXCEPT !.at = "test"]
    BY <1>3 DEF Catching
  <2>1. /\ g.clauses = f.clauses /\ g.state = "catching" /\ g.at = "test" /\ g.caught = FALSE /\ g.cause = f.cause
        /\ g.blocks = f.blocks /\ g.depth = f.depth /\ g.dtor_frame = f.dtor_frame
    BY <1>0, <2>0 DEF TryFrame, EXCEPTION_CATCHING
  <2>2. g \in TryFrame(t)
    BY Zenon, <2>0 DEF TryFrame, EXCEPTION_CATCHING
  <2> HIDE DEF g
  <2>3. BlocksOf(g) = <<"try">>
    BY <2>1, BlocksInState DEF BlocksOf, EXCEPTION_NEW, EXCEPTION_FINISHING
  <2>4. g.blocks = BlocksOf(g)
    BY <1>1, <2>1, <2>3
  <2>5. ~exception_match(g)
    BY <1>3, <2>1 DEF exception_match
  <2>6. FrameInv(g)
    BY <2>1, <2>4, <2>5 DEF FrameInv, EXCEPTION_NEW, EXCEPTION_TRYING, EXCEPTION_CATCHING, EXCEPTION_FINISHING
  <2> QED
    BY <2>1, <2>2, <2>6 DEF Same, g
<1> QED
  BY <1>2, <1>3

LEMMA FrameFinishing ==
  ASSUME NEW t \in Threads, NEW f \in TryFrame(t), FrameInv(f), f.state \in {EXCEPTION_TRYING, EXCEPTION_CATCHING}
  PROVE  Finishing(f) \in TryFrame(t) /\ FrameInv(Finishing(f)) /\ Same(Finishing(f), f)
<1> DEFINE g == Finishing(f)
           e == IF f.caught THEN <<"catch">> ELSE <<>>
           b == <<"try">> \o e
<1>0. /\ f.caught \in BOOLEAN /\ f.blocks = BlocksOf(f) /\ f.blocks \in Seq({"try", "catch", "finally"})
      /\ f.state \in {"trying", "catching"} /\ f.clauses.finally \in BOOLEAN
  BY DEF FrameInv, TryFrame, EXCEPTION_TRYING, EXCEPTION_CATCHING
<1>1. f.blocks = b \o <<>>
  BY <1>0 DEF BlocksOf, EXCEPTION_NEW, EXCEPTION_FINISHING
<1>2. b \in Seq(Names) /\ b \o <<>> = b
  BY <1>0, BlocksInState
<1>3. Append(b \o <<>>, "finally") = b \o <<"finally">>
  <2> HIDE DEF b
  <2>1. "finally" \in Names
    BY DEF Names
  <2> QED
    BY <1>2, <2>1, OneMore, Zenon
<1> HIDE DEF b
<1>4. CASE f.clauses.finally
  <2>0. g = Runs([f EXCEPT !.state = EXCEPTION_FINISHING], "finally")
    BY <1>4 DEF Finishing
  <2>1. /\ g.clauses = f.clauses /\ g.state = "finishing" /\ g.at = "finally" /\ g.caught = f.caught /\ g.cause = f.cause
        /\ g.blocks = Append(f.blocks, "finally") /\ g.depth = f.depth /\ g.dtor_frame = f.dtor_frame
    BY <2>0 DEF TryFrame, Runs, EXCEPTION_FINISHING
  <2>2. g \in TryFrame(t)
    <3>1. Append(f.blocks, "finally") \in Seq({"try", "catch", "finally"})
      BY <1>0
    <3> QED
      BY <2>0, <3>1 DEF TryFrame, Runs, EXCEPTION_FINISHING
  <2> HIDE DEF g
  <2>3. BlocksOf(g) = b \o <<"finally">>
    BY <1>4, <2>1 DEF BlocksOf, EXCEPTION_NEW, EXCEPTION_FINISHING, b
  <2>4. g.blocks = BlocksOf(g)
    BY <1>1, <1>3, <2>1, <2>3
  <2>5. FrameInv(g)
    BY <2>1, <2>4 DEF FrameInv, EXCEPTION_NEW, EXCEPTION_TRYING, EXCEPTION_CATCHING, EXCEPTION_FINISHING
  <2> QED
    BY <2>1, <2>2, <2>5 DEF Same, g
<1>5. CASE ~f.clauses.finally
  <2>0. g = [[f EXCEPT !.state = EXCEPTION_FINISHING] EXCEPT !.at = "test"]
    BY <1>5 DEF Finishing
  <2>1. /\ g.clauses = f.clauses /\ g.state = "finishing" /\ g.at = "test" /\ g.caught = f.caught /\ g.cause = f.cause
        /\ g.blocks = f.blocks /\ g.depth = f.depth /\ g.dtor_frame = f.dtor_frame
    BY <2>0 DEF TryFrame, EXCEPTION_FINISHING
  <2>2. g \in TryFrame(t)
    BY <2>0 DEF TryFrame, EXCEPTION_FINISHING
  <2> HIDE DEF g
  <2>3. BlocksOf(g) = b \o <<>>
    BY <1>5, <2>1 DEF BlocksOf, EXCEPTION_NEW, EXCEPTION_FINISHING, b
  <2>4. g.blocks = BlocksOf(g)
    BY <1>1, <2>1, <2>3
  <2>5. FrameInv(g)
    BY <2>1, <2>4 DEF FrameInv, EXCEPTION_NEW, EXCEPTION_TRYING, EXCEPTION_CATCHING, EXCEPTION_FINISHING
  <2> QED
    BY <2>1, <2>2, <2>5 DEF Same, g
<1> QED
  BY <1>0, <1>4, <1>5

-----------------------------------------------------------------------------
\* Try statements inside one another

\* Another innermost frame
LEMMA Replaced ==
  ASSUME NEW T, NEW s \in Seq(T), s # <<>>, NEW x \in T
  PROVE  LET r == [s EXCEPT ![1] = x]
         IN  /\ r \in Seq(T) /\ Len(r) = Len(s) /\ r # <<>> /\ 1 \in 1..Len(s) /\ Len(s) \in Nat /\ s[1] \in T
             /\ r[1] = x /\ \A i \in 1..Len(s) : i # 1 => r[i] = s[i]
<1> DEFINE r == [s EXCEPT ![1] = x]
<1>1. Len(s) \in Nat /\ 1 \in 1..Len(s) /\ DOMAIN s = 1..Len(s) /\ s[1] \in T
  <2>1. Len(s) \in Nat /\ DOMAIN s = 1..Len(s) /\ Len(s) # 0
    BY SeqFacts, EmptySeq
  <2>2. 1 \in 1..Len(s)
    BY <2>1
  <2> QED
    BY <2>1, <2>2, SeqFacts, Zenon
<1>2. r \in Seq(T) /\ Len(r) = Len(s) /\ r[1] = x /\ \A i \in 1..Len(s) : i # 1 => r[i] = s[i]
  BY <1>1, ExceptSeq
<1> HIDE DEF r
<1>3. r # <<>>
  BY <1>1, <1>2
<1> QED
  BY <1>1, <1>2, <1>3 DEF r

LEMMA NestedReplaced ==
  ASSUME NEW T, NEW frs \in Seq(T), NEW x \in T, FrameInv(x), NEW over, Nested(frs, over), NEW more, over => more,
         more \/ Len(frs) > 1 \/ (x.state = EXCEPTION_TRYING /\ (x.at = "test" => x.cause # NONE))
  PROVE  Nested([frs EXCEPT ![1] = x], more)
<1> DEFINE r == [frs EXCEPT ![1] = x]
<1>0. frs # <<>>
  BY DEF Nested
<1>1. /\ Len(r) = Len(frs) /\ r # <<>> /\ Len(frs) \in Nat /\ r[1] = x
      /\ \A i \in 1..Len(frs) : i # 1 => r[i] = frs[i]
  BY <1>0, Replaced
<1> HIDE DEF r
<1>2. \A i \in 1..Len(r) : FrameInv(r[i]) /\ (i # 1 => r[i].at # "test")
  <2> TAKE i \in 1..Len(r)
  <2>1. CASE i = 1
    BY <1>1, <2>1
  <2>2. CASE i # 1
    BY <1>1, <2>2, Zenon DEF Nested
  <2> QED
    BY <2>1, <2>2
<1>3. ASSUME ~more PROVE LET f == r[Len(r)] IN f.state = EXCEPTION_TRYING /\ (f.at = "test" => f.cause # NONE)
  <2>1. CASE Len(frs) > 1
    <3>1. Len(r) \in 1..Len(frs) /\ Len(r) # 1
      BY <1>1, <2>1
    <3> QED
      BY <1>1, <1>3, <3>1, Zenon DEF Nested
  <2>2. CASE ~(Len(frs) > 1)
    <3>1. Len(r) = 1
      BY <1>1, <2>2
    <3> QED
      BY <1>1, <1>3, <2>2, <3>1, Zenon
  <2> QED
    BY <2>1, <2>2
<1>4. Nested(r, more)
  BY <1>1, <1>2, <1>3, Zenon DEF Nested
<1> QED
  BY <1>4 DEF r

LEMMA PlacesReplaced ==
  ASSUME NEW T, NEW frs \in Seq(T), frs # <<>>, NEW x \in T, Same(x, frs[1]), NEW s, Depths(s, frs)
  PROVE  Depths(s, [frs EXCEPT ![1] = x])
<1> DEFINE r == [frs EXCEPT ![1] = x]
<1>1. Len(r) = Len(frs) /\ r[1] = x /\ \A i \in 1..Len(frs) : i # 1 => r[i] = frs[i]
  BY Replaced
<1> HIDE DEF r
<1>2. \A i \in 1..Len(frs) : r[i].depth = frs[i].depth /\ r[i].dtor_frame = frs[i].dtor_frame
  <2> TAKE i \in 1..Len(frs)
  <2>1. CASE i = 1
    BY <1>1, <2>1, Zenon DEF Same
  <2>2. CASE i # 1
    BY <1>1, <2>2, Zenon
  <2> QED
    BY <2>1, <2>2
<1>3. Depths(s, r)
  BY <1>1, <1>2, PlacesSame, Zenon
<1> QED
  BY <1>3 DEF r

\* What a thread's try statements are while it runs
LEMMA TryFacts ==
  ASSUME TryInv, NEW t \in Threads
  PROVE  /\ tries[t] \in Seq(TryFrame(t)) /\ tries[t] # <<>> /\ Len(tries[t]) \in Nat /\ 1 \in 1..Len(tries[t])
         /\ tries[t][1] \in TryFrame(t) /\ FrameInv(tries[t][1])
         /\ Nested(tries[t], panic) /\ Depths(Stack(t), tries[t])
         /\ tries[t][1].depth \in 0..Len(Stack(t)) /\ tries[t][1].dtor_frame = Place(Stack(t), tries[t][1].depth)
         /\ ~panic /\ ~(Len(tries[t]) > 1) =>
              tries[t][1].state = EXCEPTION_TRYING /\ (tries[t][1].at = "test" => tries[t][1].cause # NONE)
<1>1. tries[t] \in Seq(TryFrame(t)) /\ Nested(tries[t], panic) /\ Depths(Stack(t), tries[t])
  BY Zenon DEF TryInv
<1>2. tries[t] # <<>>
  BY <1>1, Zenon DEF Nested
<1>3. Len(tries[t]) \in Nat /\ 1 \in 1..Len(tries[t]) /\ tries[t][1] \in TryFrame(t)
  <2>1. Len(tries[t]) \in Nat /\ Len(tries[t]) # 0
    BY <1>1, <1>2, SeqFacts, EmptySeq, Zenon
  <2>2. 1 \in 1..Len(tries[t])
    BY <2>1
  <2> QED
    BY <1>1, <2>1, <2>2, SeqFacts, Zenon
<1>4. /\ FrameInv(tries[t][1]) /\ tries[t][1].depth \in 0..Len(Stack(t))
      /\ tries[t][1].dtor_frame = Place(Stack(t), tries[t][1].depth)
  BY <1>1, <1>3, Zenon DEF Nested, Depths
<1>5. ~(Len(tries[t]) > 1) => Len(tries[t]) = 1
  <2> DEFINE n == Len(tries[t])
  <2>1. n \in Nat /\ 1 \in 1..n
    BY <1>3
  <2> HIDE DEF n
  <2>2. ~(n > 1) => n = 1
    BY <2>1
  <2> QED
    BY <2>2 DEF n
<1>6. ~panic /\ ~(Len(tries[t]) > 1) =>
              tries[t][1].state = EXCEPTION_TRYING /\ (tries[t][1].at = "test" => tries[t][1].cause # NONE)
  BY <1>1, <1>5, Zenon DEF Nested
<1> QED
  BY <1>1, <1>2, <1>3, <1>4, <1>6, Zenon

\* A step of one thread
LEMMA TriesStep ==
  ASSUME TryInv, NEW t \in Threads, NEW new \in Seq(TryFrame(t)), tries' = [tries EXCEPT ![t] = new],
         panic' \in BOOLEAN, panic => panic', Nested(new, panic'), Depths(Stack(t)', new),
         \A u \in Threads : u # t => Stack(u)' = Stack(u)
  PROVE  TryInv'
<1>1. DOMAIN tries = Threads /\ DOMAIN tries' = Threads
  BY DEF TryInv
<1>2. tries'[t] = new /\ \A u \in Threads : u # t => tries'[u] = tries[u]
  BY <1>1
<1>3. ASSUME NEW u \in Threads PROVE tries'[u] \in Seq(TryFrame(u)) /\ Nested(tries'[u], panic') /\ Depths(Stack(u)', tries'[u])
  <2>1. CASE u = t
    BY <1>2, <2>1, Zenon
  <2>2. CASE u # t
    <3>1. tries[u] \in Seq(TryFrame(u)) /\ Nested(tries[u], panic) /\ Depths(Stack(u), tries[u])
      BY Zenon DEF TryInv
    <3>2. Nested(tries[u], panic')
      BY <3>1, Zenon DEF Nested
    <3> QED
      BY <1>2, <2>2, <3>1, <3>2, Zenon
  <2> QED
    BY <2>1, <2>2
<1> QED
  BY <1>1, <1>3, Zenon DEF TryInv

\* A step between the blocks of one thread
LEMMA TriesReplaced ==
  ASSUME UnwindInv, NEW t \in Threads, NEW x \in TryFrame(t), FrameInv(x), Same(x, tries[t][1]),
         tries' = [tries EXCEPT ![t] = [tries[t] EXCEPT ![1] = x]], Unchanged,
         panic' \in BOOLEAN, panic => panic',
         panic' \/ Len(tries[t]) > 1 \/ (x.state = EXCEPTION_TRYING /\ (x.at = "test" => x.cause # NONE))
  PROVE  UnwindInv'
<1> DEFINE new == [tries[t] EXCEPT ![1] = x]
<1>1. FramesInv /\ TryInv
  BY DEF UnwindInv
<1>2. tries[t] \in Seq(TryFrame(t)) /\ tries[t] # <<>> /\ Nested(tries[t], panic) /\ Depths(Stack(t), tries[t])
  BY <1>1, TryFacts, Zenon
<1>3. \A u \in Threads : Stack(u)' = Stack(u)
  BY SameFrames DEF Unchanged
<1>4. FramesInv'
  BY <1>1, FramesSame DEF Unchanged, FramesInv
<1>5. new \in Seq(TryFrame(t))
  BY <1>2, Replaced, Zenon
<1>6. Nested(new, panic')
  BY <1>2, NestedReplaced
<1>7. Depths(Stack(t), new)
  BY <1>2, PlacesReplaced, Zenon
<1>8. Depths(Stack(t)', new)
  BY <1>3, <1>7, Zenon
<1> HIDE DEF new
<1>9. tries' = [tries EXCEPT ![t] = new]
  BY DEF new
<1>10. TryInv'
  BY <1>1, <1>3, <1>5, <1>6, <1>8, <1>9, TriesStep, Zenon
<1> QED
  BY <1>4, <1>10 DEF UnwindInv

-----------------------------------------------------------------------------
\* Each action preserves the invariant

LEMMA StepTry ==
  ASSUME UnwindInv, NEW t \in Threads, NEW c \in Clauses, KTRY(t, c) PROVE UnwindInv'
<1> DEFINE f == Try(c, EXCEPTION_NEW, "test", dtors[t], Len(Stack(t)))
           old == tries[t]
           new == <<f>> \o old
<1>1. FramesInv /\ TryInv
  BY DEF UnwindInv
<1>2. /\ old \in Seq(TryFrame(t)) /\ old # <<>> /\ Len(old) \in Nat
      /\ Nested(old, panic) /\ Depths(Stack(t), old) /\ panic \in BOOLEAN
  BY <1>1, TryFacts, Zenon DEF TryInv
<1>3. ~panic /\ old[1].at # "test" /\ tries' = [tries EXCEPT ![t] = new] /\ panic' = panic /\ Unchanged
  BY DEF KTRY, Running
<1>4. \A u \in Threads : Stack(u)' = Stack(u)
  BY <1>3, SameFrames DEF Unchanged
<1>5. FramesInv'
  BY Zenon, <1>1, <1>3, FramesSame DEF Unchanged, FramesInv
<1>6. Stack(t) \in Seq(1..Frames) /\ Len(Stack(t)) \in Nat /\ dtors[t] \in 0..Frames /\ Follows(next, Stack(t), dtors[t])
  BY <1>1, StackFacts, Zenon DEF FramesInv, ChainOK
<1>7. f \in TryFrame(t) /\ FrameInv(f) /\ f.depth = Len(Stack(t)) /\ f.dtor_frame = dtors[t]
  BY <1>6, FrameNew, Zenon
<1>8. dtors[t] = Place(Stack(t), Len(Stack(t)))
  <2>1. dtors[t] = IF Stack(t) = <<>> THEN 0 ELSE Stack(t)[1]
    BY <1>6 DEF Follows
  <2>2. Stack(t) = <<>> <=> Len(Stack(t)) = 0
    BY <1>6, EmptySeq
  <2>3. (Len(Stack(t)) - Len(Stack(t))) + 1 = 1
    BY <1>6
  <2> QED
    BY <2>1, <2>2, <2>3, Zenon DEF Place
<1> HIDE DEF f, old
<1>9. /\ new \in Seq(TryFrame(t)) /\ Len(new) = Len(old) + 1 /\ new # <<>> /\ new[1] = f
      /\ \A i \in 1..Len(new) : i # 1 => i - 1 \in 1..Len(old) /\ new[i] = old[i - 1]
  <2>1. new \in Seq(TryFrame(t)) /\ Len(new) = Len(old) + 1 /\ new[1] = f /\ \A i \in 1..Len(old) : new[i + 1] = old[i]
    BY <1>2, <1>7
  <2> HIDE DEF new
  <2>2. new # <<>> /\ \A i \in 1..Len(new) : i # 1 => i - 1 \in 1..Len(old) /\ (i - 1) + 1 = i
    BY <1>2, <2>1
  <2> QED
    BY <2>1, <2>2, Zenon
<1> HIDE DEF new
<1>10. Nested(new, panic')
  <2>1. ASSUME NEW i \in 1..Len(new) PROVE FrameInv(new[i]) /\ (i # 1 => new[i].at # "test")
    <3>1. CASE i = 1
      BY <1>7, <1>9, <3>1
    <3>2. CASE i # 1
      <4>1. i - 1 \in 1..Len(old) /\ new[i] = old[i - 1]
        BY <1>9, <3>2, Zenon
      <4>2. FrameInv(old[i - 1]) /\ old[i - 1].at # "test"
        BY <1>2, <1>3, <4>1, Zenon DEF Nested
      <4> QED
        BY <4>1, <4>2
    <3> QED
      BY <3>1, <3>2
  <2>2. new[Len(new)] = old[Len(old)]
    <3>0. Len(old) # 0
      BY <1>2, EmptySeq
    <3>1. Len(new) \in 1..Len(new) /\ Len(new) # 1 /\ Len(new) - 1 = Len(old)
      BY <1>2, <1>9, <3>0
    <3> QED
      BY <1>9, <3>1, Zenon
  <2> QED
    BY <1>2, <1>3, <1>9, <2>1, <2>2, Zenon DEF Nested
<1>11. Depths(Stack(t), new)
  BY <1>2, <1>6, <1>7, <1>8, PlacesTry, Zenon DEF new
<1>12. Depths(Stack(t)', new)
  BY <1>4, <1>11, Zenon
<1>13. TryInv'
  BY <1>1, <1>2, <1>3, <1>4, <1>9, <1>10, <1>12, TriesStep, Zenon
<1> QED
  BY <1>5, <1>13 DEF UnwindInv

LEMMA StepThrow ==
  ASSUME UnwindInv, NEW t \in Threads, NEW type \in Types[t], exception_throw(t, type) PROVE UnwindInv'
<1> DEFINE f == tries[t][1]
           x == ThrownFrame(f, type)
<1>1. TryInv /\ panic \in BOOLEAN
  BY DEF UnwindInv, TryInv
<1>2. ~panic /\ f.at # "test" /\ tries' = [tries EXCEPT ![t] = Thrown(tries[t], type)] /\ panic' = panic /\ Unchanged
  BY DEF exception_throw, Running
<1>3. /\ f \in TryFrame(t) /\ FrameInv(f) /\ tries[t] \in Seq(TryFrame(t)) /\ 1 \in 1..Len(tries[t])
      /\ (~panic /\ ~(Len(tries[t]) > 1) => f.state = EXCEPTION_TRYING)
  BY <1>1, TryFacts, Zenon
<1>4. Thrown(tries[t], type) = [tries[t] EXCEPT ![1] = x]
  BY <1>3 DEF Thrown, ThrownFrame
<1>5. x \in TryFrame(t) /\ FrameInv(x) /\ Same(x, f) /\ x.state = f.state /\ x.cause = type
  <2> HIDE DEF f
  <2> QED
    BY <1>2, <1>3, FrameThrown, Zenon
<1>6. type # NONE
  BY UnwindAssumption
<1> HIDE DEF x
<1> QED
  BY <1>1, <1>2, <1>3, <1>4, <1>5, <1>6, TriesReplaced, Zenon

LEMMA StepEnds ==
  ASSUME UnwindInv, NEW t \in Threads, Ends(t) PROVE UnwindInv'
<1> DEFINE f == tries[t][1]
           x == [f EXCEPT !.at = "test"]
<1>1. TryInv /\ panic \in BOOLEAN /\ DOMAIN tries = Threads
  BY DEF UnwindInv, TryInv
<1>2. /\ f.at # "test" /\ Len(tries[t]) > 1 /\ tries' = [tries EXCEPT ![t][1].at = "test"]
      /\ panic' = panic /\ Unchanged
  BY DEF Ends, Running
<1>3. f \in TryFrame(t) /\ FrameInv(f)
  BY <1>1, TryFacts, Zenon
<1>4. tries' = [tries EXCEPT ![t] = [tries[t] EXCEPT ![1] = x]]
  BY <1>2
<1>5. x \in TryFrame(t) /\ FrameInv(x) /\ Same(x, f)
  <2> HIDE DEF f
  <2> QED
    BY <1>2, <1>3, FrameEnds, Zenon
<1> HIDE DEF x
<1> QED
  BY <1>1, <1>2, <1>4, <1>5, TriesReplaced, Zenon

\* Where a thread's stack is cut by dtor_pop
LEMMA ChainTo ==
  ASSUME FramesInv, NEW t \in Threads, NEW d \in 0..Len(Stack(t))
  PROVE  Chain(dtors[t], Place(Stack(t), d)) = SubSeq(Stack(t), 1, Len(Stack(t)) - d)
<1> DEFINE S == Stack(t)
<1>1. ChainOK(next, S, dtors[t]) /\ S \in Seq(1..Frames) /\ Len(S) \in Nat
  BY StackFacts, Zenon
<1>2. CASE d = 0
  <2>1. Linked(next, dtors[t], 0) = S
    BY <1>1, WholeChain, Zenon
  <2>2. SubSeq(S, 1, Len(S)) = S
    BY <1>1, WholeSeq, Zenon
  <2>3. Len(S) - d = Len(S)
    BY <1>1, <1>2
  <2> QED
    BY <1>2, <2>1, <2>2, <2>3, Zenon DEF Place, Chain
<1>3. CASE d # 0
  <2>1. (Len(S) - d) + 1 \in 1..Len(S) /\ ((Len(S) - d) + 1) - 1 = Len(S) - d
    BY <1>1, <1>3
  <2>2. Linked(next, dtors[t], S[(Len(S) - d) + 1]) = SubSeq(S, 1, ((Len(S) - d) + 1) - 1)
    BY <1>1, <2>1, PartOfChain, Zenon
  <2> QED
    BY <1>3, <2>1, <2>2, Zenon DEF Place, Chain
<1> QED
  BY <1>2, <1>3

\* A block pops what it has pushed itself: no more than what lies above its own frame.
LEMMA OwnPop ==
  ASSUME UnwindInv, NEW t \in Threads, NEW until \in Own(t)
  PROVE  \E j \in 0..Len(Stack(t)) : /\ Chain(dtors[t], until) = SubSeq(Stack(t), 1, j)
                                     /\ tries[t][1].depth <= Len(Stack(t)) - j
<1> DEFINE S == Stack(t)
           f == tries[t][1]
<1>1. FramesInv /\ TryInv
  BY DEF UnwindInv
<1>2. S \in Seq(1..Frames) /\ Len(S) \in Nat /\ \A x : x \in Range(S) <=> \E i \in 1..Len(S) : S[i] = x
  BY <1>1, StackFacts, ElementsOf, Zenon
<1>3. f.depth \in 0..Len(S) /\ f.dtor_frame = Place(S, f.depth)
  BY <1>1, TryFacts, Zenon
<1>4. (until \in Range(S) \/ until = f.dtor_frame) /\ Len(Chain(dtors[t], until)) <= Len(S) - f.depth
  BY DEF Own
<1>5. \E d \in 0..Len(S) : until = Place(S, d)
  <2>1. CASE until = f.dtor_frame
    BY <1>3, <2>1, Zenon
  <2>2. CASE until \in Range(S)
    <3>1. PICK i \in 1..Len(S) : S[i] = until
      BY <1>2, <2>2, Zenon
    <3> DEFINE d == (Len(S) - i) + 1
    <3>2. d \in 0..Len(S) /\ d # 0 /\ (Len(S) - d) + 1 = i
      BY <1>2
    <3> HIDE DEF d
    <3> QED
      BY <3>1, <3>2, Zenon DEF Place
  <2> QED
    BY <1>4, <2>1, <2>2
<1>6. PICK d \in 0..Len(S) : until = Place(S, d)
  BY <1>5, Zenon
<1> DEFINE j == Len(S) - d
<1>7. j \in 0..Len(S)
  BY <1>2
<1>8. Chain(dtors[t], until) = SubSeq(S, 1, j)
  BY <1>1, <1>6, ChainTo, Zenon
<1>9. Len(SubSeq(S, 1, j)) = j
  BY <1>2, <1>7
<1>10. f.depth <= Len(S) - j
  <2> DEFINE y == f.depth
             n == Len(S)
  <2>1. y \in 0..n /\ n \in Nat /\ j <= n - y /\ j \in 0..n
    BY <1>2, <1>3, <1>4, <1>7, <1>8, <1>9
  <2> HIDE DEF y, n, j
  <2>2. y <= n - j
    BY <2>1
  <2> QED
    BY <2>2 DEF y, n
<1> QED
  BY <1>7, <1>8, <1>10, Zenon

\* The try statements around the innermost one
LEMMA NestedBehind ==
  ASSUME NEW T, NEW frs \in Seq(T), Len(frs) > 1, NEW over, Nested(frs, over)
  PROVE  LET r == Tail(frs)
         IN  /\ r \in Seq(T) /\ r # <<>> /\ Nested(r, over) /\ r[1].at # "test" /\ r[1] = frs[2] /\ FrameInv(r[1]) /\ r[1] \in T
             /\ over \/ Len(r) > 1 \/ r[1].state = EXCEPTION_TRYING
<1> DEFINE r == Tail(frs)
<1>1. /\ r \in Seq(T) /\ Len(r) = Len(frs) - 1 /\ Len(frs) \in Nat /\ r # <<>>
      /\ \A i \in 1..Len(frs) - 1 : r[i] = frs[i + 1] /\ i + 1 \in 1..Len(frs)
  BY Behind, Zenon
<1> HIDE DEF r
<1>2. \A i \in 1..Len(r) : r[i] = frs[i + 1] /\ i + 1 \in 1..Len(frs) /\ i + 1 # 1
  <2>1. \A i \in 1..Len(r) : i \in 1..Len(frs) - 1 /\ i + 1 # 1
    BY <1>1
  <2> QED
    BY <1>1, <2>1, Zenon
<1>3. \A i \in 1..Len(r) : FrameInv(r[i]) /\ r[i].at # "test"
  BY <1>2, Zenon DEF Nested
<1>4. 1 \in 1..Len(r) /\ Len(r) \in 1..Len(r) /\ Len(r) + 1 = Len(frs) /\ (~(Len(r) > 1) => Len(r) = 1) /\ 1 + 1 = 2
  BY <1>1
<1>5. r[1] = frs[2] /\ r[Len(r)] = frs[Len(frs)]
  BY <1>2, <1>4, Zenon
<1>6. Nested(r, over)
  BY <1>1, <1>3, <1>5, Zenon DEF Nested
<1>7. over \/ Len(r) > 1 \/ r[1].state = EXCEPTION_TRYING
  BY <1>4, <1>6, Zenon DEF Nested
<1>8. r[1] \in T
  BY <1>1, <1>4, SeqFacts, Zenon
<1> QED
  BY <1>1, <1>3, <1>4, <1>5, <1>6, <1>7, <1>8 DEF r

LEMMA ThrownIs ==
  ASSUME NEW T, NEW s \in Seq(T), s # <<>>, NEW cause
  PROVE  Thrown(s, cause) = [s EXCEPT ![1] = ThrownFrame(s[1], cause)]
<1>1. 1 \in DOMAIN s
  BY EmptySeq
<1> QED
  BY <1>1 DEF Thrown, ThrownFrame

\* The frame goes.
LEMMA StepLeave ==
  ASSUME UnwindInv, NEW t \in Threads, ~panic, tries[t][1].at = "test", tries[t][1].state = EXCEPTION_FINISHING,
         dtor_pop(t, tries[t][1].dtor_frame), tries' = [tries EXCEPT ![t] = Leave(tries[t])], panic' = panic
  PROVE  UnwindInv'
<1> DEFINE S == Stack(t)
           old == tries[t]
           f == old[1]
           j == Len(S) - f.depth
           tl == Tail(old)
           new == Leave(old)
<1>1. FramesInv /\ TryInv /\ panic' \in BOOLEAN
  BY DEF UnwindInv, TryInv
<1>2. /\ old \in Seq(TryFrame(t)) /\ old # <<>> /\ Len(old) \in Nat /\ f \in TryFrame(t) /\ FrameInv(f)
      /\ Nested(old, panic) /\ Depths(S, old)
      /\ f.depth \in 0..Len(S) /\ f.dtor_frame = Place(S, f.depth)
      /\ ~(Len(old) > 1) => f.state = EXCEPTION_TRYING
  BY <1>1, TryFacts, Zenon
<1>3. Len(old) > 1
  BY <1>2 DEF EXCEPTION_TRYING, EXCEPTION_FINISHING
<1>4. S \in Seq(1..Frames) /\ Len(S) \in Nat
  BY <1>1, StackFacts, Zenon
<1>5. j \in 0..Len(S) /\ f.depth <= Len(S) - j
  <2> DEFINE y == f.depth
             n == Len(S)
  <2>1. y \in 0..n /\ n \in Nat
    BY <1>2, <1>4
  <2> HIDE DEF y, n
  <2>2. n - y \in 0..n /\ y <= n - (n - y)
    BY <2>1
  <2> QED
    BY <2>2 DEF y, n
<1>6. Chain(dtors[t], f.dtor_frame) = SubSeq(S, 1, j)
  BY <1>1, <1>2, ChainTo, Zenon
<1> HIDE DEF j
<1>7. FramesInv' /\ Stack(t)' = SubSeq(S, j + 1, Len(S)) /\ \A u \in Threads : u # t => Stack(u)' = Stack(u)
  BY <1>1, <1>5, <1>6, PopFrames, Zenon
<1> DEFINE B == SubSeq(S, j + 1, Len(S))
<1>8. Depths(B, old)
  <2> HIDE DEF S, old
  <2> QED
    BY <1>2, <1>4, <1>5, PlacesBelow, Zenon
<1> HIDE DEF B, S
<1>9. Depths(B, tl)
  <2> HIDE DEF old
  <2> QED
    BY <1>2, <1>3, <1>8, PlacesBehind, Zenon
<1>10. /\ tl \in Seq(TryFrame(t)) /\ tl # <<>> /\ Nested(tl, panic) /\ tl[1].at # "test" /\ FrameInv(tl[1]) /\ tl[1] \in TryFrame(t)
       /\ panic \/ Len(tl) > 1 \/ tl[1].state = EXCEPTION_TRYING
  <2> HIDE DEF old
  <2> QED
    BY <1>2, <1>3, NestedBehind
<1> HIDE DEF tl
<1>11. new \in Seq(TryFrame(t)) /\ Nested(new, panic) /\ Depths(B, new)
  <2>1. CASE f.cause # NONE /\ ~f.caught
    <3> DEFINE x == ThrownFrame(tl[1], f.cause)
    <3>1. new = Thrown(tl, f.cause)
      BY <2>1 DEF Leave, tl
    <3>2. new = [tl EXCEPT ![1] = x]
      BY <1>10, <3>1, ThrownIs, Zenon
    <3>3. f.cause \in Types[t]
      BY <1>2, <2>1 DEF TryFrame
    <3>4. x \in TryFrame(t) /\ FrameInv(x) /\ Same(x, tl[1]) /\ x.state = tl[1].state /\ x.cause = f.cause
      BY <1>10, <3>3, FrameThrown, Zenon
    <3> HIDE DEF x
    <3>5. panic \/ Len(tl) > 1 \/ (x.state = EXCEPTION_TRYING /\ (x.at = "test" => x.cause # NONE))
      BY <1>10, <2>1, <3>4, Zenon
    <3>6. [tl EXCEPT ![1] = x] \in Seq(TryFrame(t))
      BY <1>10, <3>4, Replaced, Zenon
    <3>7. Nested([tl EXCEPT ![1] = x], panic)
      <4> DEFINE o == panic
      <4>1. Nested(tl, o) /\ (o \/ Len(tl) > 1 \/ (x.state = EXCEPTION_TRYING /\ (x.at = "test" => x.cause # NONE)))
        BY <1>10, <3>5, Zenon
      <4> HIDE DEF o
      <4>2. Nested([tl EXCEPT ![1] = x], o)
        BY <1>10, <3>4, <4>1, NestedReplaced
      <4> QED
        BY <4>2 DEF o
    <3>8. Depths(B, [tl EXCEPT ![1] = x])
      BY <1>9, <1>10, <3>4, PlacesReplaced, Zenon
    <3> HIDE DEF new
    <3> QED
      BY <3>2, <3>6, <3>7, <3>8, Zenon
  <2>2. CASE ~(f.cause # NONE /\ ~f.caught)
    <3>1. new = tl
      BY <2>2 DEF Leave, tl
    <3> HIDE DEF new
    <3> QED
      BY <1>9, <1>10, <3>1, Zenon
  <2> QED
    BY <2>1, <2>2
<1>12. Depths(Stack(t)', new)
  BY <1>7, <1>11 DEF B, S
<1> HIDE DEF new
<1>13. tries' = [tries EXCEPT ![t] = new]
  BY DEF new
<1>14. Nested(new, panic') /\ (panic => panic')
  BY <1>11
<1>15. TryInv'
  BY <1>1, <1>7, <1>11, <1>12, <1>13, <1>14, TriesStep, Zenon
<1> QED
  BY <1>7, <1>15 DEF UnwindInv

LEMMA StepFinished ==
  ASSUME UnwindInv, NEW t \in Threads, exception_finished(t) PROVE UnwindInv'
<1> DEFINE f == tries[t][1]
<1>1. TryInv /\ panic \in BOOLEAN /\ DOMAIN tries = Threads /\ ~panic /\ f.at = "test"
  BY DEF UnwindInv, TryInv, exception_finished
<1>2. /\ f \in TryFrame(t) /\ FrameInv(f) /\ Len(tries[t]) \in Nat /\ 1 \in 1..Len(tries[t])
      /\ ~(Len(tries[t]) > 1) => f.state = EXCEPTION_TRYING /\ f.cause # NONE
  BY <1>1, TryFacts, Zenon
<1>3. \A x : [tries EXCEPT ![t][1] = x] = [tries EXCEPT ![t] = [tries[t] EXCEPT ![1] = x]]
  BY <1>1
<1>4. CASE /\ f.state = EXCEPTION_NEW
           /\ tries' = [tries EXCEPT ![t][1] = Runs([f EXCEPT !.state = EXCEPTION_TRYING], "try")]
           /\ Unchanged /\ UNCHANGED panic
  <2> DEFINE x == Runs([f EXCEPT !.state = EXCEPTION_TRYING], "try")
  <2>1. x \in TryFrame(t) /\ FrameInv(x) /\ Same(x, f) /\ x.state = EXCEPTION_TRYING /\ x.at = "try"
    <3> HIDE DEF f
    <3> QED
      BY <1>2, <1>4, FrameTrying, Zenon
  <2>2. x.at # "test"
    BY <2>1
  <2> HIDE DEF x
  <2>3. tries' = [tries EXCEPT ![t] = [tries[t] EXCEPT ![1] = x]]
    BY <1>3, <1>4, Zenon DEF x
  <2> QED
    BY <1>1, <1>4, <2>1, <2>2, <2>3, TriesReplaced, Zenon
<1>5. CASE /\ f.state = EXCEPTION_TRYING /\ f.cause # NONE /\ tries' = [tries EXCEPT ![t][1] = Catching(f)]
           /\ panic' = (Len(tries[t]) = 1) /\ Unchanged
  <2>1. Catching(f) \in TryFrame(t) /\ FrameInv(Catching(f)) /\ Same(Catching(f), f)
    <3> HIDE DEF f
    <3> QED
      BY <1>2, <1>5, FrameCatching, Zenon
  <2>2. tries' = [tries EXCEPT ![t] = [tries[t] EXCEPT ![1] = Catching(f)]]
    BY <1>3, <1>5, Zenon
  <2>3. panic' \in BOOLEAN /\ (panic' \/ Len(tries[t]) > 1)
    <3> DEFINE n == Len(tries[t])
    <3>1. n \in Nat /\ 1 \in 1..n /\ panic' = (n = 1)
      BY <1>2, <1>5
    <3> HIDE DEF n
    <3>2. n = 1 \/ n > 1
      BY <3>1
    <3>3. panic' \in BOOLEAN /\ (panic' \/ n > 1)
      BY <3>1, <3>2, Zenon
    <3> QED
      BY <3>3, Zenon DEF n
  <2> QED
    BY <1>1, <1>5, <2>1, <2>2, <2>3, TriesReplaced, Zenon
<1>6. CASE /\ f.state = EXCEPTION_CATCHING \/ (f.state = EXCEPTION_TRYING /\ f.cause = NONE)
           /\ tries' = [tries EXCEPT ![t][1] = Finishing(f)]
           /\ Unchanged /\ UNCHANGED panic
  <2>1. Finishing(f) \in TryFrame(t) /\ FrameInv(Finishing(f)) /\ Same(Finishing(f), f)
    <3>1. f.state \in {EXCEPTION_TRYING, EXCEPTION_CATCHING}
      BY <1>6
    <3> HIDE DEF f
    <3> QED
      BY <1>2, <3>1, FrameFinishing, Zenon
  <2>2. tries' = [tries EXCEPT ![t] = [tries[t] EXCEPT ![1] = Finishing(f)]]
    BY <1>3, <1>6, Zenon
  <2>3. Len(tries[t]) > 1
    BY <1>2, <1>6 DEF EXCEPTION_TRYING, EXCEPTION_CATCHING
  <2> QED
    BY <1>1, <1>6, <2>1, <2>2, <2>3, TriesReplaced, Zenon
<1>7. CASE /\ f.state = EXCEPTION_FINISHING /\ dtor_pop(t, f.dtor_frame)
           /\ tries' = [tries EXCEPT ![t] = Leave(@)] /\ UNCHANGED panic
  BY <1>1, <1>7, StepLeave
<1> QED
  BY <1>4, <1>5, <1>6, <1>7, Zenon DEF exception_finished

\* A block changes the stack of its thread only above the place its own frame goes back to.
LEMMA TriesKept ==
  ASSUME TryInv, UNCHANGED <<tries, panic>>, NEW t \in Threads, Depths(Stack(t)', tries[t]),
         \A u \in Threads : u # t => Stack(u)' = Stack(u)
  PROVE  TryInv'
<1>1. \A u \in Threads : Depths(Stack(u)', tries[u])
  <2> TAKE u \in Threads
  <2>1. CASE u = t
    BY <2>1, Zenon
  <2>2. CASE u # t
    BY <2>2, Zenon DEF TryInv
  <2> QED
    BY <2>1, <2>2
<1> QED
  BY <1>1 DEF TryInv

LEMMA StepPush ==
  ASSUME UnwindInv, UNCHANGED <<tries, panic>>, NEW t \in Threads, NEW d \in Dtors, dtor_push(t, d) PROVE UnwindInv'
<1>1. FramesInv /\ TryInv
  BY DEF UnwindInv
<1>2. FramesInv'
  BY <1>1, PushFrames, Zenon
<1>3. PICK n \in 1..Frames : Stack(t)' = <<n>> \o Stack(t) /\ \A u \in Threads : u # t => Stack(u)' = Stack(u)
  BY <1>1, PushFrames, Zenon
<1>4. Stack(t) \in Seq(1..Frames) /\ Depths(Stack(t), tries[t])
  BY <1>1, StackFacts, TryFacts, Zenon
<1>5. Depths(<<n>> \o Stack(t), tries[t])
  BY <1>4, PlacesAbove, Zenon
<1>6. TryInv'
  BY <1>1, <1>3, <1>5, TriesKept, Zenon
<1> QED
  BY <1>2, <1>6 DEF UnwindInv

LEMMA StepRemove ==
  ASSUME UnwindInv, UNCHANGED <<tries, panic>>, NEW t \in Threads, NEW d \in Dtors, dtor_remove(t, d) PROVE UnwindInv'
<1>1. FramesInv /\ TryInv
  BY DEF UnwindInv
<1>2. UNCHANGED <<dtors, next, frames, used>>
  BY DEF dtor_remove
<1>3. dtor' \in [1..Frames -> Dtors \cup {0}]
  BY <1>1 DEF dtor_remove, FramesInv
<1>4. FramesInv'
  BY <1>1, <1>2, <1>3, FramesSame
<1>5. \A u \in Threads : Stack(u)' = Stack(u)
  BY <1>2, SameFrames
<1>6. Depths(Stack(t), tries[t])
  BY <1>1, TryFacts, Zenon
<1>7. TryInv'
  BY <1>1, <1>5, <1>6, TriesKept, Zenon
<1> QED
  BY <1>4, <1>7 DEF UnwindInv

LEMMA StepPop ==
  ASSUME UnwindInv, UNCHANGED <<tries, panic>>, NEW t \in Threads, NEW until \in Own(t), dtor_pop(t, until) PROVE UnwindInv'
<1>1. FramesInv /\ TryInv
  BY DEF UnwindInv
<1>2. PICK j \in 0..Len(Stack(t)) : Chain(dtors[t], until) = SubSeq(Stack(t), 1, j) /\ tries[t][1].depth <= Len(Stack(t)) - j
  BY OwnPop, Zenon
<1>3. /\ FramesInv' /\ Stack(t)' = SubSeq(Stack(t), j + 1, Len(Stack(t)))
      /\ \A u \in Threads : u # t => Stack(u)' = Stack(u)
  BY <1>1, <1>2, PopFrames, Zenon
<1>4. Stack(t) \in Seq(1..Frames) /\ Depths(Stack(t), tries[t]) /\ tries[t] \in Seq(TryFrame(t)) /\ tries[t] # <<>>
  BY <1>1, StackFacts, TryFacts, Zenon
<1>5. Depths(SubSeq(Stack(t), j + 1, Len(Stack(t))), tries[t])
  BY <1>2, <1>4, PlacesBelow, Zenon
<1>6. TryInv'
  BY <1>1, <1>3, <1>5, TriesKept, Zenon
<1> QED
  BY <1>3, <1>6 DEF UnwindInv

LEMMA InitInv == Init => UnwindInv
<1> SUFFICES ASSUME Init PROVE UnwindInv
  OBVIOUS
<1>0. Frames \in Nat /\ 0 \in 0..Frames
  BY UnwindAssumption
<1>1. \A n : n = 0 => ChainOK(next, <<>>, n)
  BY DEF ChainOK, Distinct, Follows
<1>2. Free = <<>> /\ \A t \in Threads : Stack(t) = <<>>
  <2>1. frames = 0 /\ \A t \in Threads : dtors[t] = 0
    BY DEF Init
  <2>2. Linked(next, 0, 0) = <<>>
    BY <1>1, WholeChain, Zenon
  <2> QED
    BY <2>1, <2>2, Zenon DEF Free, Stack, Chain
<1>3. Range(<<>>) = {}
  BY DEF Range
<1>4. FramesInv
  <2>1. /\ next \in [1..Frames -> 0..Frames] /\ dtor \in [1..Frames -> Dtors \cup {0}]
        /\ dtors \in [Threads -> 0..Frames] /\ used \in 0..Frames
    BY <1>0 DEF Init
  <2>2. ChainOK(next, Free, frames) /\ \A t \in Threads : ChainOK(next, Stack(t), dtors[t])
    BY Zenon, <1>1, <1>2 DEF Init
  <2>3. \A n \in 1..Frames : ~(n <= used)
    BY <1>0 DEF Init
  <2> QED
    BY <1>2, <1>3, <2>1, <2>2, <2>3 DEF FramesInv
<1>5. TryInv
  <2> DEFINE f == Try(KernelMain, EXCEPTION_TRYING, "try", 0, 0)
  <2>1. panic \in BOOLEAN /\ DOMAIN tries = Threads /\ \A t \in Threads : tries[t] = <<f>>
    BY DEF Init
  <2>2. \A t \in Threads : /\ f \in TryFrame(t) /\ FrameInv(f) /\ f.depth = 0 /\ f.dtor_frame = 0
                           /\ f.state = EXCEPTION_TRYING /\ f.at = "try"
    BY FrameMain, Zenon
  <2> HIDE DEF f
  <2>3. ASSUME NEW t \in Threads PROVE tries[t] \in Seq(TryFrame(t)) /\ Nested(tries[t], panic) /\ Depths(Stack(t), tries[t])
    <3>1. tries[t] = <<f>> /\ Stack(t) = <<>> /\ f \in TryFrame(t)
      BY <1>2, <2>1, <2>2
    <3>2. <<f>> \in Seq(TryFrame(t)) /\ Len(<<f>>) = 1 /\ <<f>> # <<>> /\ <<f>>[1] = f /\ Len(<<>>) = 0
      BY <3>1
    <3>3. Nested(<<f>>, panic)
      BY <2>2, <3>2 DEF Nested
    <3>4. Depths(<<>>, <<f>>)
      BY <2>2, <3>2 DEF Depths, Place
    <3> QED
      BY <3>1, <3>2, <3>3, <3>4, Zenon
  <2> QED
    BY <2>1, <2>3 DEF TryInv
<1> QED
  BY <1>4, <1>5 DEF UnwindInv

LEMMA NextInv == UnwindInv /\ [Next]_vars => UnwindInv'
<1> SUFFICES ASSUME UnwindInv, [Next]_vars PROVE UnwindInv'
  OBVIOUS
<1>1. CASE UNCHANGED vars
  BY <1>1 DEF vars, UnwindInv, FramesInv, TryInv, Free, Stack, Chain
<1>2. ASSUME NEW t \in Threads, NEW c \in Clauses, KTRY(t, c) PROVE UnwindInv'
  BY <1>2, StepTry
<1>3. ASSUME NEW t \in Threads, NEW type \in Types[t], exception_throw(t, type) PROVE UnwindInv'
  BY <1>3, StepThrow
<1>4. ASSUME NEW t \in Threads, Ends(t) PROVE UnwindInv'
  BY <1>4, StepEnds
<1>5. ASSUME NEW t \in Threads, exception_finished(t) PROVE UnwindInv'
  BY <1>5, StepFinished
<1>6. ASSUME NEW t \in Threads, NEW d \in Dtors, UNCHANGED <<tries, panic>>, dtor_push(t, d) PROVE UnwindInv'
  BY <1>6, StepPush
<1>7. ASSUME NEW t \in Threads, NEW d \in Dtors, UNCHANGED <<tries, panic>>, dtor_remove(t, d) PROVE UnwindInv'
  BY <1>7, StepRemove
<1>8. ASSUME NEW t \in Threads, NEW until \in Own(t), UNCHANGED <<tries, panic>>, dtor_pop(t, until) PROVE UnwindInv'
  BY <1>8, StepPop
<1> QED
  BY <1>1, <1>2, <1>3, <1>4, <1>5, <1>6, <1>7, <1>8, Zenon DEF Next

\* The stacks of destructors are chains that share no frame with each other or with the
\* cache, and the try statements of a thread go back to places of its stack.
THEOREM UnwindInvariance == Spec => []UnwindInv
<1>1. Init => UnwindInv
  BY InitInv
<1>2. UnwindInv /\ [Next]_vars => UnwindInv'
  BY NextInv
<1> QED
  BY <1>1, <1>2, PTL DEF Spec

-----------------------------------------------------------------------------
\* What a thread leaves
LEMMA LeavingIs ==
  ASSUME UnwindInv, [Next]_vars, NEW t \in Threads, Left(t)
  PROVE  /\ tries[t][1].state = EXCEPTION_FINISHING /\ tries'[t] = Leave(tries[t]) /\ Len(tries[t]) > 1
         /\ FrameInv(tries[t][1]) /\ tries[t][1] \in TryFrame(t)
<1> DEFINE n == Len(tries[t])
<1>0. /\ TryInv /\ DOMAIN tries = Threads /\ tries[t] \in Seq(TryFrame(t)) /\ tries[t] # <<>> /\ n \in Nat
      /\ FrameInv(tries[t][1]) /\ tries[t][1] \in TryFrame(t)
      /\ ~panic /\ ~(n > 1) => tries[t][1].state = EXCEPTION_TRYING
  BY TryFacts, Zenon DEF UnwindInv, TryInv
<1>1. Len(tries'[t]) < n /\ ~(n < n)
  BY <1>0 DEF Left
<1>2. ASSUME tries'[t] = tries[t] PROVE FALSE
  BY <1>1, <1>2
<1>3. ASSUME NEW x, tries'[t] = [tries[t] EXCEPT ![1] = x] PROVE FALSE
  <2>1. Len([tries[t] EXCEPT ![1] = x]) = n
    BY <1>0
  <2> QED
    BY <1>1, <1>3, <2>1
<1>4. ASSUME NEW u \in Threads, NEW new, tries' = [tries EXCEPT ![u] = new], u # t PROVE FALSE
  BY <1>0, <1>2, <1>4
<1>5. ASSUME NEW u \in Threads, NEW c \in Clauses, KTRY(u, c) PROVE FALSE
  <2> DEFINE f == Try(c, EXCEPTION_NEW, "test", dtors[u], Len(Stack(u)))
             new == <<f>> \o tries[u]
  <2>1. tries' = [tries EXCEPT ![u] = new]
    BY <1>5 DEF KTRY
  <2>2. u = t
    <3> HIDE DEF new
    <3> QED
      BY <1>4, <2>1
  <2>3. tries'[t] = new
    BY <1>0, <2>1, <2>2
  <2> HIDE DEF f
  <2>4. Len(<<f>> \o tries[t]) = n + 1
    BY <1>0
  <2>5. Len(tries'[t]) = n + 1
    BY <2>2, <2>3, <2>4
  <2> HIDE DEF n, new
  <2> QED
    BY <1>0, <1>1, <2>5
<1>6. ASSUME NEW u \in Threads, NEW type \in Types[u], exception_throw(u, type) PROVE FALSE
  <2>1. tries' = [tries EXCEPT ![u] = Thrown(tries[u], type)]
    BY <1>6 DEF exception_throw
  <2>2. u = t
    BY <1>4, <2>1, Zenon
  <2>3. tries'[t] = [tries[t] EXCEPT ![1] = ThrownFrame(tries[t][1], type)]
    BY <1>0, <2>1, <2>2, ThrownIs
  <2> QED
    BY <1>3, <2>3, Zenon
<1>7. ASSUME NEW u \in Threads, NEW x, tries' = [tries EXCEPT ![u][1] = x] PROVE FALSE
  <2>1. tries' = [tries EXCEPT ![u] = [tries[u] EXCEPT ![1] = x]]
    BY <1>0, <1>7
  <2>2. u = t
    BY <1>4, <2>1, Zenon
  <2>3. tries'[t] = [tries[t] EXCEPT ![1] = x]
    BY <1>0, <2>1, <2>2
  <2> QED
    BY <1>3, <2>3, Zenon
<1>8. ASSUME NEW u \in Threads, Ends(u) PROVE FALSE
  <2>1. tries' = [tries EXCEPT ![u][1] = [tries[u][1] EXCEPT !.at = "test"]]
    BY <1>0, <1>8 DEF Ends
  <2> QED
    BY <1>7, <2>1, Zenon
<1>9. ASSUME NEW u \in Threads, exception_finished(u)
      PROVE  tries[t][1].state = EXCEPTION_FINISHING /\ tries'[t] = Leave(tries[t]) /\ ~panic
  <2>1. /\ tries[u][1].state = EXCEPTION_FINISHING /\ tries' = [tries EXCEPT ![u] = Leave(tries[u])] /\ ~panic
    BY <1>7, <1>9, Zenon DEF exception_finished
  <2>2. u = t
    BY <1>4, <2>1, Zenon
  <2> QED
    BY <1>0, <2>1, <2>2
<1>10. ASSUME UNCHANGED tries PROVE FALSE
  BY <1>2, <1>10
<1>11. PICK u \in Threads : exception_finished(u)
  BY <1>5, <1>6, <1>8, <1>10, Zenon DEF Next, vars
<1>12. tries[t][1].state = EXCEPTION_FINISHING /\ tries'[t] = Leave(tries[t]) /\ ~panic
  BY <1>9, <1>11, Zenon
<1>13. n > 1
  BY <1>0, <1>12 DEF EXCEPTION_FINISHING, EXCEPTION_TRYING
<1> QED
  BY <1>0, <1>12, <1>13

\* However a try statement is left, its blocks have run in order, each once.
THEOREM BlocksInOrderCorrect == Spec => BlocksInOrder
<1> DEFINE Ordered(f) == f.blocks = <<"try">> \o (IF f.caught THEN <<"catch">> ELSE <<>>)
                                             \o (IF f.clauses.finally THEN <<"finally">> ELSE <<>>)
<1>1. UnwindInv /\ [Next]_vars => [\A t \in Threads : Left(t) => Ordered(tries[t][1])]_vars
  <2> SUFFICES ASSUME UnwindInv, [Next]_vars, NEW t \in Threads, Left(t) PROVE Ordered(tries[t][1])
    OBVIOUS
  <2> DEFINE f == tries[t][1]
  <2>1. f.state = EXCEPTION_FINISHING /\ FrameInv(f)
    BY LeavingIs, Zenon
  <2> HIDE DEF f
  <2>2. f.blocks = BlocksOf(f) /\ f.state = "finishing"
    BY <2>1 DEF FrameInv, EXCEPTION_FINISHING
  <2>3. Ordered(f)
    BY <2>2 DEF BlocksOf, EXCEPTION_FINISHING, EXCEPTION_NEW
  <2> QED
    BY <2>3 DEF f
<1> QED
  BY <1>1, UnwindInvariance, PTL DEF Spec, BlocksInOrder

\* The catch block is among those that have run when it has caught the exception.
LEMMA CaughtIsRun ==
  ASSUME NEW c \in BOOLEAN, NEW e \in BOOLEAN
  PROVE  "catch" \in Range((<<"try">> \o (IF c THEN <<"catch">> ELSE <<>>)) \o (IF e THEN <<"finally">> ELSE <<>>)) <=> c
<1> DEFINE b == IF c THEN <<"catch">> ELSE <<>>
           h == IF e THEN <<"finally">> ELSE <<>>
<1>1. ASSUME NEW s \in Seq(Names), NEW r \in Seq(Names)
      PROVE  "catch" \in Range(s \o r) <=> "catch" \in Range(s) \/ "catch" \in Range(r)
  <2>1. Range(s \o r) = Range(s) \cup Range(r)
    BY RangeConcat
  <2> QED
    BY <2>1, Zenon
<1>2. "catch" \notin Range(<<>>) /\ "catch" \notin Range(<<"try">>) /\ "catch" \notin Range(<<"finally">>) /\ "catch" \in Range(<<"catch">>)
  BY DEF Range
<1>3. b \in Seq(Names) /\ h \in Seq(Names) /\ <<"try">> \in Seq(Names)
  <2>1. <<>> \in Seq(Names) /\ <<"try">> \in Seq(Names) /\ <<"catch">> \in Seq(Names) /\ <<"finally">> \in Seq(Names)
    BY DEF Names
  <2> QED
    BY <2>1, Zenon
<1>4. ("catch" \in Range(b) <=> c) /\ "catch" \notin Range(h)
  BY <1>2
<1> HIDE DEF b, h
<1>5. <<"try">> \o b \in Seq(Names)
  BY <1>3, ConcatSeq, Zenon
<1>6. "catch" \in Range((<<"try">> \o b) \o h) <=> c
  BY <1>1, <1>2, <1>3, <1>4, <1>5, Zenon
<1> QED
  BY <1>6 DEF b, h

\* An exception that no catch block was for goes on to the enclosing try statement,
\* and one that has a block for it goes no further.
THEOREM UncaughtGoesOutCorrect == Spec => UncaughtGoesOut
<1> DEFINE Goes(t) == IF tries[t][1].cause # NONE /\ "catch" \notin Range(tries[t][1].blocks)
                      THEN tries'[t][1].cause = tries[t][1].cause /\ tries'[t][1].at = "test"
                      ELSE tries'[t][1] = tries[t][2]
<1>1. UnwindInv /\ [Next]_vars => [\A t \in Threads : Left(t) => Goes(t)]_vars
  <2> SUFFICES ASSUME UnwindInv, [Next]_vars, NEW t \in Threads, Left(t) PROVE Goes(t)
    OBVIOUS
  <2> DEFINE f == tries[t][1]
             tl == Tail(tries[t])
  <2>1. /\ f.state = EXCEPTION_FINISHING /\ tries'[t] = Leave(tries[t]) /\ Len(tries[t]) > 1
        /\ FrameInv(f) /\ f \in TryFrame(t)
    BY LeavingIs, Zenon
  <2>2. tries[t] \in Seq(TryFrame(t)) /\ Nested(tries[t], panic)
    BY TryFacts, Zenon DEF UnwindInv
  <2>3. tl \in Seq(TryFrame(t)) /\ tl # <<>> /\ tl[1] = tries[t][2] /\ tl[1] \in TryFrame(t) /\ FrameInv(tl[1]) /\ tl[1].at # "test"
    BY <2>1, <2>2, NestedBehind
  <2>4. "catch" \in Range(f.blocks) <=> f.caught
    <3> HIDE DEF f
    <3>1. f.blocks = BlocksOf(f) /\ f.state = "finishing" /\ f.caught \in BOOLEAN /\ f.clauses.finally \in BOOLEAN
      BY <2>1 DEF FrameInv, EXCEPTION_FINISHING, TryFrame
    <3>2. f.blocks = (<<"try">> \o (IF f.caught THEN <<"catch">> ELSE <<>>)) \o (IF f.clauses.finally THEN <<"finally">> ELSE <<>>)
      BY <3>1 DEF BlocksOf, EXCEPTION_FINISHING, EXCEPTION_NEW
    <3> QED
      BY <3>1, <3>2, CaughtIsRun, Zenon
  <2>5. CASE f.cause # NONE /\ ~f.caught
    <3> DEFINE x == ThrownFrame(tl[1], f.cause)
    <3>1. tries'[t] = Thrown(tl, f.cause)
      BY <2>1, <2>5 DEF Leave
    <3>2. tries'[t] = [tl EXCEPT ![1] = x]
      BY <2>3, <3>1, ThrownIs, Zenon
    <3>3. f.cause \in Types[t]
      BY <2>1, <2>5 DEF TryFrame
    <3>4. x \in TryFrame(t) /\ x.cause = f.cause /\ x.at = "test"
      BY <2>3, <3>3, FrameThrown, Zenon
    <3> HIDE DEF x, tl
    <3>5. tries'[t][1] = x
      BY <2>3, <3>2, <3>4, Replaced
    <3> QED
      BY <2>4, <2>5, <3>4, <3>5
  <2>6. CASE ~(f.cause # NONE /\ ~f.caught)
    <3>1. tries'[t] = tl
      BY <2>1, <2>6 DEF Leave
    <3> QED
      BY <2>3, <2>4, <2>6, <3>1
  <2> QED
    BY <2>5, <2>6
<1> QED
  BY <1>1, UnwindInvariance, PTL DEF Spec, UncaughtGoesOut

-----------------------------------------------------------------------------
\* The stacks of destructors as CleanupSpec has them

\* The destructors of the frames of a stack
Image(s, g) == [i \in DOMAIN s |-> g[s[i]]]

LEMMA ImageIs ==
  ASSUME NEW s \in Seq(1..Frames), NEW g \in [1..Frames -> Dtors \cup {0}]
  PROVE  /\ Image(s, g) \in Seq(Dtors \cup {0}) /\ Len(Image(s, g)) = Len(s) /\ DOMAIN Image(s, g) = 1..Len(s)
         /\ \A i \in 1..Len(s) : Image(s, g)[i] = g[s[i]]
<1>1. Len(s) \in Nat /\ DOMAIN s = 1..Len(s) /\ \A i \in 1..Len(s) : s[i] \in 1..Frames
  BY ElementsOf, Zenon
<1>2. Image(s, g) = [i \in 1..Len(s) |-> g[s[i]]]
  BY <1>1 DEF Image
<1>3. \A i \in 1..Len(s) : g[s[i]] \in Dtors \cup {0}
  BY <1>1
<1> DEFINE n == Len(s)
           e(i) == g[s[i]]
<1> HIDE DEF e, n
<1>4. ASSUME n \in Nat, \A i \in 1..n : e(i) \in Dtors \cup {0}
      PROVE  LET r == [i \in 1..n |-> e(i)]
             IN  r \in Seq(Dtors \cup {0}) /\ Len(r) = n /\ DOMAIN r = 1..n /\ \A i \in 1..n : r[i] = e(i)
  BY <1>4
<1> QED
  BY <1>1, <1>2, <1>3, <1>4 DEF n, e

\* A stack whose frames keep their destructors
LEMMA ImageKept ==
  ASSUME NEW s \in Seq(1..Frames), NEW g, NEW h, \A n \in Range(s) : g[n] = h[n]
  PROVE  Image(s, g) = Image(s, h)
<1>1. DOMAIN s = 1..Len(s) /\ \A i \in 1..Len(s) : s[i] \in Range(s)
  <2>1. DOMAIN s = 1..Len(s) /\ \A x : x \in Range(s) <=> \E i \in 1..Len(s) : s[i] = x
    BY ElementsOf, Zenon
  <2> QED
    BY <2>1, Zenon
<1>2. \A i \in DOMAIN s : g[s[i]] = h[s[i]]
  BY <1>1, Zenon
<1> QED
  BY <1>2 DEF Image

LEMMA ImagePushed ==
  ASSUME NEW s \in Seq(1..Frames), NEW g \in [1..Frames -> Dtors \cup {0}], NEW n \in 1..Frames, n \notin Range(s), NEW d \in Dtors
  PROVE  Image(<<n>> \o s, [g EXCEPT ![n] = d]) = <<d>> \o Image(s, g)
<1> DEFINE r == <<n>> \o s
           h == [g EXCEPT ![n] = d]
           p == Image(r, h)
           m == Image(s, g)
           q == <<d>> \o m
           D1 == Dtors \cup {0}
<1>1. r \in Seq(1..Frames) /\ Len(r) = Len(s) + 1 /\ Len(s) \in Nat /\ r[1] = n /\ \A i \in 1..Len(s) : r[i + 1] = s[i]
  OBVIOUS
<1>2. h \in [1..Frames -> D1] /\ h[n] = d /\ \A k \in Range(s) : k \in 1..Frames => h[k] = g[k]
  OBVIOUS
<1>3. \A i \in 1..Len(s) : s[i] \in Range(s) /\ s[i] \in 1..Frames
  <2>1. /\ \A i \in 1..Len(s) : s[i] \in 1..Frames
        /\ \A x : x \in Range(s) <=> \E i \in 1..Len(s) : s[i] = x
    BY ElementsOf, Zenon
  <2> QED
    BY <2>1, Zenon
<1> HIDE DEF r, h, D1
<1>4. p \in Seq(D1) /\ Len(p) = Len(r) /\ \A i \in 1..Len(r) : p[i] = h[r[i]]
  BY <1>1, <1>2, ImageIs, Zenon DEF D1
<1>5. m \in Seq(D1) /\ Len(m) = Len(s) /\ \A i \in 1..Len(s) : m[i] = g[s[i]]
  BY ImageIs, Zenon DEF D1
<1> HIDE DEF p, m
<1>6. q \in Seq(D1) /\ Len(q) = Len(s) + 1 /\ q[1] = d /\ \A i \in 1..Len(s) : q[i + 1] = m[i]
  <2>1. d \in D1
    BY DEF D1
  <2> QED
    BY <1>1, <1>5, <2>1
<1> HIDE DEF q
<1>7. ASSUME NEW i \in 1..Len(p) PROVE p[i] = q[i]
  <2>1. CASE i = 1
    BY <1>1, <1>2, <1>4, <1>6, <2>1
  <2>2. CASE i # 1
    <3>1. i - 1 \in 1..Len(s) /\ (i - 1) + 1 = i /\ i \in 1..Len(r)
      BY <1>1, <1>4, <2>2
    <3>2. q[i] = g[s[i - 1]] /\ r[i] = s[i - 1]
      BY <1>1, <1>5, <1>6, <3>1, Zenon
    <3>3. h[s[i - 1]] = g[s[i - 1]]
      BY <1>2, <1>3, <3>1, Zenon
    <3> QED
      BY <1>4, <3>1, <3>2, <3>3, Zenon
  <2> QED
    BY <2>1, <2>2
<1>8. Len(p) = Len(q)
  BY <1>1, <1>4, <1>6
<1>9. p = q
  BY <1>4, <1>6, <1>7, <1>8, SeqEqual, Zenon
<1> QED
  BY <1>9 DEF p, q, r, h, m

\* The top and the rest of a stack
LEMMA ImageParts ==
  ASSUME NEW s \in Seq(1..Frames), NEW g \in [1..Frames -> Dtors \cup {0}], NEW j \in 1..Len(s)
  PROVE  /\ Image(SubSeq(s, 1, j), g) = SubSeq(Image(s, g), 1, j)
         /\ Image(SubSeq(s, j + 1, Len(s)), g) = SubSeq(Image(s, g), j + 1, Len(Image(s, g)))
<1> DEFINE m == Image(s, g)
           a == SubSeq(s, 1, j)
           b == SubSeq(s, j + 1, Len(s))
           p == SubSeq(m, 1, j)
           q == SubSeq(m, j + 1, Len(m))
           D1 == Dtors \cup {0}
<1>1. m \in Seq(D1) /\ Len(m) = Len(s) /\ (\A i \in 1..Len(s) : m[i] = g[s[i]]) /\ Len(s) \in Nat
  BY ImageIs, SeqFacts, Zenon
<1>2. /\ a \in Seq(1..Frames) /\ Len(a) = j /\ \A i \in 1..j : a[i] = s[i]
      /\ b \in Seq(1..Frames) /\ Len(b) = Len(s) - j /\ \A i \in 1..Len(s) - j : b[i] = s[i + j]
  BY Parts, Zenon
<1> HIDE DEF m, a, b, D1
<1>3. p \in Seq(D1) /\ Len(p) = j /\ \A i \in 1..j : p[i] = m[i]
  BY <1>1
<1>4. q \in Seq(D1) /\ Len(q) = Len(s) - j /\ \A i \in 1..Len(s) - j : q[i] = m[i + j]
  BY <1>1
<1> HIDE DEF p, q
<1>5. (\A i \in 1..j : i \in 1..Len(s)) /\ (\A i \in 1..Len(s) - j : i + j \in 1..Len(s))
  BY <1>1
<1>6. Image(a, g) = p
  <2>1. Image(a, g) \in Seq(D1) /\ Len(Image(a, g)) = Len(a) /\ \A i \in 1..Len(a) : Image(a, g)[i] = g[a[i]]
    BY <1>2, ImageIs, Zenon DEF D1
  <2>2. \A i \in 1..Len(Image(a, g)) : Image(a, g)[i] = p[i]
    <3> TAKE i \in 1..Len(Image(a, g))
    <3>1. i \in 1..j /\ Image(a, g)[i] = g[a[i]]
      BY <1>2, <2>1, Zenon
    <3>2. a[i] = s[i] /\ p[i] = m[i] /\ m[i] = g[s[i]]
      BY <1>1, <1>2, <1>3, <1>5, <3>1, Zenon
    <3> QED
      BY <3>1, <3>2, Zenon
  <2>3. Len(Image(a, g)) = Len(p)
    BY <1>2, <1>3, <2>1, Zenon
  <2> QED
    BY <1>3, <2>1, <2>2, <2>3, SeqEqual, Zenon
<1>7. Image(b, g) = q
  <2>1. Image(b, g) \in Seq(D1) /\ Len(Image(b, g)) = Len(b) /\ \A i \in 1..Len(b) : Image(b, g)[i] = g[b[i]]
    BY <1>2, ImageIs, Zenon DEF D1
  <2>2. \A i \in 1..Len(Image(b, g)) : Image(b, g)[i] = q[i]
    <3> TAKE i \in 1..Len(Image(b, g))
    <3>1. i \in 1..Len(s) - j /\ Image(b, g)[i] = g[b[i]]
      BY <1>2, <2>1, Zenon
    <3>2. b[i] = s[i + j] /\ q[i] = m[i + j] /\ m[i + j] = g[s[i + j]]
      BY <1>1, <1>2, <1>4, <1>5, <3>1, Zenon
    <3> QED
      BY <3>1, <3>2, Zenon
  <2>3. Len(Image(b, g)) = Len(q)
    BY <1>2, <1>4, <2>1, Zenon
  <2> QED
    BY <1>4, <2>1, <2>2, <2>3, SeqEqual, Zenon
<1> QED
  BY <1>6, <1>7 DEF m, a, b, p, q

Stacks == [t \in Threads |-> [i \in DOMAIN Stack(t) |-> dtor[Stack(t)[i]]]]

LEMMA StacksAre ==
  /\ Stacks = [t \in Threads |-> Image(Stack(t), dtor)]
  /\ Stacks' = [t \in Threads |-> Image(Stack(t)', dtor')]
BY DEF Stacks, Image

\* A step that changes the stack of one thread
LEMMA StacksStep ==
  ASSUME FramesInv, NEW t \in Threads, NEW s, Image(Stack(t)', dtor') = s,
         \A u \in Threads : u # t => Stack(u)' = Stack(u) /\ \A n \in Range(Stack(u)) : dtor'[n] = dtor[n]
  PROVE  Stacks' = [Stacks EXCEPT ![t] = s]
<1>1. ASSUME NEW u \in Threads, u # t PROVE Image(Stack(u)', dtor') = Image(Stack(u), dtor)
  <2>1. Stack(u) \in Seq(1..Frames) /\ Stack(u)' = Stack(u) /\ \A n \in Range(Stack(u)) : dtor'[n] = dtor[n]
    BY <1>1, StackFacts, Zenon
  <2>2. Image(Stack(u), dtor') = Image(Stack(u), dtor)
    BY <2>1, ImageKept, Zenon
  <2> QED
    BY <2>1, <2>2, Zenon
<1>2. \A u \in Threads : Image(Stack(u)', dtor') = IF u = t THEN s ELSE Image(Stack(u), dtor)
  BY <1>1, Zenon
<1>3. Stacks' = [u \in Threads |-> IF u = t THEN s ELSE Image(Stack(u), dtor)]
  BY <1>2, StacksAre
<1>4. [Stacks EXCEPT ![t] = s] = [u \in Threads |-> IF u = t THEN s ELSE Image(Stack(u), dtor)]
  BY StacksAre
<1> QED
  BY <1>3, <1>4, Zenon

\* A step that changes no frame
LEMMA StacksSame ==
  ASSUME UNCHANGED <<dtors, next, frames, dtor>> PROVE Stacks' = Stacks
<1>1. \A u \in Threads : Stack(u)' = Stack(u)
  BY SameFrames
<1> QED
  BY <1>1 DEF Stacks

LEMMA CleanupPush ==
  ASSUME UnwindInv, NEW t \in Threads, NEW d \in Dtors, dtor_push(t, d) PROVE Cleanup!Push(t, d)
<1>1. FramesInv /\ dtor \in [1..Frames -> Dtors \cup {0}] /\ ran' = <<>>
  BY DEF UnwindInv, FramesInv, dtor_push
<1>2. PICK n \in 1..Frames : /\ \A u \in Threads : n \notin Range(Stack(u))
                             /\ Stack(t)' = <<n>> \o Stack(t) /\ \A u \in Threads : u # t => Stack(u)' = Stack(u)
                             /\ dtor' = [dtor EXCEPT ![n] = d]
  BY <1>1, PushFrames, Zenon
<1>3. Stack(t) \in Seq(1..Frames)
  BY <1>1, StackFacts, Zenon
<1>4. Image(<<n>> \o Stack(t), [dtor EXCEPT ![n] = d]) = <<d>> \o Image(Stack(t), dtor)
  BY <1>1, <1>2, <1>3, ImagePushed, Zenon
<1>5. ASSUME NEW u \in Threads, NEW m \in Range(Stack(u)) PROVE dtor'[m] = dtor[m]
  <2>1. m # n /\ m \in 1..Frames
    BY <1>1, <1>2, StackFacts, Zenon
  <2> QED
    BY <1>1, <1>2, <2>1
<1>6. Stacks' = [Stacks EXCEPT ![t] = <<d>> \o Image(Stack(t), dtor)]
  BY <1>1, <1>2, <1>4, <1>5, StacksStep, Zenon
<1>7. Stacks[t] = Image(Stack(t), dtor)
  BY StacksAre
<1>8. Stacks' = [Stacks EXCEPT ![t] = <<d>> \o @]
  BY <1>6, <1>7, Zenon
<1> QED
  BY <1>1, <1>8 DEF Cleanup!Push, Stacks

LEMMA CleanupRemove ==
  ASSUME UnwindInv, NEW t \in Threads, NEW d \in Dtors, dtor_remove(t, d) PROVE Cleanup!Remove(t, d)
<1> DEFINE S == Stack(t)
           m == Image(S, dtor)
           D1 == Dtors \cup {0}
<1>1. FramesInv /\ dtor \in [1..Frames -> Dtors \cup {0}] /\ ran' = <<>>
  BY DEF UnwindInv, FramesInv, dtor_remove
<1>2. /\ S \in Seq(1..Frames) /\ Len(S) \in Nat /\ DOMAIN S = 1..Len(S)
      /\ \A i \in 1..Len(S) : S[i] \in 1..Frames /\ S[i] \in Range(S)
      /\ Distinct(S)
  BY <1>1, StackFacts DEF ChainOK
<1>3. PICK i \in DOMAIN S : /\ dtor[S[i]] = d /\ (\A j \in 1..i - 1 : dtor[S[j]] # d)
                            /\ dtor' = [dtor EXCEPT ![S[i]] = 0]
  BY DEF dtor_remove
<1>4. m \in Seq(D1) /\ Len(m) = Len(S) /\ DOMAIN m = 1..Len(S) /\ \A j \in 1..Len(S) : m[j] = dtor[S[j]]
  BY <1>1, <1>2, ImageIs, Zenon
<1>5. i \in 1..Len(S) /\ \A j \in 1..i - 1 : j \in 1..Len(S)
  BY <1>2
<1>6. \A u \in Threads : Stack(u)' = Stack(u)
  BY SameFrames DEF dtor_remove
<1>7. dtor' \in [1..Frames -> D1]
  BY <1>1, <1>2, <1>3
<1> DEFINE p == Image(S, dtor')
           q == [m EXCEPT ![i] = 0]
<1>8. p \in Seq(D1) /\ Len(p) = Len(S) /\ \A j \in 1..Len(S) : p[j] = dtor'[S[j]]
  BY <1>2, <1>7, ImageIs, Zenon
<1> HIDE DEF m, D1, p, S
<1>9. q \in Seq(D1) /\ Len(q) = Len(m) /\ \A j \in 1..Len(m) : q[j] = IF j = i THEN 0 ELSE m[j]
  <2>1. 0 \in D1
    BY Zenon DEF D1
  <2>2. i \in 1..Len(m)
    BY <1>4, <1>5
  <2> QED
    BY <1>4, <2>1, <2>2, ExceptSeq
<1> HIDE DEF q
<1>10. ASSUME NEW j \in 1..Len(p) PROVE p[j] = q[j]
  <2>1. j \in 1..Len(S) /\ j \in 1..Len(m) /\ p[j] = dtor'[S[j]]
    BY <1>4, <1>8, Zenon
  <2>2. CASE j = i
    <3>1. dtor'[S[j]] = 0
      BY <1>1, <1>2, <1>3, <2>1, <2>2
    <3> QED
      BY <1>9, <2>1, <2>2, <3>1, Zenon
  <2>3. CASE j # i
    <3>1. S[j] # S[i]
      BY <1>2, <1>5, <2>1, <2>3, Zenon DEF Distinct
    <3>2. dtor'[S[j]] = dtor[S[j]]
      BY <1>1, <1>2, <1>3, <2>1, <3>1
    <3> QED
      BY <1>4, <1>9, <2>1, <2>3, <3>2, Zenon
  <2> QED
    BY <2>2, <2>3
<1>11. p = q
  <2>1. Len(p) = Len(q)
    BY <1>4, <1>8, <1>9, Zenon
  <2> QED
    BY <1>8, <1>9, <1>10, <2>1, SeqEqual, Zenon
<1>12. \A u \in Threads : u # t => \A n \in Range(Stack(u)) : dtor'[n] = dtor[n]
  <2> SUFFICES ASSUME NEW u \in Threads, u # t, NEW n \in Range(Stack(u)) PROVE dtor'[n] = dtor[n]
    OBVIOUS
  <2>1. n \in 1..Frames /\ Range(Stack(u)) \cap Range(S) = {}
    BY <1>1, StackFacts, Zenon DEF S
  <2>2. n # S[i]
    BY <1>2, <1>5, <2>1, Zenon
  <2> QED
    BY <1>1, <1>3, <2>1, <2>2
<1>13. Image(Stack(t)', dtor') = q
  BY <1>6, <1>11, Zenon DEF p, S
<1>14. Stacks' = [Stacks EXCEPT ![t] = q]
  BY <1>1, <1>6, <1>12, <1>13, StacksStep, Zenon
<1>15. Stacks[t] = m
  BY StacksAre DEF m, S
<1>16. Stacks' = [Stacks EXCEPT ![t][i] = 0]
  BY <1>14, <1>15 DEF q
<1>17. i \in DOMAIN Stacks[t] /\ Stacks[t][i] = d /\ \A j \in 1..i - 1 : Stacks[t][j] # d
  BY <1>3, <1>4, <1>5, <1>15, Zenon
<1>18. \E k \in DOMAIN Stacks[t] : Stacks[t][k] = d /\ (\A j \in 1..k - 1 : Stacks[t][j] # d) /\ Stacks' = [Stacks EXCEPT ![t][k] = 0]
  BY <1>16, <1>17, Zenon
<1> QED
  BY <1>1, <1>18 DEF Cleanup!Remove, Stacks

LEMMA CleanupPop ==
  ASSUME UnwindInv, NEW t \in Threads, NEW j \in 0..Len(Stack(t)), NEW until,
         Chain(dtors[t], until) = SubSeq(Stack(t), 1, j), dtor_pop(t, until)
  PROVE  Cleanup!Other \/ \E n \in 1..Len(Stacks[t]) : Cleanup!Pop(t, n)
<1> DEFINE S == Stack(t)
           m == Image(S, dtor)
           a == SubSeq(S, 1, j)
           b == SubSeq(S, j + 1, Len(S))
<1>1. FramesInv /\ dtor \in [1..Frames -> Dtors \cup {0}]
  BY DEF UnwindInv, FramesInv
<1>2. S \in Seq(1..Frames) /\ Len(S) \in Nat
  BY <1>1, StackFacts, Zenon
<1>3. CASE j = 0
  <2>1. a = <<>>
    BY <1>2, <1>3
  <2>2. Unchanged
    BY <2>1 DEF dtor_pop
  <2>3. Stacks' = Stacks /\ ran' = <<>>
    BY <2>2, StacksSame DEF Unchanged
  <2> QED
    BY <2>3 DEF Cleanup!Other, Stacks
<1>4. CASE j # 0
  <2>1. j \in 1..Len(S)
    BY <1>2, <1>4
  <2>2. /\ Stack(t)' = b /\ \A u \in Threads : u # t => Stack(u)' = Stack(u)
        /\ dtor' = [n \in 1..Frames |-> IF n \in Range(a) THEN 0 ELSE dtor[n]]
        /\ ran' = Pending(a)
    <3>1. /\ Stack(t)' = b /\ \A u \in Threads : u # t => Stack(u)' = Stack(u)
          /\ dtor' = [n \in 1..Frames |-> IF n \in Range(a) THEN 0 ELSE dtor[n]]
          /\ ran' = IF j = 0 THEN <<>> ELSE Pending(a)
      BY <1>1, PopFrames, Zenon
    <3> QED
      BY <1>4, <3>1, Zenon
  <2>3. /\ a \in Seq(1..Frames) /\ b \in Seq(1..Frames)
        /\ Range(S) = Range(a) \cup Range(b) /\ Range(a) \cap Range(b) = {}
    <3>1. Distinct(S)
      BY <1>1, StackFacts, Zenon DEF ChainOK
    <3> QED
      BY <1>2, <2>1, <3>1, Parts, Zenon
  <2>4. Image(a, dtor) = SubSeq(m, 1, j) /\ Image(b, dtor) = SubSeq(m, j + 1, Len(m)) /\ Len(m) = Len(S)
    BY <1>1, <1>2, <2>1, ImageParts, ImageIs, Zenon
  <2> HIDE DEF a, b
  <2>5. ASSUME NEW n \in 1..Frames, n \notin Range(a) PROVE dtor'[n] = dtor[n]
    BY <2>2, <2>5
  <2>6. Image(Stack(t)', dtor') = SubSeq(m, j + 1, Len(m))
    <3>1. \A n \in Range(b) : dtor'[n] = dtor[n]
      <4> TAKE n \in Range(b)
      <4>1. n \in Range(S) /\ n \notin Range(a)
        BY <2>3, Zenon
      <4>2. n \in 1..Frames
        BY <1>1, <4>1, StackFacts, Zenon
      <4> QED
        BY <2>5, <4>1, <4>2, Zenon
    <3>2. Image(b, dtor') = Image(b, dtor)
      BY <2>3, <3>1, ImageKept, Zenon
    <3> QED
      BY <2>2, <2>4, <3>2, Zenon
  <2>7. \A u \in Threads : u # t => \A n \in Range(Stack(u)) : dtor'[n] = dtor[n]
    <3> SUFFICES ASSUME NEW u \in Threads, u # t, NEW n \in Range(Stack(u)) PROVE dtor'[n] = dtor[n]
      OBVIOUS
    <3>1. n \in 1..Frames /\ Range(Stack(u)) \cap Range(S) = {}
      BY <1>1, StackFacts, Zenon
    <3>2. n \notin Range(a)
      BY <2>3, <3>1, Zenon
    <3> QED
      BY <2>5, <3>1, <3>2, Zenon
  <2>8. Stacks' = [Stacks EXCEPT ![t] = SubSeq(m, j + 1, Len(m))]
    BY <1>1, <2>2, <2>6, <2>7, StacksStep, Zenon
  <2>9. Stacks[t] = m
    BY StacksAre
  <2>10. ran' = SelectSeq(SubSeq(Stacks[t], 1, j), LAMBDA x : x # 0)
    <3>1. Pending(a) = SelectSeq(Image(a, dtor), LAMBDA x : x # 0)
      BY DEF Pending, Image
    <3>2. Image(a, dtor) = SubSeq(Stacks[t], 1, j)
      BY <2>4, <2>9, Zenon
    <3> QED
      BY <2>2, <3>1, <3>2
  <2>11. Stacks' = [Stacks EXCEPT ![t] = SubSeq(@, j + 1, Len(@))]
    BY <2>8, <2>9, Zenon
  <2>12. Cleanup!Pop(t, j)
    BY <2>10, <2>11 DEF Cleanup!Pop, Stacks
  <2>13. j \in 1..Len(Stacks[t])
    BY <2>1, <2>4, <2>9, Zenon
  <2> QED
    BY <2>12, <2>13, Zenon
<1> QED
  BY <1>3, <1>4

\* With frames that go from thread to thread through the cache, each thread has a stack
\* of its own destructors, which run once and in reverse order when it is unwound.
THEOREM ImplementsCleanupCorrect == Spec => ImplementsCleanup
<1>1. Init => Cleanup!Init
  <2> SUFFICES ASSUME Init PROVE Cleanup!Init
    OBVIOUS
  <2>1. UnwindInv /\ frames = 0 /\ (\A t \in Threads : dtors[t] = 0) /\ ran = <<>>
    BY InitInv DEF Init
  <2>2. ChainOK(next, <<>>, 0)
    BY DEF ChainOK, Distinct, Follows
  <2>3. \A t \in Threads : Stack(t) = <<>>
    BY <2>1, <2>2, WholeChain, Zenon DEF Stack, Chain
  <2>4. \A t \in Threads : [i \in DOMAIN Stack(t) |-> dtor[Stack(t)[i]]] = <<>>
    BY <2>3
  <2> QED
    BY <2>1, <2>4 DEF Cleanup!Init
<1>2. UnwindInv /\ [Next]_vars => [Cleanup!Next]_<<Stacks, ran>>
  <2> SUFFICES ASSUME UnwindInv, [Next]_vars PROVE [Cleanup!Next]_<<Stacks, ran>>
    OBVIOUS
  <2>1. ASSUME Unchanged PROVE Cleanup!Other
    BY <2>1, StacksSame DEF Unchanged, Cleanup!Other, Stacks
  <2>2. ASSUME NEW t \in Threads, NEW j \in 0..Len(Stack(t)), NEW until,
               Chain(dtors[t], until) = SubSeq(Stack(t), 1, j), dtor_pop(t, until)
        PROVE  Cleanup!Next
    <3>1. Cleanup!Other \/ \E n \in 1..Len(Stacks[t]) : Cleanup!Pop(t, n)
      BY <2>2, CleanupPop, Zenon
    <3> QED
      BY <3>1 DEF Cleanup!Next, Stacks
  <2>3. CASE UNCHANGED vars
    <3>1. Stacks' = Stacks /\ ran' = ran
      BY <2>3, StacksSame DEF vars
    <3> QED
      BY <3>1
  <2>4. ASSUME NEW t \in Threads, exception_finished(t) PROVE Cleanup!Next
    <3>1. CASE Unchanged
      BY <2>1, <3>1 DEF Cleanup!Next
    <3>2. CASE dtor_pop(t, tries[t][1].dtor_frame)
      <4>1. /\ tries[t][1].depth \in 0..Len(Stack(t)) /\ tries[t][1].dtor_frame = Place(Stack(t), tries[t][1].depth)
            /\ FramesInv /\ Len(Stack(t)) \in Nat
        BY TryFacts, StackFacts, Zenon DEF UnwindInv
      <4> DEFINE d == tries[t][1].depth
                 j == Len(Stack(t)) - d
      <4>2. Chain(dtors[t], tries[t][1].dtor_frame) = SubSeq(Stack(t), 1, j)
        BY <4>1, ChainTo, Zenon
      <4>3. d \in 0..Len(Stack(t))
        BY <4>1
      <4> HIDE DEF d
      <4>4. j \in 0..Len(Stack(t))
        BY <4>1, <4>3
      <4> HIDE DEF j
      <4> QED
        BY <2>2, <3>2, <4>2, <4>4, Zenon
    <3> QED
      BY <2>4, <3>1, <3>2, Zenon DEF exception_finished
  <2>5. ASSUME NEW t \in Threads, NEW until \in Own(t), dtor_pop(t, until) PROVE Cleanup!Next
    <3>1. PICK j \in 0..Len(Stack(t)) : Chain(dtors[t], until) = SubSeq(Stack(t), 1, j)
      BY OwnPop, Zenon
    <3> QED
      BY <2>2, <2>5, <3>1, Zenon
  <2>6. ASSUME NEW t \in Threads, NEW d \in Dtors, dtor_push(t, d) \/ dtor_remove(t, d) PROVE Cleanup!Next
    <3>1. Cleanup!Push(t, d) \/ Cleanup!Remove(t, d)
      BY <2>6, CleanupPush, CleanupRemove, Zenon
    <3> QED
      BY <3>1 DEF Cleanup!Next
  <2>7. CASE Next
    <3>1. PICK t \in Threads : \/ Unchanged \/ exception_finished(t)
                               \/ \E d \in Dtors : dtor_push(t, d) \/ dtor_remove(t, d)
                               \/ \E until \in Own(t) : dtor_pop(t, until)
      BY <2>7, Zenon DEF Next, KTRY, exception_throw, Ends
    <3>2. Cleanup!Other => Cleanup!Next
      BY DEF Cleanup!Next
    <3> QED
      BY <2>1, <2>4, <2>5, <2>6, <3>1, <3>2, Zenon
  <2> QED
    BY <2>3, <2>7
<1>3. [Cleanup!Next]_<<Stacks, ran>> => [Cleanup!Next]_<<[t \in Threads |-> [i \in DOMAIN Stack(t) |-> dtor[Stack(t)[i]]]], ran>>
  BY DEF Stacks
<1> QED
  BY <1>1, <1>2, <1>3, UnwindInvariance, PTL DEF Spec, ImplementsCleanup, Cleanup!Spec

-----------------------------------------------------------------------------
\* What depends on counting

INSTANCE FiniteSetTheorems

\* Every dtor_t frame is on one stack or in the cache, and the try statements find the
\* place on their thread's stack that they go back to.
THEOREM EveryFrameOnceCorrect == Spec => []EveryFrameOnce
<1> SUFFICES ASSUME UnwindInv PROVE EveryFrameOnce
  BY UnwindInvariance, PTL
<1>1. FramesInv /\ TryInv
  BY DEF UnwindInv
<1>2. ASSUME NEW t \in Threads, NEW i \in DOMAIN tries[t]
      PROVE  /\ tries[t][i] \in TryFrame(t) /\ tries[t][i].depth \in 0..Len(Stack(t))
             /\ tries[t][i].dtor_frame = Place(Stack(t), tries[t][i].depth)
  <2>1. tries[t] \in Seq(TryFrame(t)) /\ Depths(Stack(t), tries[t])
    BY <1>1, TryFacts, Zenon
  <2>2. i \in 1..Len(tries[t]) /\ tries[t][i] \in TryFrame(t)
    BY <1>2, <2>1, ElementsOf, Zenon
  <2> QED
    BY <2>1, <2>2, Zenon DEF Depths
<1>3. TypeOK
  <2>1. \A t \in Threads : \A i \in DOMAIN tries[t] :
          tries[t][i].cause \in Types[t] \cup {NONE} /\ tries[t][i].dtor_frame \in 0..Frames
    <3> TAKE t \in Threads
    <3> TAKE i \in DOMAIN tries[t]
    <3> DEFINE f == tries[t][i]
    <3>1. f \in TryFrame(t)
      BY <1>2
    <3> HIDE DEF f
    <3>2. f.cause \in Types[t] \cup {NONE} /\ f.dtor_frame \in 0..Frames
      BY <3>1 DEF TryFrame
    <3> QED
      BY <3>2 DEF f
  <2>2. frames \in 0..used
    <3>1. frames = (IF Free = <<>> THEN 0 ELSE Free[1]) /\ Free \in Seq(1..Frames) /\ used \in 0..Frames /\ Frames \in Nat
      BY <1>1, FreeFacts, UnwindAssumption DEF FramesInv
    <3>2. CASE Free = <<>>
      BY <3>1, <3>2
    <3>3. CASE Free # <<>>
      <4>1. 1 \in 1..Len(Free)
        BY <3>1, <3>3
      <4>2. Free[1] \in 1..Frames /\ Free[1] \in Range(Free)
        BY <1>1, <4>1, FreeFacts, Zenon
      <4>3. Free[1] <= used
        BY <1>1, <4>2, Zenon DEF FramesInv
      <4> QED
        BY <3>1, <3>3, <4>2, <4>3
    <3> QED
      BY Zenon, <3>2, <3>3
  <2> QED
    BY <1>1, <2>1, <2>2 DEF TypeOK, FramesInv
<1>4. TriesReachTheirStack
  <2> SUFFICES ASSUME NEW t \in Threads, NEW i \in DOMAIN tries[t]
               PROVE  /\ tries[t][i].dtor_frame \in Range(Stack(t)) \cup {0}
                      /\ Len(Chain(dtors[t], tries[t][i].dtor_frame)) = Len(Stack(t)) - tries[t][i].depth
    BY DEF TriesReachTheirStack
  <2> DEFINE S == Stack(t)
             d == tries[t][i].depth
             p == tries[t][i].dtor_frame
  <2>1. d \in 0..Len(S) /\ p = Place(S, d)
    BY <1>2
  <2>2. S \in Seq(1..Frames) /\ Len(S) \in Nat /\ \A k \in 1..Len(S) : S[k] \in Range(S)
    BY <1>1, StackFacts, Zenon
  <2> HIDE DEF d, p
  <2>3. Chain(dtors[t], p) = SubSeq(S, 1, Len(S) - d)
    BY <1>1, <2>1, ChainTo, Zenon
  <2> HIDE DEF S
  <2>4. Len(SubSeq(S, 1, Len(S) - d)) = Len(S) - d
    BY <2>1, <2>2
  <2>5. p \in Range(S) \cup {0}
    <3>1. d # 0 => (Len(S) - d) + 1 \in 1..Len(S)
      BY <2>1, <2>2
    <3> QED
      BY <2>1, <2>2, <3>1 DEF Place
  <2> QED
    BY <2>3, <2>4, <2>5 DEF d, p, S
<1>5. ASSUME NEW n \in 1..used
      PROVE  Cardinality({t \in Threads : n \in Range(Stack(t))}) = IF n \in Range(Chain(frames, 0)) THEN 0 ELSE 1
  <2> DEFINE T == {t \in Threads : n \in Range(Stack(t))}
  <2>1. n \in 1..Frames /\ n <= used
    BY <1>1, UnwindAssumption DEF FramesInv
  <2>2. n \in Range(Free) \/ \E t \in Threads : n \in Range(Stack(t))
    BY <1>1, <2>1, Zenon DEF FramesInv
  <2>3. CASE n \in Range(Free)
    <3>1. T = {}
      BY <1>1, <2>3, Zenon DEF FramesInv
    <3> QED
      BY <2>3, <3>1, FS_EmptySet, Zenon DEF Free
  <2>4. CASE n \notin Range(Free)
    <3>1. PICK t \in Threads : n \in Range(Stack(t))
      BY <2>2, <2>4, Zenon
    <3>2. T = {t}
      BY <1>1, <3>1, Zenon DEF FramesInv
    <3> HIDE DEF T
    <3>3. Cardinality(T) = 1
      BY <3>2, FS_Singleton, Zenon
    <3> QED
      BY <2>4, <3>3, Zenon DEF Free, T
  <2> QED
    BY <2>3, <2>4
<1> QED
  BY <1>3, <1>4, <1>5 DEF EveryFrameOnce

-----------------------------------------------------------------------------
\* The types that an exception is derived from

\* up is the function that Ancestors collects them with.
Collects(type, up) ==
  up = [k \in 0..Cardinality(DOMAIN Parent) |-> IF k = 0 THEN {type} ELSE Widen(up[k - 1])]

LEMMA CollectsExists ==
  ASSUME NEW type \in DOMAIN Parent
  PROVE  \E up : Collects(type, up)
BY UnwindAssumption, FS_CardinalityType, WidenedSets, Zenon DEF Collects

\* What is up the tree from a type is in every closed set with it, and is closed.
LEMMA AncestorsAre ==
  ASSUME NEW type \in DOMAIN Parent, NEW base
  PROVE  base \in Ancestors(type) <=> IsA(type, base)
<1> DEFINE N == Cardinality(DOMAIN Parent)
           up == CHOOSE f : Collects(type, f)
           W(k) == up[k] \ {NONE}
           Closed(S) == {Parent[x] : x \in S} \subseteq S \cup {NONE}
<1>1. N \in Nat /\ IsFiniteSet(DOMAIN Parent) /\ NONE \notin DOMAIN Parent
      /\ \A x \in DOMAIN Parent : Parent[x] \in DOMAIN Parent \cup {NONE}
  BY UnwindAssumption, FS_CardinalityType, Zenon
<1>2. Collects(type, up)
  BY CollectsExists, Zenon
<1>3. Ancestors(type) = up[N] \ {NONE}
  BY DEF Ancestors, Collects, Widen
<1> HIDE DEF N, up
<1>4. up[0] = {type} /\ \A k \in 1..N : up[k] = Widen(up[k - 1])
  <2>1. up = [k \in 0..N |-> IF k = 0 THEN {type} ELSE Widen(up[k - 1])]
    BY Zenon, <1>2 DEF Collects, N
  <2>2. \A k \in 0..N : up[k] = IF k = 0 THEN {type} ELSE Widen(up[k - 1])
    BY <2>1
  <2>3. 0 \in 0..N /\ \A k \in 1..N : k \in 0..N /\ k # 0
    BY <1>1
  <2> QED
    BY <2>2, <2>3
<1>5. ASSUME NEW S \in SUBSET DOMAIN Parent, type \in S, Closed(S) PROVE \A k \in 0..N : up[k] \subseteq S \cup {NONE}
  <2> DEFINE Bad == {k \in 0..N : ~(up[k] \subseteq S \cup {NONE})}
  <2>1. SUFFICES ASSUME Bad # {} PROVE FALSE
    OBVIOUS
  <2>2. PICK k \in Bad : \A l \in Bad : k <= l
    <3>1. Bad \in SUBSET Nat
      BY <1>1
    <3> HIDE DEF Bad
    <3> QED
      BY <2>1, <3>1, LeastNatural
  <2>3. k # 0
    BY <1>4, <1>5
  <2>4. k \in 1..N /\ k - 1 \in 0..N /\ ~(k <= k - 1)
    BY <1>1, <2>3
  <2>5. up[k - 1] \subseteq S \cup {NONE}
    BY <2>2, <2>4
  <2>6. up[k] = Widen(up[k - 1])
    BY <1>4, <2>4
  <2>7. Widen(up[k - 1]) \subseteq S \cup {NONE}
    BY <1>5, <2>5 DEF Widen
  <2> QED
    BY <2>6, <2>7
<1>6. \A k \in 0..N : W(k) \subseteq DOMAIN Parent
  BY <1>1, <1>5
<1>7. \A k \in 0..N : IsFiniteSet(W(k)) /\ Cardinality(W(k)) \in Nat /\ Cardinality(W(k)) <= N
  BY <1>1, <1>6, FS_Subset, FS_CardinalityType, Zenon DEF N
<1>8. ASSUME NEW k \in 1..N PROVE W(k - 1) \subseteq W(k) /\ \A x \in W(k - 1) : Parent[x] \in W(k) \cup {NONE}
  BY <1>4 DEF Widen
<1>9. ASSUME NEW k \in 1..N, Closed(W(k - 1)) PROVE W(k) = W(k - 1)
  <2>1. up[k] = Widen(up[k - 1])
    BY <1>4
  <2> QED
    BY <1>9, <2>1 DEF Widen
<1>10. \A k \in 0..N : Closed(W(k)) \/ k + 1 <= Cardinality(W(k))
  <2> DEFINE Bad == {k \in 0..N : ~(Closed(W(k)) \/ k + 1 <= Cardinality(W(k)))}
  <2>1. SUFFICES ASSUME Bad # {} PROVE FALSE
    OBVIOUS
  <2>2. PICK k \in Bad : \A l \in Bad : k <= l
    <3>1. Bad \in SUBSET Nat
      BY <1>1
    <3> HIDE DEF Bad
    <3> QED
      BY <2>1, <3>1, LeastNatural
  <2>3. k \in 0..N /\ ~Closed(W(k)) /\ ~(k + 1 <= Cardinality(W(k)))
    OBVIOUS
  <2>4. CASE k = 0
    <3>1. W(k) = {type}
      BY <1>1, <1>4, <2>4
    <3>2. Cardinality(W(k)) = 1
      BY <3>1, FS_Singleton
    <3> HIDE DEF W
    <3> QED
      BY <2>3, <2>4, <3>2
  <2>5. CASE k # 0
    <3>1. k \in 1..N /\ k - 1 \in 0..N /\ ~(k <= k - 1) /\ (k - 1) + 1 = k
      BY <1>1, <2>3, <2>5
    <3>2. Closed(W(k - 1)) \/ k <= Cardinality(W(k - 1))
      BY <2>2, <3>1
    <3>3. ~Closed(W(k - 1))
      <4>1. Closed(W(k - 1)) => W(k) = W(k - 1)
        BY <1>9, <3>1
      <4> HIDE DEF W
      <4> QED
        BY <2>3, <4>1
    <3>4. PICK x \in W(k - 1) : Parent[x] \notin W(k - 1) \cup {NONE}
      BY <3>3
    <3> DEFINE V == W(k - 1) \cup {Parent[x]}
    <3>5. V \subseteq W(k)
      BY <1>8, <3>1, <3>4
    <3> HIDE DEF W
    <3>6. IsFiniteSet(W(k - 1)) /\ Cardinality(W(k - 1)) \in Nat /\ IsFiniteSet(W(k)) /\ Cardinality(W(k)) \in Nat
      BY <1>7, <2>3, <3>1, Zenon
    <3>7. Cardinality(V) = Cardinality(W(k - 1)) + 1
      <4>1. \A S, y : IsFiniteSet(S) /\ y \notin S => Cardinality(S \cup {y}) = Cardinality(S) + 1
        BY FS_AddElement
      <4>2. Parent[x] \notin W(k - 1)
        BY <3>4, Zenon
      <4> QED
        BY <3>6, <4>1, <4>2, Zenon
    <3>8. Cardinality(V) <= Cardinality(W(k))
      BY <3>5, <3>6, FS_Subset, Zenon
    <3> HIDE DEF V
    <3>9. k <= Cardinality(W(k - 1))
      BY <3>2, <3>3
    <3> HIDE DEF Closed
    <3> QED
      BY <2>3, <3>1, <3>6, <3>7, <3>8, <3>9
  <2> QED
    BY <2>4, <2>5
<1>11. Closed(W(N))
  <2>1. N \in 0..N /\ ~(N + 1 <= N)
    BY <1>1
  <2>2. Cardinality(W(N)) \in Nat /\ Cardinality(W(N)) <= N /\ (Closed(W(N)) \/ N + 1 <= Cardinality(W(N)))
    BY <1>7, <1>10, <2>1, Zenon
  <2> HIDE DEF W, Closed
  <2> QED
    BY <1>1, <2>2
<1>12. type \in W(N)
  <2> DEFINE Bad == {k \in 0..N : type \notin W(k)}
  <2>1. SUFFICES ASSUME Bad # {} PROVE FALSE
    BY <1>1
  <2>2. PICK k \in Bad : \A l \in Bad : k <= l
    <3>1. Bad \in SUBSET Nat
      BY <1>1
    <3> HIDE DEF Bad
    <3> QED
      BY <2>1, <3>1, LeastNatural
  <2>3. k # 0
    BY <1>1, <1>4
  <2>4. k \in 1..N /\ k - 1 \in 0..N /\ ~(k <= k - 1)
    BY <1>1, <2>3
  <2>5. type \in W(k - 1)
    BY <2>2, <2>4
  <2> QED
    BY <1>8, <2>4, <2>5
<1>13. ASSUME base \in Ancestors(type) PROVE IsA(type, base)
  <2> SUFFICES ASSUME NEW S \in SUBSET DOMAIN Parent, type \in S, Closed(S) PROVE base \in S
    BY DEF IsA
  <2>1. N \in 0..N
    BY <1>1
  <2>2. up[N] \subseteq S \cup {NONE}
    BY <1>5, <2>1
  <2> QED
    BY <1>3, <1>13, <2>2
<1>14. ASSUME IsA(type, base) PROVE base \in Ancestors(type)
  <2>1. N \in 0..N
    BY <1>1
  <2>2. W(N) \in SUBSET DOMAIN Parent
    BY <1>6, <2>1
  <2>3. base \in W(N)
    <3> HIDE DEF W
    <3> QED
      BY <1>11, <1>12, <1>14, <2>2 DEF IsA
  <2> QED
    BY <1>3, <2>3
<1> QED
  BY <1>13, <1>14

LEMMA MatchIsDerived ==
  ASSUME NEW t \in Threads, NEW f \in TryFrame(t), f.cause # NONE
  PROVE  exception_match(f) <=> \E base \in f.clauses.catch : IsA(f.cause, base)
<1>1. f.cause \in DOMAIN Parent
  BY UnwindAssumption DEF TryFrame
<1>2. \A base : base \in Ancestors(f.cause) <=> IsA(f.cause, base)
  BY <1>1, AncestorsAre, Zenon
<1> QED
  BY <1>2, Zenon DEF exception_match

\* A catch block runs for an exception derived from its type, and an exception does not
\* pass a catch block that is for it.
THEOREM CatchesItsOwnCorrect == Spec => []CatchesItsOwn
<1> SUFFICES ASSUME UnwindInv PROVE CatchesItsOwn
  BY UnwindInvariance, PTL
<1> SUFFICES ASSUME NEW t \in Threads, NEW f \in Range(tries[t]), f.state = EXCEPTION_CATCHING, f.at = "catch" \/ ~f.caught
             PROVE  f.at = "catch" <=> \E base \in f.clauses.catch : IsA(f.cause, base)
  BY Zenon DEF CatchesItsOwn
<1>1. TryInv
  BY DEF UnwindInv
<1>2. tries[t] \in Seq(TryFrame(t)) /\ Nested(tries[t], panic)
  BY <1>1, TryFacts, Zenon
<1>3. PICK i \in 1..Len(tries[t]) : tries[t][i] = f
  BY <1>2, ElementsOf, Zenon
<1>4. FrameInv(f)
  BY <1>2, <1>3, Zenon DEF Nested
<1>5. f \in TryFrame(t)
  BY <1>2, <1>3, ElementsOf, Zenon
<1>6. f.cause # NONE /\ (f.at = "catch" <=> exception_match(f))
  BY <1>4 DEF FrameInv
<1> QED
  BY <1>5, <1>6, MatchIsDerived, Zenon
=============================================================================

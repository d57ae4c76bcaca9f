----------------------------- MODULE TarProofs -----------------------------
(***************************************************************************)
(* The scan of an archive and the tree of names of TarFs, for any archive. *)
(***************************************************************************)
EXTENDS TarFs, WellFoundedInduction, TLAPS

-----------------------------------------------------------------------------
\* Numbers and sequences

\* A set of naturals that is not empty has a least element.
LEMMA LeastNatural ==
  ASSUME NEW T \in SUBSET Nat, T # {}
  PROVE  \E n \in T : \A m \in T : n <= m
<1> DEFINE R == {p \in Nat \X Nat : p[1] < p[2]}
<1>1. IsWellFoundedOn(R, Nat)
  BY NatLessThanWellFounded DEF OpToRel
<1>2. PICK n \in T : \A m \in T : <<m, n>> \notin R
  BY <1>1, WFMin, Zenon
<1>3. ASSUME NEW m \in T PROVE n <= m
  <2>1. <<m, n>> \in Nat \X Nat /\ ~(<<m, n>>[1] < <<m, n>>[2])
    BY <1>2
  <2> QED
    BY <2>1
<1> QED
  BY <1>3

\* Induction: a set that has 0, and with a number the next, has them all.
LEMMA AllNaturals ==
  ASSUME NEW T, 0 \in T, \A n \in Nat : n \in T => n + 1 \in T
  PROVE  \A n \in Nat : n \in T
<1> SUFFICES ASSUME NEW a \in Nat, a \notin T PROVE FALSE
  BY Zenon
<1> DEFINE M == {n \in Nat : n \notin T}
<1>1. PICK n \in M : \A m \in M : n <= m
  BY LeastNatural, Zenon
<1>2. n # 0 /\ n \in Nat /\ n \notin T
  BY <1>1, Zenon
<1>3. n - 1 \in Nat /\ (n - 1) + 1 = n /\ ~(n <= n - 1)
  BY <1>2
<1>4. n - 1 \in T
  BY <1>1, <1>3, Zenon
<1> QED
  BY <1>2, <1>3, <1>4, Zenon

LEMMA SeqFacts ==
  ASSUME NEW S, NEW s \in Seq(S)
  PROVE  /\ Len(s) \in Nat /\ DOMAIN s = 1..Len(s)
         /\ \A i \in 1..Len(s) : s[i] \in S
         /\ s = <<>> <=> Len(s) = 0
  OBVIOUS

LEMMA AppendFacts ==
  ASSUME NEW S, NEW s \in Seq(S), NEW e \in S
  PROVE  /\ Append(s, e) \in Seq(S) /\ Append(s, e) # <<>> /\ Len(Append(s, e)) = Len(s) + 1
         /\ Append(s, e)[Len(s) + 1] = e /\ \A i \in 1..Len(s) : Append(s, e)[i] = s[i]
         /\ s \o <<e>> = Append(s, e)
  OBVIOUS

LEMMA ConcatFacts ==
  ASSUME NEW S, NEW s \in Seq(S), NEW t \in Seq(S)
  PROVE  /\ s \o t \in Seq(S) /\ Len(s \o t) = Len(s) + Len(t)
         /\ \A i \in 1..Len(s) : (s \o t)[i] = s[i]
         /\ \A i \in 1..Len(t) : (s \o t)[Len(s) + i] = t[i]
  OBVIOUS

LEMMA PartSeq ==
  ASSUME NEW S, NEW s, NEW n \in Nat, \A i \in 1..n : s[i] \in S
  PROVE  /\ SubSeq(s, 1, n) \in Seq(S) /\ Len(SubSeq(s, 1, n)) = n
         /\ \A i \in 1..n : SubSeq(s, 1, n)[i] = s[i]
  OBVIOUS

\* A path without its last name
Up(p) == SubSeq(p, 1, Len(p) - 1)

LEMMA UpFacts ==
  ASSUME NEW S, NEW p \in Seq(S), p # <<>>
  PROVE  /\ Up(p) \in Seq(S) /\ Len(Up(p)) = Len(p) - 1 /\ Len(p) \in Nat \ {0}
         /\ p[Len(p)] \in S /\ p = Append(Up(p), p[Len(p)])
<1>1. Len(p) \in Nat \ {0} /\ p[Len(p)] \in S
  OBVIOUS
<1>2. Up(p) \in Seq(S) /\ Len(Up(p)) = Len(p) - 1 /\ \A i \in 1..Len(p) - 1 : Up(p)[i] = p[i]
  <2>1. PICK n \in Nat : n = Len(p) - 1 /\ \A i \in 1..n : p[i] \in S
    BY <1>1
  <2>2. SubSeq(p, 1, n) \in Seq(S) /\ Len(SubSeq(p, 1, n)) = n /\ \A i \in 1..n : SubSeq(p, 1, n)[i] = p[i]
    BY <2>1, PartSeq
  <2> QED
    BY <2>1, <2>2, Zenon DEF Up
<1>3. p = Append(Up(p), p[Len(p)])
  BY <1>1, <1>2
<1> QED
  BY <1>1, <1>2, <1>3

LEMMA UpAppend ==
  ASSUME NEW S, NEW p \in Seq(S), NEW e \in S
  PROVE  Up(Append(p, e)) = p /\ Append(p, e)[Len(Append(p, e))] = e
<1> DEFINE q == Append(p, e)
<1>1. Len(q) = Len(p) + 1 /\ q[Len(p) + 1] = e /\ (\A i \in 1..Len(p) : q[i] = p[i]) /\ Len(p) \in Nat
  OBVIOUS
<1> HIDE DEF q
<1>2. (Len(p) + 1) - 1 = Len(p)
  BY <1>1
<1>3. \A i \in 1..Len(p) : q[i] \in S
  BY <1>1
<1>4. Up(q) = SubSeq(q, 1, Len(p))
  BY <1>1, <1>2, Zenon DEF Up
<1>5. Up(q) \in Seq(S) /\ Len(Up(q)) = Len(p) /\ \A i \in 1..Len(p) : Up(q)[i] = p[i]
  <2>1. SubSeq(q, 1, Len(p)) \in Seq(S)
    BY <1>1, <1>3, PartSeq, Zenon
  <2>2. Len(SubSeq(q, 1, Len(p))) = Len(p) /\ \A i \in 1..Len(p) : SubSeq(q, 1, Len(p))[i] = p[i]
    BY <1>1, <1>3, PartSeq
  <2> QED
    BY <1>4, <2>1, <2>2
<1>6. Up(q) = p
  BY <1>5
<1> QED
  BY <1>1, <1>6 DEF q

\* The first names of a path, one more at a time
LEMMA PrefixFacts ==
  ASSUME NEW S, NEW p \in Seq(S)
  PROVE  /\ SubSeq(p, 1, 0) = <<>> /\ SubSeq(p, 1, Len(p)) = p
         /\ \A k \in 0..Len(p) : SubSeq(p, 1, k) \in Seq(S) /\ Len(SubSeq(p, 1, k)) = k
         /\ \A k \in 1..Len(p) : SubSeq(p, 1, k) = Append(SubSeq(p, 1, k - 1), p[k])
<1>1. \A k \in 0..Len(p) : SubSeq(p, 1, k) \in Seq(S) /\ Len(SubSeq(p, 1, k)) = k
                         /\ \A i \in 1..k : SubSeq(p, 1, k)[i] = p[i]
  OBVIOUS
<1>2. SubSeq(p, 1, 0) = <<>> /\ SubSeq(p, 1, Len(p)) = p
  OBVIOUS
<1>3. ASSUME NEW k \in 1..Len(p) PROVE SubSeq(p, 1, k) = Append(SubSeq(p, 1, k - 1), p[k])
  <2>1. k - 1 \in 0..Len(p) /\ k \in 0..Len(p) /\ p[k] \in S
    OBVIOUS
  <2> QED
    BY <1>1, <2>1
<1> QED
  BY <1>1, <1>2, <1>3

-----------------------------------------------------------------------------
\* Lookups, one name at a time

Step(t, dir, name) == IF dir = 0 THEN 0 ELSE Inode(t, dir, name)

\* at is the function that Lookup walks with, for the first names of a path.
Walks(t, p, N, at) == at = [n \in 0..N |-> IF n = 0 THEN 1 ELSE Step(t, at[n - 1], p[n])]

LEMMA WalkFacts ==
  ASSUME NEW t, NEW p, NEW N \in Nat, NEW at, Walks(t, p, N, at)
  PROVE  at[0] = 1 /\ \A n \in 1..N : at[n] = Step(t, at[n - 1], p[n])
<1>1. \A n \in 0..N : at[n] = IF n = 0 THEN 1 ELSE Step(t, at[n - 1], p[n])
  BY DEF Walks
<1>2. 0 \in 0..N /\ \A n \in 1..N : n \in 0..N /\ n # 0
  OBVIOUS
<1> QED
  BY <1>1, <1>2, Zenon

LEMMA WalkIs ==
  ASSUME NEW t, NEW p, NEW N \in Nat, NEW at, at = [n \in 0..N |-> at[n]],
         at[0] = 1, \A n \in 1..N : at[n] = Step(t, at[n - 1], p[n])
  PROVE  Walks(t, p, N, at)
<1>1. \A n \in 0..N : n # 0 => n \in 1..N
  OBVIOUS
<1>2. \A n \in 0..N : at[n] = IF n = 0 THEN 1 ELSE Step(t, at[n - 1], p[n])
  BY <1>1, Zenon
<1> QED
  BY <1>2 DEF Walks

LEMMA WalkExists == ASSUME NEW t, NEW p PROVE \A N \in Nat : \E at : Walks(t, p, N, at)
<1> DEFINE T == {N \in Nat : \E at : Walks(t, p, N, at)}
<1>1. 0 \in T
  <2> DEFINE a0 == [n \in 0..0 |-> 1]
  <2>1. a0 = [n \in 0..0 |-> a0[n]] /\ a0[0] = 1 /\ \A n \in 1..0 : a0[n] = Step(t, a0[n - 1], p[n])
    OBVIOUS
  <2> HIDE DEF a0
  <2>2. Walks(t, p, 0, a0)
    BY <2>1, WalkIs
  <2> QED
    BY <2>2
<1>2. ASSUME NEW n \in Nat, n \in T PROVE n + 1 \in T
  <2>1. PICK at : Walks(t, p, n, at)
    BY <1>2
  <2> DEFINE g == [k \in 0..n + 1 |-> IF k = n + 1 THEN Step(t, at[n], p[n + 1]) ELSE at[k]]
  <2>2. at[0] = 1 /\ \A k \in 1..n : at[k] = Step(t, at[k - 1], p[k])
    BY <2>1, WalkFacts
  <2>3. /\ \A k \in 0..n : g[k] = at[k]
        /\ g[n + 1] = Step(t, at[n], p[n + 1]) /\ g = [k \in 0..n + 1 |-> g[k]]
    OBVIOUS
  <2> HIDE DEF g
  <2>4. /\ \A k \in 1..n + 1 : k # n + 1 => k \in 1..n /\ k \in 0..n /\ k - 1 \in 0..n
        /\ (n + 1) - 1 = n /\ n \in 0..n /\ 0 \in 0..n /\ n + 1 \in Nat
    OBVIOUS
  <2>5. g[0] = 1
    BY <2>2, <2>3, <2>4
  <2>6. ASSUME NEW k \in 1..n + 1 PROVE g[k] = Step(t, g[k - 1], p[k])
    <3>1. CASE k = n + 1
      BY <2>3, <2>4, <3>1, Zenon
    <3>2. CASE k # n + 1
      BY <2>2, <2>3, <2>4, <3>2, Zenon
    <3> QED
      BY <3>1, <3>2
  <2>7. Walks(t, p, n + 1, g)
    BY <2>3, <2>4, <2>5, <2>6, WalkIs, Zenon
  <2> QED
    BY <2>7
<1>3. \A n \in Nat : n \in T
  <2> HIDE DEF T
  <2> QED
    BY <1>1, <1>2, AllNaturals, Zenon
<1> QED
  BY <1>3

\* A walk along more names starts with the walk along fewer.
LEMMA WalksAgree ==
  ASSUME NEW t, NEW p, NEW q, NEW M \in Nat, NEW N \in Nat, M <= N, \A i \in 1..M : p[i] = q[i],
         NEW f, NEW g, Walks(t, p, M, f), Walks(t, q, N, g)
  PROVE  \A k \in 0..M : f[k] = g[k]
<1> DEFINE T == {k \in Nat : k <= M => f[k] = g[k]}
<1>1. /\ f[0] = 1 /\ \A k \in 1..M : f[k] = Step(t, f[k - 1], p[k])
      /\ g[0] = 1 /\ \A k \in 1..N : g[k] = Step(t, g[k - 1], q[k])
  BY WalkFacts
<1>2. 0 \in T
  BY <1>1
<1>3. ASSUME NEW n \in Nat, n \in T PROVE n + 1 \in T
  <2>1. CASE n + 1 <= M
    <3>1. n <= M /\ n + 1 \in 1..M /\ n + 1 \in 1..N /\ (n + 1) - 1 = n
      BY <2>1
    <3>2. f[n + 1] = Step(t, f[n], p[n + 1]) /\ g[n + 1] = Step(t, g[n], q[n + 1])
      BY <1>1, <3>1
    <3>3. f[n] = g[n] /\ p[n + 1] = q[n + 1]
      BY <1>3, <3>1
    <3> QED
      BY <3>2, <3>3
  <2>2. CASE ~(n + 1 <= M)
    BY <2>2
  <2> QED
    BY <2>1, <2>2
<1>4. \A n \in Nat : n \in T
  <2> HIDE DEF T
  <2> QED
    BY <1>2, <1>3, AllNaturals, Zenon
<1> QED
  BY <1>4

LEMMA LookupEmpty == ASSUME NEW t PROVE Lookup(t, <<>>) = 1
<1> DEFINE w == CHOOSE at : Walks(t, <<>>, 0, at)
<1>1. Walks(t, <<>>, 0, w)
  BY WalkExists, Zenon
<1>2. Lookup(t, <<>>) = w[0]
  BY DEF Lookup, Walks, Step
<1> HIDE DEF w
<1> QED
  BY <1>1, <1>2, WalkFacts

LEMMA LookupAppend ==
  ASSUME NEW t, NEW p \in Seq(FileNames), NEW x \in FileNames
  PROVE  Lookup(t, Append(p, x)) = Step(t, Lookup(t, p), x)
<1> DEFINE q == Append(p, x)
           n == Len(p)
           v == CHOOSE at : Walks(t, p, n, at)
           w == CHOOSE at : Walks(t, q, Len(q), at)
<1>1. n \in Nat /\ n + 1 \in Nat /\ n <= n + 1 /\ n \in 0..n /\ n + 1 \in 1..n + 1 /\ (n + 1) - 1 = n
  BY SeqFacts
<1>2. Len(q) = n + 1 /\ q[n + 1] = x /\ \A i \in 1..n : p[i] = q[i]
  BY AppendFacts
<1>3. Walks(t, p, n, v)
  BY <1>1, WalkExists, Zenon
<1>4. Walks(t, q, n + 1, w)
  BY <1>1, <1>2, WalkExists, Zenon
<1>5. Lookup(t, p) = v[n] /\ Lookup(t, q) = w[Len(q)]
  BY DEF Lookup, Walks, Step
<1> HIDE DEF q, n, v, w
<1>6. PICK N \in Nat : N = n + 1 /\ n <= N /\ N \in 1..N /\ N - 1 = n
  BY <1>1
<1>7. Walks(t, q, N, w)
  BY <1>4, <1>6, Zenon
<1>8. \A k \in 0..n : v[k] = w[k]
  <2>1. n \in Nat /\ n <= N /\ \A i \in 1..n : p[i] = q[i]
    BY <1>1, <1>2, <1>6, Zenon
  <2> QED
    BY <1>3, <1>7, <2>1, WalksAgree
<1>9. w[N] = Step(t, w[n], x)
  <2>1. \A k \in 1..N : w[k] = Step(t, w[k - 1], q[k])
    BY <1>7, WalkFacts
  <2> QED
    BY <1>2, <1>6, <2>1
<1> QED
  BY <1>1, <1>2, <1>5, <1>6, <1>8, <1>9 DEF q

-----------------------------------------------------------------------------
\* Trees of names

\* Every directory entry has an inode of its own, below the next one to give out, and is
\* in a directory below it.
Good(t, nx) ==
  /\ nx \in Nat /\ nx >= 2
  /\ \A key \in DOMAIN t : t[key] \in 2..nx - 1 /\ key[1] \in 0..nx - 1
  /\ \A key, other \in DOMAIN t : t[key] = t[other] => key = other

Grows(t, u) == DOMAIN t \subseteq DOMAIN u /\ \A key \in DOMAIN t : u[key] = t[key]

LEMMA StepIs ==
  ASSUME NEW t, NEW nx, Good(t, nx), NEW d, NEW x
  PROVE  /\ d = 0 => Step(t, d, x) = 0
         /\ d # 0 /\ <<d, x>> \in DOMAIN t => Step(t, d, x) = t[<<d, x>>]
         /\ <<d, x>> \notin DOMAIN t => Step(t, d, x) = 0
         /\ Step(t, d, x) # 0 => d # 0 /\ <<d, x>> \in DOMAIN t /\ Step(t, d, x) = t[<<d, x>>]
         /\ Step(t, d, x) \in 0..nx - 1 /\ Step(t, d, x) # 1
         /\ \A key \in DOMAIN t : t[key] # 0 /\ t[key] # 1
<1>1. nx \in Nat /\ nx >= 2 /\ \A key \in DOMAIN t : t[key] \in 2..nx - 1
  BY DEF Good
<1>2. \A key \in DOMAIN t : t[key] # 0 /\ t[key] # 1 /\ t[key] \in 0..nx - 1
  BY <1>1
<1>3. 0 \in 0..nx - 1 /\ 0 # 1
  BY <1>1
<1> QED
  BY <1>2, <1>3, Zenon DEF Step, Inode

LEMMA LookupRange ==
  ASSUME NEW t, NEW nx, Good(t, nx), NEW p \in Seq(FileNames)
  PROVE  Lookup(t, p) \in 0..nx - 1 /\ (Lookup(t, p) = 1 <=> p = <<>>)
<1>1. CASE p = <<>>
  <2>1. 1 \in 0..nx - 1
    BY DEF Good
  <2> QED
    BY <1>1, <2>1, LookupEmpty
<1>2. CASE p # <<>>
  <2>1. Up(p) \in Seq(FileNames) /\ p[Len(p)] \in FileNames /\ p = Append(Up(p), p[Len(p)])
    BY <1>2, UpFacts, Zenon
  <2>2. Lookup(t, p) = Step(t, Lookup(t, Up(p)), p[Len(p)])
    BY <2>1, LookupAppend, Zenon
  <2>3. \A d, x : Step(t, d, x) \in 0..nx - 1 /\ Step(t, d, x) # 1
    BY StepIs, Zenon
  <2> QED
    BY <1>2, <2>2, <2>3, Zenon
<1> QED
  BY <1>1, <1>2

\* The last name of a path that can be found is an entry of the directory before it.
LEMMA LastEntry ==
  ASSUME NEW t, NEW nx, Good(t, nx), NEW p \in Seq(FileNames), p # <<>>, Lookup(t, p) # 0
  PROVE  /\ Up(p) \in Seq(FileNames) /\ Lookup(t, Up(p)) # 0
         /\ <<Lookup(t, Up(p)), p[Len(p)]>> \in DOMAIN t
         /\ Lookup(t, p) = t[<<Lookup(t, Up(p)), p[Len(p)]>>]
<1>1. Up(p) \in Seq(FileNames) /\ p[Len(p)] \in FileNames /\ p = Append(Up(p), p[Len(p)])
  BY UpFacts, Zenon
<1>2. Lookup(t, p) = Step(t, Lookup(t, Up(p)), p[Len(p)])
  BY <1>1, LookupAppend, Zenon
<1> QED
  BY <1>1, <1>2, StepIs, Zenon

\* There is one path to an inode.
LEMMA OnePath ==
  ASSUME NEW t, NEW nx, Good(t, nx)
  PROVE  \A p, q \in Seq(FileNames) : Lookup(t, p) # 0 /\ Lookup(t, p) = Lookup(t, q) => p = q
<1> DEFINE T == {n \in Nat : \A p, q \in Seq(FileNames) :
                   Len(p) = n /\ Lookup(t, p) # 0 /\ Lookup(t, p) = Lookup(t, q) => p = q}
<1>1. 0 \in T
  <2> SUFFICES ASSUME NEW p \in Seq(FileNames), NEW q \in Seq(FileNames), Len(p) = 0,
                      Lookup(t, p) = Lookup(t, q)
               PROVE  p = q
    BY Zenon
  <2>1. p = <<>>
    BY SeqFacts
  <2> QED
    BY <2>1, LookupRange, Zenon
<1>2. ASSUME NEW n \in Nat, n \in T PROVE n + 1 \in T
  <2>0. n + 1 \in Nat
    OBVIOUS
  <2> SUFFICES ASSUME NEW p \in Seq(FileNames), NEW q \in Seq(FileNames), Len(p) = n + 1,
                      Lookup(t, p) # 0, Lookup(t, p) = Lookup(t, q)
               PROVE  p = q
    BY <2>0, Zenon
  <2>1. p # <<>>
    BY SeqFacts
  <2>2. q # <<>>
    BY <2>1, LookupRange, Zenon
  <2>3. Len(Up(p)) = n
    BY <2>1, UpFacts
  <2> DEFINE kp == <<Lookup(t, Up(p)), p[Len(p)]>>
             kq == <<Lookup(t, Up(q)), q[Len(q)]>>
  <2>4. /\ Up(p) \in Seq(FileNames) /\ Lookup(t, Up(p)) # 0 /\ kp \in DOMAIN t /\ Lookup(t, p) = t[kp]
        /\ Up(q) \in Seq(FileNames) /\ kq \in DOMAIN t /\ Lookup(t, q) = t[kq]
    BY <2>1, <2>2, LastEntry, Zenon
  <2>5. kp = kq
    BY <2>4, Zenon DEF Good
  <2>6. Lookup(t, Up(p)) = Lookup(t, Up(q)) /\ p[Len(p)] = q[Len(q)]
    BY <2>5
  <2>7. Up(p) = Up(q)
    BY <1>2, <2>3, <2>4, <2>6, Zenon
  <2> QED
    BY <2>1, <2>2, <2>6, <2>7, UpFacts, Zenon
<1>3. \A n \in Nat : n \in T
  <2> HIDE DEF T
  <2> QED
    BY <1>1, <1>2, AllNaturals, Zenon
<1> SUFFICES ASSUME NEW p \in Seq(FileNames), NEW q \in Seq(FileNames), Lookup(t, p) # 0, Lookup(t, p) = Lookup(t, q)
             PROVE  p = q
  BY Zenon
<1>4. Len(p) \in Nat
  BY SeqFacts
<1> QED
  BY <1>3, <1>4, Zenon

\* What can be found is found in a tree that has grown.
LEMMA StillFound ==
  ASSUME NEW t, NEW u, NEW nx, NEW ux, Good(t, nx), Good(u, ux), Grows(t, u)
  PROVE  \A p \in Seq(FileNames) : Lookup(t, p) # 0 => Lookup(u, p) = Lookup(t, p)
<1> DEFINE T == {n \in Nat : \A p \in Seq(FileNames) : Len(p) = n /\ Lookup(t, p) # 0 => Lookup(u, p) = Lookup(t, p)}
<1>1. 0 \in T
  <2> SUFFICES ASSUME NEW p \in Seq(FileNames), Len(p) = 0 PROVE Lookup(u, p) = Lookup(t, p)
    BY Zenon
  <2>1. p = <<>>
    BY SeqFacts
  <2> QED
    BY <2>1, LookupEmpty, Zenon
<1>2. ASSUME NEW n \in Nat, n \in T PROVE n + 1 \in T
  <2>0. n + 1 \in Nat
    OBVIOUS
  <2> SUFFICES ASSUME NEW p \in Seq(FileNames), Len(p) = n + 1, Lookup(t, p) # 0
               PROVE  Lookup(u, p) = Lookup(t, p)
    BY <2>0, Zenon
  <2>1. p # <<>>
    BY SeqFacts
  <2>2. Len(Up(p)) = n /\ p[Len(p)] \in FileNames /\ p = Append(Up(p), p[Len(p)])
    BY <2>1, UpFacts
  <2> DEFINE d == Lookup(t, Up(p))
             x == p[Len(p)]
  <2>3. Up(p) \in Seq(FileNames) /\ d # 0 /\ <<d, x>> \in DOMAIN t /\ Lookup(t, p) = t[<<d, x>>]
    BY <2>1, LastEntry, Zenon
  <2>4. Lookup(u, Up(p)) = d
    BY <1>2, <2>2, <2>3, Zenon
  <2>5. Lookup(u, p) = Step(u, d, x)
    BY <2>2, <2>3, <2>4, LookupAppend, Zenon
  <2>6. <<d, x>> \in DOMAIN u /\ u[<<d, x>>] = t[<<d, x>>]
    BY <2>3, Zenon DEF Grows
  <2>7. Step(u, d, x) = u[<<d, x>>]
    BY <2>3, <2>6, Zenon DEF Step, Inode
  <2> QED
    BY <2>3, <2>5, <2>6, <2>7, Zenon
<1>3. \A n \in Nat : n \in T
  <2> HIDE DEF T
  <2> QED
    BY <1>1, <1>2, AllNaturals, Zenon
<1> SUFFICES ASSUME NEW p \in Seq(FileNames), Lookup(t, p) # 0 PROVE Lookup(u, p) = Lookup(t, p)
  BY Zenon
<1>4. Len(p) \in Nat
  BY SeqFacts
<1> QED
  BY <1>3, <1>4, Zenon

-----------------------------------------------------------------------------
\* What adding a file makes of a tree

\* d is no directory that can be found, nor the inode given out next.
Lost(t, nx, d) == d # nx /\ \A q \in Seq(FileNames) : Lookup(t, q) # 0 => Lookup(t, q) # d

\* The tree u has more entries than t, but only one where a lookup could find it, that
\* of path r.
OnlyNew(t, nx, u, r) ==
  /\ Grows(t, u)
  /\ r \in Seq(FileNames) /\ r # <<>> /\ Lookup(t, Up(r)) # 0
  /\ \A key \in DOMAIN u : \/ key \in DOMAIN t \/ Lost(t, nx, key[1])
                           \/ key = <<Lookup(t, Up(r)), r[Len(r)]>> /\ u[key] = nx

LEMMA OnlyNewFound ==
  ASSUME NEW t, NEW u, NEW nx, NEW ux, Good(t, nx), Good(u, ux), NEW r, OnlyNew(t, nx, u, r)
  PROVE  \A q \in Seq(FileNames) : Lookup(u, q) # 0 => Lookup(t, q) = Lookup(u, q) \/ q = r
<1> DEFINE Same(q) == Lookup(u, q) # 0 => Lookup(t, q) = Lookup(u, q) \/ q = r
           T == {n \in Nat : \A q \in Seq(FileNames) : Len(q) = n => Same(q)}
           b == Lookup(t, Up(r))
           y == r[Len(r)]
<1>0. /\ Grows(t, u) /\ r \in Seq(FileNames) /\ r # <<>> /\ b # 0
      /\ \A key \in DOMAIN u : key \in DOMAIN t \/ Lost(t, nx, key[1]) \/ (key = <<b, y>> /\ u[key] = nx)
  BY Zenon DEF OnlyNew
<1>1. /\ Up(r) \in Seq(FileNames) /\ y \in FileNames /\ r = Append(Up(r), y)
  BY <1>0, UpFacts, Zenon
<1>2. b # nx /\ ~Lost(t, nx, b)
  <2>1. b \in 0..nx - 1 /\ nx \in Nat
    BY <1>1, LookupRange, Zenon DEF Good
  <2>2. b # nx
    BY <2>1
  <2> QED
    BY <1>0, <1>1, <2>2, Zenon DEF Lost
<1>3. \A key \in DOMAIN t : key[1] # nx
  <2>1. nx \in Nat /\ \A key \in DOMAIN t : key[1] \in 0..nx - 1
    BY Zenon DEF Good
  <2> QED
    BY <2>1
<1>4. \A x : <<nx, x>> \notin DOMAIN u
  <2> SUFFICES ASSUME NEW x, <<nx, x>> \in DOMAIN u PROVE FALSE
    BY Zenon
  <2>1. <<nx, x>>[1] = nx
    OBVIOUS
  <2>2. <<nx, x>> \notin DOMAIN t /\ ~Lost(t, nx, <<nx, x>>[1])
    BY <1>3, <2>1, Zenon DEF Lost
  <2>3. <<nx, x>> = <<b, y>>
    BY <1>0, <2>2, Zenon
  <2> QED
    BY <1>2, <2>3
<1>5. 0 \in T
  <2> SUFFICES ASSUME NEW q \in Seq(FileNames), Len(q) = 0 PROVE Lookup(u, q) = Lookup(t, q)
    BY Zenon
  <2>1. q = <<>>
    BY SeqFacts
  <2> QED
    BY <2>1, LookupEmpty, Zenon
<1>6. ASSUME NEW n \in Nat, n \in T PROVE n + 1 \in T
  <2>0. n + 1 \in Nat
    OBVIOUS
  <2> SUFFICES ASSUME NEW q \in Seq(FileNames), Len(q) = n + 1, Lookup(u, q) # 0, q # r
               PROVE  Lookup(u, q) = Lookup(t, q)
    BY <2>0, Zenon
  <2>1. q # <<>>
    BY SeqFacts
  <2>2. Len(Up(q)) = n /\ q[Len(q)] \in FileNames /\ q = Append(Up(q), q[Len(q)])
    BY <2>1, UpFacts
  <2> DEFINE d == Lookup(u, Up(q))
             x == q[Len(q)]
  <2>3. Up(q) \in Seq(FileNames) /\ d # 0 /\ <<d, x>> \in DOMAIN u /\ Lookup(u, q) = u[<<d, x>>]
    BY <2>1, LastEntry, Zenon
  <2>4. Lookup(t, Up(q)) = d \/ Up(q) = r
    BY <1>6, <2>2, <2>3, Zenon
  <2>5. Lookup(t, q) = Step(t, Lookup(t, Up(q)), x)
    BY <2>2, <2>3, LookupAppend, Zenon
  <2>6. CASE Lookup(t, Up(q)) = d
    <3>1. CASE <<d, x>> \in DOMAIN t
      <4>1. Step(t, d, x) = t[<<d, x>>] /\ u[<<d, x>>] = t[<<d, x>>]
        BY <1>0, <2>3, <3>1, Zenon DEF Step, Inode, Grows
      <4> QED
        BY <2>3, <2>5, <2>6, <4>1, Zenon
    <3>2. CASE <<d, x>> \notin DOMAIN t
      <4>2. ~Lost(t, nx, d) /\ <<d, x>>[1] = d
        BY <2>3, <2>6, Zenon DEF Lost
      <4>3. <<d, x>> = <<b, y>>
        BY <1>0, <2>3, <3>2, <4>2, Zenon
      <4>4. d = b /\ x = y
        BY <4>3
      <4>5. Up(q) = Up(r)
        BY <1>0, <1>1, <2>3, <2>6, <4>4, OnePath, Zenon
      <4> QED
        BY <1>1, <2>2, <4>4, <4>5, Zenon
    <3> QED
      BY <3>1, <3>2
  <2>7. CASE Lookup(t, Up(q)) # d
    <3>1. Up(q) = r /\ Lookup(u, r) = d /\ Lookup(t, r) # d
      BY <2>4, <2>7, Zenon
    <3>2. Lookup(u, Up(r)) = b
      BY <1>0, <1>1, StillFound, Zenon
    <3>3. <<b, y>> \in DOMAIN u /\ d = u[<<b, y>>]
      <4>1. Lookup(u, r) # 0
        BY <2>3, <3>1, Zenon
      <4>2. <<Lookup(u, Up(r)), y>> \in DOMAIN u /\ Lookup(u, r) = u[<<Lookup(u, Up(r)), y>>]
        BY <1>0, <4>1, LastEntry, Zenon
      <4> QED
        BY <3>1, <3>2, <4>2, Zenon
    <3>4. Lookup(t, r) = Step(t, b, y)
      BY <1>1, LookupAppend, Zenon
    <3>5. <<b, y>> \notin DOMAIN t
      BY <1>0, <3>1, <3>3, <3>4, Zenon DEF Step, Inode, Grows
    <3>6. <<b, y>>[1] = b
      OBVIOUS
    <3>7. d = nx
      BY <1>0, <1>2, <3>3, <3>5, <3>6, Zenon
    <3> QED
      BY <1>4, <2>3, <3>7, Zenon
  <2> QED
    BY <2>6, <2>7
<1>7. \A n \in Nat : n \in T
  <2> HIDE DEF T
  <2> QED
    BY <1>5, <1>6, AllNaturals, Zenon
<1> SUFFICES ASSUME NEW q \in Seq(FileNames) PROVE Same(q)
  BY Zenon
<1>8. Len(q) \in Nat
  BY SeqFacts
<1> QED
  BY <1>7, <1>8, Zenon

-----------------------------------------------------------------------------
\* The loop over the directories of a path

LEMMA GoodExtended ==
  ASSUME NEW t, NEW nx, Good(t, nx), NEW k, k[1] \in 0..nx - 1, k \notin DOMAIN t,
         NEW u, u = Extended(t, k, nx)
  PROVE  /\ Good(u, nx + 1) /\ Grows(t, u) /\ k \in DOMAIN u /\ u[k] = nx
         /\ \A key \in DOMAIN u : key \in DOMAIN t \/ key = k
<1>1. /\ DOMAIN u = DOMAIN t \cup {k} /\ u[k] = nx
      /\ \A key \in DOMAIN t : key # k => u[key] = t[key]
  BY DEF Extended
<1>2. /\ nx \in Nat /\ nx >= 2
      /\ \A key \in DOMAIN t : t[key] \in 2..nx - 1 /\ key[1] \in 0..nx - 1
      /\ \A key, other \in DOMAIN t : t[key] = t[other] => key = other
  BY Zenon DEF Good
<1>3. /\ Grows(t, u) /\ k \in DOMAIN u
      /\ \A key \in DOMAIN u : key \in DOMAIN t \/ key = k
  BY <1>1, Zenon DEF Grows
<1>4. /\ nx + 1 \in Nat /\ nx + 1 >= 2 /\ nx \in 2..(nx + 1) - 1 /\ k[1] \in 0..(nx + 1) - 1 /\ nx \notin 2..nx - 1
      /\ \A i \in 2..nx - 1 : i \in 2..(nx + 1) - 1
      /\ \A i \in 0..nx - 1 : i \in 0..(nx + 1) - 1
  BY <1>2
<1>5. ASSUME NEW key \in DOMAIN u PROVE u[key] \in 2..(nx + 1) - 1 /\ key[1] \in 0..(nx + 1) - 1
  <2>1. CASE key = k
    BY <1>1, <1>4, <2>1, Zenon
  <2>2. CASE key # k
    BY <1>1, <1>2, <1>3, <1>4, <2>2, Zenon
  <2> QED
    BY <2>1, <2>2
<1>6. ASSUME NEW key \in DOMAIN u, NEW other \in DOMAIN u, u[key] = u[other] PROVE key = other
  <2>1. CASE key = k /\ other = k
    BY <2>1, Zenon
  <2>2. CASE key # k /\ other # k
    BY <1>1, <1>2, <1>3, <1>6, <2>2, Zenon
  <2>3. CASE key # k /\ other = k
    <3>1. u[key] \in 2..nx - 1
      BY <1>1, <1>2, <1>3, <2>3, Zenon
    <3> QED
      BY <1>1, <1>4, <1>6, <2>3, <3>1, Zenon
  <2>4. CASE key = k /\ other # k
    <3>1. u[other] \in 2..nx - 1
      BY <1>1, <1>2, <1>3, <2>4, Zenon
    <3> QED
      BY <1>1, <1>4, <1>6, <2>4, <3>1, Zenon
  <2> QED
    BY <2>1, <2>2, <2>3, <2>4, Zenon
<1> QED
  BY <1>1, <1>3, <1>4, <1>5, <1>6, Zenon DEF Good

Fs(t, v, n, d) == [tree |-> t, vnodes |-> v, inext |-> n, dnode |-> d]

LEMMA DescendMeets ==
  ASSUME NEW u, NEW w, NEW m, NEW d, NEW x, Inode(u, d, x) # 0
  PROVE  Descend(Fs(u, w, m, d), x) = Fs(u, w, m, Inode(u, d, x))
<1> DEFINE fs == Fs(u, w, m, d)
<1>1. fs.tree = u /\ fs.dnode = d /\ \A e : [fs EXCEPT !.dnode = e] = Fs(u, w, m, e)
  BY DEF Fs
<1> HIDE DEF fs
<1>2. Descend(fs, x) = Fs(u, w, m, Inode(u, d, x))
  BY <1>1, Zenon DEF Descend
<1> QED
  BY <1>2 DEF fs

LEMMA DescendMakes ==
  ASSUME NEW u, NEW w, NEW m, NEW d, NEW x, Inode(u, d, x) = 0
  PROVE  Descend(Fs(u, w, m, d), x)
           = Fs(Extended(u, <<d, x>>, m), Extended(w, m, Directory(m)), m + 1, 0)
<1> DEFINE fs == Fs(u, w, m, d)
<1>1. fs.tree = u /\ fs.vnodes = w /\ fs.inext = m /\ fs.dnode = d
  BY DEF Fs
<1> HIDE DEF fs
<1>2. Descend(fs, x) = Fs(Extended(u, <<d, x>>, m), Extended(w, m, Directory(m)), m + 1, 0)
  BY <1>1, Zenon DEF Descend, Fs
<1> QED
  BY <1>2 DEF fs

\* The vnodes w are those of v and of inodes given out since.
Keeps(v, nx, w, m) ==
  /\ nx \in Nat /\ m \in Nat /\ nx <= m /\ DOMAIN w = 1..m - 1 /\ \A i \in 1..nx - 1 : w[i] = v[i]

LEMMA KeepsExtended ==
  ASSUME NEW v, NEW nx, NEW w, NEW m, Keeps(v, nx, w, m), nx >= 1, NEW e
  PROVE  Keeps(v, nx, Extended(w, m, e), m + 1)
<1> DEFINE z == Extended(w, m, e)
<1>1. /\ DOMAIN z = DOMAIN w \cup {m} /\ z[m] = e
      /\ \A i \in DOMAIN w : i # m => z[i] = w[i]
  BY DEF Extended
<1>2. /\ nx \in Nat /\ m \in Nat /\ nx <= m /\ DOMAIN w = 1..m - 1 /\ \A i \in 1..nx - 1 : w[i] = v[i]
  BY Zenon DEF Keeps
<1> HIDE DEF z
<1>3. m + 1 \in Nat /\ nx <= m + 1 /\ DOMAIN z = 1..(m + 1) - 1
  BY <1>1, <1>2
<1>4. \A i \in 1..nx - 1 : i \in 1..m - 1 /\ i # m
  BY <1>2
<1>5. \A i \in 1..nx - 1 : z[i] = v[i]
  BY <1>1, <1>2, <1>4, Zenon
<1> QED
  BY <1>2, <1>3, <1>5, Zenon DEF Keeps, z

\* The directory r is missing and has been made, and the search goes on elsewhere.
Strayed(t, v, nx, r, u, w, m, d) ==
  /\ Good(u, m) /\ d \in 0..m - 1 /\ Lost(t, nx, d) /\ Keeps(v, nx, w, m)
  /\ OnlyNew(t, nx, u, r)
  /\ <<Lookup(t, Up(r)), r[Len(r)]>> \in DOMAIN u /\ u[<<Lookup(t, Up(r)), r[Len(r)]>>] = nx

LEMMA LostZero == ASSUME NEW t, NEW nx, Good(t, nx) PROVE Lost(t, nx, 0)
<1>1. nx # 0
  BY DEF Good
<1> QED
  BY <1>1, Zenon DEF Lost


LEMMA DescendStrayed ==
  ASSUME NEW t, NEW v, NEW nx, NEW r, NEW u, NEW w, NEW m, NEW d, NEW x,
         Good(t, nx), Strayed(t, v, nx, r, u, w, m, d)
  PROVE  \E u1, w1, m1, d1 : /\ Descend(Fs(u, w, m, d), x) = Fs(u1, w1, m1, d1)
                             /\ Strayed(t, v, nx, r, u1, w1, m1, d1)
<1> DEFINE b == Lookup(t, Up(r))
           y == r[Len(r)]
<1>1. /\ Good(u, m) /\ d \in 0..m - 1 /\ Lost(t, nx, d) /\ Keeps(v, nx, w, m)
      /\ OnlyNew(t, nx, u, r) /\ <<b, y>> \in DOMAIN u /\ u[<<b, y>>] = nx
  BY Zenon DEF Strayed
<1>2. /\ Grows(t, u) /\ r \in Seq(FileNames) /\ r # <<>> /\ b # 0
      /\ \A key \in DOMAIN u : key \in DOMAIN t \/ Lost(t, nx, key[1]) \/ (key = <<b, y>> /\ u[key] = nx)
  BY <1>1, Zenon DEF OnlyNew
<1>3. Up(r) \in Seq(FileNames)
  BY <1>2, UpFacts, Zenon
<1>4. d # b
  BY <1>1, <1>2, <1>3, Zenon DEF Lost
<1>5. \A key \in DOMAIN u : u[key] # 0 /\ u[key] # 1
  BY <1>1, StepIs, Zenon
<1>6. CASE <<d, x>> \in DOMAIN u
  <2> DEFINE e == u[<<d, x>>]
  <2>1. Inode(u, d, x) = e /\ e # 0
    BY <1>5, <1>6, Zenon DEF Inode
  <2>2. e # nx
    <3>1. <<d, x>> # <<b, y>>
      BY <1>4
    <3> QED
      BY <1>1, <1>6, <3>1, Zenon DEF Good
  <2>3. ASSUME NEW q \in Seq(FileNames), Lookup(t, q) # 0, Lookup(t, q) = e PROVE FALSE
    <3>1. q # <<>>
      BY <1>5, <1>6, <2>3, LookupEmpty, Zenon
    <3> DEFINE c == Lookup(t, Up(q))
               z == q[Len(q)]
    <3>2. Up(q) \in Seq(FileNames) /\ c # 0 /\ <<c, z>> \in DOMAIN t /\ Lookup(t, q) = t[<<c, z>>]
      BY <2>3, <3>1, LastEntry, Zenon
    <3>3. <<c, z>> \in DOMAIN u /\ u[<<c, z>>] = e
      BY <1>2, <2>3, <3>2, Zenon DEF Grows
    <3>4. <<c, z>> = <<d, x>>
      BY <1>1, <1>6, <3>3, Zenon DEF Good
    <3>5. c = d
      BY <3>4
    <3> QED
      BY <1>1, <3>2, <3>5, Zenon DEF Lost
  <2>4. Lost(t, nx, e)
    BY <2>2, <2>3, Zenon DEF Lost
  <2>5. e \in 0..m - 1
    <3>1. e \in 2..m - 1
      BY <1>1, <1>6, Zenon DEF Good
    <3> QED
      BY <3>1
  <2>6. Strayed(t, v, nx, r, u, w, m, e)
    BY <1>1, <2>4, <2>5, Zenon DEF Strayed
  <2>7. Descend(Fs(u, w, m, d), x) = Fs(u, w, m, e)
    BY <2>1, DescendMeets
  <2> QED
    BY <2>6, <2>7, Zenon
<1>7. CASE <<d, x>> \notin DOMAIN u
  <2> DEFINE k == <<d, x>>
             u1 == Extended(u, k, m)
             w1 == Extended(w, m, Directory(m))
  <2>0. k = <<d, x>> /\ k[1] = d /\ k \notin DOMAIN u
    BY <1>7
  <2> HIDE DEF k
  <2>1. Descend(Fs(u, w, m, d), x) = Fs(u1, w1, m + 1, 0)
    <3>1. Inode(u, d, x) = 0
      BY <1>7, Zenon DEF Inode
    <3> QED
      BY <2>0, <3>1, DescendMakes
  <2>2. nx >= 1 /\ m \in Nat
    BY <1>1 DEF Good
  <2>3. Keeps(v, nx, w1, m + 1)
    BY <1>1, <2>2, KeepsExtended, Zenon
  <2>4. /\ Good(u1, m + 1) /\ Grows(u, u1) /\ \A key \in DOMAIN u1 : key \in DOMAIN u \/ key = k
    BY <1>1, <2>0, GoodExtended, Zenon
  <2> HIDE DEF u1, w1
  <2>5. 0 \in 0..(m + 1) - 1 /\ Lost(t, nx, 0)
    <3>1. 0 \in 0..(m + 1) - 1
      BY <2>2
    <3> QED
      BY <3>1, LostZero, Zenon
  <2>6. <<b, y>> \in DOMAIN u1 /\ u1[<<b, y>>] = nx
    BY <1>1, <2>4, Zenon DEF Grows
  <2>7. Grows(t, u1)
    BY <1>2, <2>4, Zenon DEF Grows
  <2>8. ASSUME NEW key \in DOMAIN u1
        PROVE  key \in DOMAIN t \/ Lost(t, nx, key[1]) \/ (key = <<b, y>> /\ u1[key] = nx)
    <3>1. CASE key = k
      BY <1>1, <2>0, <3>1, Zenon
    <3>2. CASE key \in DOMAIN u
      BY <1>2, <2>6, <3>2, Zenon
    <3> QED
      BY <2>4, <3>1, <3>2, Zenon
  <2>9. OnlyNew(t, nx, u1, r)
    BY <1>2, <2>7, <2>8, Zenon DEF OnlyNew
  <2>10. Strayed(t, v, nx, r, u1, w1, m + 1, 0)
    BY <2>3, <2>4, <2>5, <2>6, <2>9, Zenon DEF Strayed
  <2> QED
    BY <2>1, <2>10, Zenon
<1> QED
  BY <1>6, <1>7

\* The search is still on its way, and finds the next directory or makes it.
LEMMA DescendFound ==
  ASSUME NEW t, NEW v, NEW nx, NEW p \in Seq(FileNames), NEW x \in FileNames,
         Good(t, nx), DOMAIN v = 1..nx - 1, Lookup(t, p) # 0
  PROVE  LET q == Append(p, x)
             fs == Descend(Fs(t, v, nx, Lookup(t, p)), x)
         IN  \/ Lookup(t, q) # 0 /\ fs = Fs(t, v, nx, Lookup(t, q))
             \/ /\ Lookup(t, q) = 0
                /\ \E u, w, m, d : fs = Fs(u, w, m, d) /\ Strayed(t, v, nx, q, u, w, m, d)
<1> DEFINE q == Append(p, x)
<1>0. PICK b : b = Lookup(t, p)
  BY Zenon
<1> DEFINE fs == Descend(Fs(t, v, nx, b), x)
<1>1. Lookup(t, q) = Step(t, b, x)
  BY <1>0, LookupAppend, Zenon
<1>2. Step(t, b, x) = Inode(t, b, x)
  BY <1>0, Zenon DEF Step
<1>3. CASE Inode(t, b, x) # 0
  <2>1. fs = Fs(t, v, nx, Inode(t, b, x))
    <3>1. \A z : Inode(t, b, z) # 0 => Descend(Fs(t, v, nx, b), z) = Fs(t, v, nx, Inode(t, b, z))
      BY DescendMeets
    <3> QED
      BY <1>3, <3>1, Zenon
  <2> QED
    BY <1>0, <1>1, <1>2, <1>3, <2>1, Zenon
<1>4. CASE Inode(t, b, x) = 0
  <2> DEFINE k == <<b, x>>
             u == Extended(t, k, nx)
             w == Extended(v, nx, Directory(nx))
  <2>0. k = <<b, x>> /\ k[1] = b
    OBVIOUS
  <2> HIDE DEF k
  <2>1. fs = Fs(u, w, nx + 1, 0)
    <3>1. \A z : Inode(t, b, z) = 0
                 => Descend(Fs(t, v, nx, b), z)
                      = Fs(Extended(t, <<b, z>>, nx), Extended(v, nx, Directory(nx)), nx + 1, 0)
      BY DescendMakes
    <3> QED
      BY <1>4, <2>0, <3>1, Zenon
  <2>2. k \notin DOMAIN t
    <3>1. \A key \in DOMAIN t : t[key] # 0
      BY StepIs, Zenon
    <3> QED
      BY <1>4, <2>0, <3>1, Zenon DEF Inode
  <2>3. k[1] \in 0..nx - 1
    <3>1. b \in 0..nx - 1
      BY <1>0, LookupRange, Zenon
    <3> QED
      BY <2>0, <3>1, Zenon
  <2>4. /\ Good(u, nx + 1) /\ Grows(t, u) /\ k \in DOMAIN u /\ u[k] = nx
        /\ \A key \in DOMAIN u : key \in DOMAIN t \/ key = k
    BY <2>2, <2>3, GoodExtended, Zenon
  <2>5. nx \in Nat /\ nx >= 1 /\ nx <= nx /\ 0 \in 0..(nx + 1) - 1
    BY DEF Good
  <2>6. Keeps(v, nx, v, nx)
    BY <2>5, Zenon DEF Keeps
  <2>7. Keeps(v, nx, w, nx + 1)
    BY <2>5, <2>6, KeepsExtended, Zenon
  <2>8. Up(q) = p /\ q[Len(q)] = x
    BY UpAppend, Zenon
  <2>9. q \in Seq(FileNames) /\ q # <<>>
    BY AppendFacts, Zenon
  <2> HIDE DEF u, w, q
  <2>10. OnlyNew(t, nx, u, q)
    BY <1>0, <2>0, <2>4, <2>8, <2>9, Zenon DEF OnlyNew
  <2>11. Strayed(t, v, nx, q, u, w, nx + 1, 0)
    BY <2>4, <2>5, <2>7, <2>8, <2>10, <1>0, <2>0, LostZero, Zenon DEF Strayed
  <2>12. Lookup(t, q) = 0
    BY <1>1, <1>2, <1>4, Zenon
  <2> QED
    BY <2>1, <2>11, <2>12, <1>0, Zenon DEF q
<1> QED
  BY <1>3, <1>4, Zenon


\* after is the function that the loop of tarfs_add_node makes, for the first directories.
Made(fs, D, N, after) ==
  /\ after = [n \in 0..N |-> after[n]]
  /\ after[0] = fs /\ \A n \in 1..N : after[n] = Descend(after[n - 1], D[n])

Loops(fs, D, N, after) == after = [n \in 0..N |-> IF n = 0 THEN fs ELSE Descend(after[n - 1], D[n])]

LEMMA MadeIs ==
  ASSUME NEW fs, NEW D, NEW N \in Nat, NEW f
  PROVE  Made(fs, D, N, f) <=> Loops(fs, D, N, f)
<1> DEFINE g == [n \in 0..N |-> IF n = 0 THEN fs ELSE Descend(f[n - 1], D[n])]
<1>1. 0 \in 0..N /\ (\A n \in 1..N : n \in 0..N /\ n # 0) /\ \A n \in 0..N : n # 0 => n \in 1..N
  OBVIOUS
<1>2. ASSUME f = g PROVE Made(fs, D, N, f)
  <2>1. f = [n \in 0..N |-> f[n]]
    BY <1>2
  <2>2. g[0] = fs /\ \A n \in 1..N : g[n] = Descend(f[n - 1], D[n])
    BY <1>1, Zenon
  <2> HIDE DEF g
  <2> QED
    BY <1>2, <2>1, <2>2, Zenon DEF Made
<1>3. ASSUME Made(fs, D, N, f) PROVE f = g
  <2>1. f = [n \in 0..N |-> f[n]] /\ f[0] = fs /\ \A n \in 1..N : f[n] = Descend(f[n - 1], D[n])
    BY <1>3, Zenon DEF Made
  <2>2. \A n \in 0..N : f[n] = IF n = 0 THEN fs ELSE Descend(f[n - 1], D[n])
    BY <1>1, <2>1, Zenon
  <2>3. [n \in 0..N |-> f[n]] = g
    BY <2>2, Zenon
  <2> QED
    BY <2>1, <2>3, Zenon
<1> QED
  BY <1>2, <1>3, Zenon DEF Loops

LEMMA MadeExists == ASSUME NEW fs, NEW D PROVE \A N \in Nat : \E f : Made(fs, D, N, f)
<1> DEFINE T == {N \in Nat : \E f : Made(fs, D, N, f)}
<1>1. 0 \in T
  <2> DEFINE a0 == [n \in 0..0 |-> fs]
  <2>1. a0 = [n \in 0..0 |-> a0[n]] /\ a0[0] = fs /\ \A n \in 1..0 : a0[n] = Descend(a0[n - 1], D[n])
    OBVIOUS
  <2> HIDE DEF a0
  <2>2. Made(fs, D, 0, a0)
    BY <2>1, Zenon DEF Made
  <2> QED
    BY <2>2
<1>2. ASSUME NEW n \in Nat, n \in T PROVE n + 1 \in T
  <2>1. PICK f : Made(fs, D, n, f)
    BY <1>2
  <2> DEFINE g == [k \in 0..n + 1 |-> IF k = n + 1 THEN Descend(f[n], D[n + 1]) ELSE f[k]]
  <2>2. f[0] = fs /\ \A k \in 1..n : f[k] = Descend(f[k - 1], D[k])
    BY <2>1, Zenon DEF Made
  <2>3. /\ \A k \in 0..n : g[k] = f[k]
        /\ g[n + 1] = Descend(f[n], D[n + 1]) /\ g = [k \in 0..n + 1 |-> g[k]]
    OBVIOUS
  <2> HIDE DEF g
  <2>4. /\ \A k \in 1..n + 1 : k # n + 1 => k \in 1..n /\ k \in 0..n /\ k - 1 \in 0..n
        /\ (n + 1) - 1 = n /\ n \in 0..n /\ 0 \in 0..n /\ n + 1 \in Nat
    OBVIOUS
  <2>5. g[0] = fs
    BY <2>2, <2>3, <2>4
  <2>6. ASSUME NEW k \in 1..n + 1 PROVE g[k] = Descend(g[k - 1], D[k])
    <3>1. CASE k = n + 1
      BY <2>3, <2>4, <3>1, Zenon
    <3>2. CASE k # n + 1
      BY <2>2, <2>3, <2>4, <3>2, Zenon
    <3> QED
      BY <3>1, <3>2
  <2>7. Made(fs, D, n + 1, g)
    BY <2>3, <2>5, <2>6, Zenon DEF Made
  <2> QED
    BY <2>7
<1>3. \A n \in Nat : n \in T
  <2> HIDE DEF T
  <2> QED
    BY <1>1, <1>2, AllNaturals, Zenon
<1> QED
  BY <1>3

\* After the loop for the first k names of D: the search is in their directory, or it has
\* strayed from the path at one of them.
LoopAt(t, v, nx, D, k, fs) ==
  \/ Lookup(t, SubSeq(D, 1, k)) # 0 /\ fs = Fs(t, v, nx, Lookup(t, SubSeq(D, 1, k)))
  \/ /\ Lookup(t, SubSeq(D, 1, k)) = 0
     /\ \E j \in 1..k : \E u, w, m, d : fs = Fs(u, w, m, d) /\ Strayed(t, v, nx, SubSeq(D, 1, j), u, w, m, d)

LEMMA LoopStep ==
  ASSUME NEW t, NEW v, NEW nx, NEW D \in Seq(FileNames), Good(t, nx), DOMAIN v = 1..nx - 1,
         NEW k \in 1..Len(D), NEW fs, LoopAt(t, v, nx, D, k - 1, fs)
  PROVE  LoopAt(t, v, nx, D, k, Descend(fs, D[k]))
<1>1. PICK p : p = SubSeq(D, 1, k - 1)
  BY Zenon
<1>2. PICK q : q = SubSeq(D, 1, k)
  BY Zenon
<1>3. PICK x : x = D[k]
  BY Zenon
<1>4. Len(D) \in Nat /\ \A i \in 1..Len(D) : D[i] \in FileNames
  BY SeqFacts, Zenon
<1>5. k - 1 \in 0..Len(D) /\ k \in 1..k /\ k \in 0..Len(D) /\ \A j \in 1..k - 1 : j \in 1..k
  BY <1>4
<1>6. p \in Seq(FileNames) /\ x \in FileNames /\ q = Append(p, x)
  BY <1>1, <1>2, <1>3, <1>4, <1>5, PrefixFacts, Zenon
<1>7. CASE Lookup(t, p) # 0
  <2>1. fs = Fs(t, v, nx, Lookup(t, p))
    BY <1>1, <1>7, Zenon DEF LoopAt
  <2>2. \/ Lookup(t, q) # 0 /\ Descend(fs, x) = Fs(t, v, nx, Lookup(t, q))
        \/ /\ Lookup(t, q) = 0
           /\ \E u, w, m, d : Descend(fs, x) = Fs(u, w, m, d) /\ Strayed(t, v, nx, q, u, w, m, d)
    <3>1. \/ Lookup(t, Append(p, x)) # 0 /\ Descend(Fs(t, v, nx, Lookup(t, p)), x) = Fs(t, v, nx, Lookup(t, Append(p, x)))
          \/ /\ Lookup(t, Append(p, x)) = 0
             /\ \E u, w, m, d : /\ Descend(Fs(t, v, nx, Lookup(t, p)), x) = Fs(u, w, m, d)
                                /\ Strayed(t, v, nx, Append(p, x), u, w, m, d)
      BY <1>6, <1>7, DescendFound, Zenon
    <3> QED
      BY <1>6, <2>1, <3>1, Zenon
  <2> QED
    BY <1>2, <1>3, <1>5, <2>2, Zenon DEF LoopAt
<1>8. CASE Lookup(t, p) = 0
  <2>1. PICK j \in 1..k - 1 : \E u, w, m, d : fs = Fs(u, w, m, d) /\ Strayed(t, v, nx, SubSeq(D, 1, j), u, w, m, d)
    BY <1>1, <1>8, Zenon DEF LoopAt
  <2>2. PICK r : r = SubSeq(D, 1, j)
    BY Zenon
  <2>3. PICK u, w, m, d : fs = Fs(u, w, m, d) /\ Strayed(t, v, nx, r, u, w, m, d)
    BY <2>1, <2>2, Zenon
  <2>4. \E u1, w1, m1, d1 : Descend(fs, x) = Fs(u1, w1, m1, d1) /\ Strayed(t, v, nx, r, u1, w1, m1, d1)
    <3>1. \E u1, w1, m1, d1 : /\ Descend(Fs(u, w, m, d), x) = Fs(u1, w1, m1, d1)
                              /\ Strayed(t, v, nx, r, u1, w1, m1, d1)
      <4>1. Strayed(t, v, nx, r, u, w, m, d)
        BY <2>3, Zenon
      <4>2. PICK z : z = Descend(Fs(u, w, m, d), x)
        BY Zenon
      <4> QED
        BY <4>1, <4>2, DescendStrayed
    <3> QED
      BY <2>3, <3>1, Zenon
  <2>5. Lookup(t, q) = 0
    BY <1>6, <1>8, LookupAppend, Zenon DEF Step
  <2> QED
    BY <1>2, <1>3, <1>5, <2>2, <2>4, <2>5, Zenon DEF LoopAt
<1> QED
  BY <1>7, <1>8, Zenon

LEMMA LoopAll ==
  ASSUME NEW t, NEW v, NEW nx, NEW D \in Seq(FileNames), Good(t, nx), DOMAIN v = 1..nx - 1,
         NEW fs, fs = Fs(t, v, nx, 1), NEW f, Made(fs, D, Len(D), f)
  PROVE  LoopAt(t, v, nx, D, Len(D), f[Len(D)])
<1> DEFINE T == {k \in Nat : k <= Len(D) => LoopAt(t, v, nx, D, k, f[k])}
<1>1. Len(D) \in Nat
  BY SeqFacts, Zenon
<1>2. f[0] = Fs(t, v, nx, 1) /\ \A n \in 1..Len(D) : f[n] = Descend(f[n - 1], D[n])
  BY Zenon DEF Made
<1>3. 0 \in T
  <2>1. Lookup(t, SubSeq(D, 1, 0)) = 1
    BY PrefixFacts, LookupEmpty, Zenon
  <2>2. LoopAt(t, v, nx, D, 0, f[0])
    BY <1>2, <2>1 DEF LoopAt
  <2> QED
    BY <2>2
<1>4. ASSUME NEW n \in Nat, n \in T PROVE n + 1 \in T
  <2> SUFFICES ASSUME n + 1 <= Len(D) PROVE LoopAt(t, v, nx, D, n + 1, f[n + 1])
    OBVIOUS
  <2>1. PICK k : k = n + 1
    BY Zenon
  <2>2. n <= Len(D) /\ k \in 1..Len(D) /\ k - 1 = n
    BY <1>1, <2>1
  <2>3. LoopAt(t, v, nx, D, k - 1, f[n])
    BY <1>4, <2>2
  <2>4. f[k] = Descend(f[n], D[k])
    BY <1>2, <2>2, Zenon
  <2>5. LoopAt(t, v, nx, D, k, Descend(f[n], D[k]))
    BY <2>2, <2>3, LoopStep, Zenon
  <2> QED
    BY <2>1, <2>4, <2>5, Zenon
<1>5. \A n \in Nat : n \in T
  <2> HIDE DEF T
  <2> QED
    BY <1>3, <1>4, AllNaturals, Zenon
<1> QED
  BY <1>1, <1>5

LEMMA DirectoriesLoop ==
  ASSUME NEW path, NEW D \in Seq(FileNames), D = dirname(path), Good(tree, inext), DOMAIN vnodes = 1..inext - 1
  PROVE  LoopAt(tree, vnodes, inext, D, Len(D), Directories(path))
<1>1. Len(D) \in Nat
  BY SeqFacts, Zenon
<1>2. PICK N \in Nat : N = Len(D)
  BY <1>1, Zenon
<1>3. PICK fs : fs = Fs(tree, vnodes, inext, 1)
  BY Zenon
<1>4. PICK f : f = CHOOSE after : Loops(fs, D, N, after)
  BY Zenon
<1>5. \E after : Made(fs, D, N, after)
  BY MadeExists, Zenon
<1>6. Loops(fs, D, N, f)
  BY <1>4, <1>5, MadeIs, Zenon
<1>7. Made(fs, D, N, f)
  BY <1>6, MadeIs, Zenon
<1>8. Directories(path) = f[N]
  BY <1>2, <1>3, <1>4, Zenon DEF Directories, Fs, Loops
<1> QED
  BY <1>2, <1>3, <1>7, <1>8, LoopAll, Zenon

-----------------------------------------------------------------------------
\* A new file

LEMMA NamesFacts ==
  ASSUME NEW path \in Seq(FileNames), path # <<>>
  PROVE  /\ dirname(path) \in Seq(FileNames) /\ basename(path) \in FileNames
         /\ Names(path) = Append(dirname(path), basename(path)) /\ Names(path) \in Seq(FileNames) /\ Names(path) # <<>>
         /\ Up(Names(path)) = dirname(path) /\ Names(path)[Len(Names(path))] = basename(path)
<1>1. basename(path) \in FileNames
  BY UpFacts, Zenon DEF basename
<1>2. <<".">> \in Seq(FileNames)
  BY TarAssumption
<1>3. Up(path) \in Seq(FileNames)
  BY UpFacts, Zenon
<1>4. dirname(path) \in Seq(FileNames)
  BY <1>2, <1>3, Zenon DEF dirname, Up
<1>5. Names(path) = Append(dirname(path), basename(path))
  BY <1>1, <1>4, AppendFacts, Zenon DEF Names
<1>6. PICK D \in Seq(FileNames) : D = dirname(path)
  BY <1>4, Zenon
<1>7. PICK x \in FileNames : x = basename(path)
  BY <1>1, Zenon
<1>8. Append(D, x) \in Seq(FileNames) /\ Append(D, x) # <<>>
  BY AppendFacts, Zenon
<1>9. Up(Append(D, x)) = D /\ Append(D, x)[Len(Append(D, x))] = x
  BY UpAppend, Zenon
<1> QED
  BY <1>5, <1>6, <1>7, <1>8, <1>9, Zenon

\* A search that has strayed also puts the file where no lookup finds it.
LEMMA StrayedAdd ==
  ASSUME NEW t, NEW v, NEW nx, NEW r, NEW u, NEW w, NEW m, NEW d, NEW x,
         Good(t, nx), Strayed(t, v, nx, r, u, w, m, d), NEW node
  PROVE  /\ Inode(u, d, x) # 0 => Inode(u, d, x) \in 2..m - 1 /\ Lost(t, nx, Inode(u, d, x))
         /\ Inode(u, d, x) = 0 =>
              Strayed(t, v, nx, r, Extended(u, <<d, x>>, m), Extended(w, m, node), m + 1, 0)
<1>1. PICK u1, w1, m1, d1 : /\ Descend(Fs(u, w, m, d), x) = Fs(u1, w1, m1, d1)
                            /\ Strayed(t, v, nx, r, u1, w1, m1, d1)
  BY DescendStrayed
<1>2. Good(u, m) /\ nx \in Nat /\ nx >= 1
  BY DEF Strayed, Good
<1>3. ASSUME Inode(u, d, x) # 0 PROVE Inode(u, d, x) \in 2..m - 1 /\ Lost(t, nx, Inode(u, d, x))
  <2>1. Inode(u, d, x) \in 2..m - 1
    BY <1>2, <1>3, Zenon DEF Inode, Good
  <2>2. PICK e : e = Inode(u, d, x)
    BY Zenon
  <2>3. Fs(u, w, m, e) = Fs(u1, w1, m1, d1)
    BY <1>1, <1>3, <2>2, DescendMeets
  <2>4. e = d1
    BY <2>3 DEF Fs
  <2> QED
    BY <1>1, <2>1, <2>2, <2>4, Zenon DEF Strayed
<1>4. ASSUME Inode(u, d, x) = 0
      PROVE  Strayed(t, v, nx, r, Extended(u, <<d, x>>, m), Extended(w, m, node), m + 1, 0)
  <2>1. PICK z, y : z = Extended(u, <<d, x>>, m) /\ y = Extended(w, m, Directory(m))
    BY Zenon
  <2>2. Fs(z, y, m + 1, 0) = Fs(u1, w1, m1, d1)
    BY <1>1, <1>4, <2>1, DescendMakes
  <2>3. z = u1 /\ m + 1 = m1 /\ 0 = d1
    BY <2>2 DEF Fs
  <2>4. Keeps(v, nx, w, m)
    BY Zenon DEF Strayed
  <2>5. Keeps(v, nx, Extended(w, m, node), m + 1)
    BY <1>2, <2>4, KeepsExtended, Zenon
  <2> QED
    BY <1>1, <2>1, <2>3, <2>5, Zenon DEF Strayed
<1> QED
  BY <1>3, <1>4, Zenon

\* The tree u and the vnodes w come from t and v, and no lookup but one of r finds
\* anything else.
NewOnly(t, v, nx, u, w, ux, r) ==
  /\ Good(u, ux) /\ DOMAIN w = 1..ux - 1 /\ Grows(t, u)
  /\ \A q \in Seq(FileNames) :
       Lookup(u, q) # 0 => q = r \/ (Lookup(u, q) = Lookup(t, q) /\ w[Lookup(t, q)] = v[Lookup(t, q)])

LEMMA StrayedOnly ==
  ASSUME NEW t, NEW v, NEW nx, NEW r, NEW u, NEW w, NEW m, NEW d,
         Good(t, nx), Strayed(t, v, nx, r, u, w, m, d), DOMAIN v = 1..nx - 1
  PROVE  /\ NewOnly(t, v, nx, u, w, m, r)
         /\ \A e, node : Lost(t, nx, e) /\ e \in 2..m - 1 => NewOnly(t, v, nx, u, Extended(w, e, node), m, r)
<1>1. Good(u, m) /\ Keeps(v, nx, w, m) /\ OnlyNew(t, nx, u, r)
  BY Zenon DEF Strayed
<1>2. DOMAIN w = 1..m - 1 /\ (\A i \in 1..nx - 1 : w[i] = v[i]) /\ Grows(t, u)
  BY <1>1, Zenon DEF Keeps, OnlyNew
<1>3. ASSUME NEW q \in Seq(FileNames), Lookup(u, q) # 0, q # r
      PROVE  Lookup(u, q) = Lookup(t, q) /\ w[Lookup(t, q)] = v[Lookup(t, q)] /\ Lookup(t, q) \in DOMAIN w
  <2>1. Lookup(u, q) = Lookup(t, q)
    <3>1. \A p \in Seq(FileNames) : Lookup(u, p) # 0 => Lookup(t, p) = Lookup(u, p) \/ p = r
      BY <1>1, OnlyNewFound
    <3> QED
      BY <1>3, <3>1, Zenon
  <2>2. Lookup(t, q) \in 0..nx - 1 /\ Lookup(u, q) \in 0..m - 1
    BY <1>1, LookupRange, Zenon
  <2>3. Lookup(t, q) \in 1..nx - 1 /\ Lookup(t, q) \in 1..m - 1
    BY <1>1, <1>3, <2>1, <2>2 DEF Good
  <2> QED
    BY <1>2, <2>1, <2>3, Zenon
<1>4. NewOnly(t, v, nx, u, w, m, r)
  BY <1>1, <1>2, <1>3, Zenon DEF NewOnly
<1>5. ASSUME NEW e, NEW node, Lost(t, nx, e), e \in 2..m - 1
      PROVE  NewOnly(t, v, nx, u, Extended(w, e, node), m, r)
  <2>1. PICK z : z = Extended(w, e, node)
    BY Zenon
  <2>2. e \in DOMAIN w
    BY <1>1, <1>2, <1>5 DEF Good
  <2>3. DOMAIN z = DOMAIN w /\ \A i \in DOMAIN w : i # e => z[i] = w[i]
    BY <2>1, <2>2 DEF Extended
  <2>4. ASSUME NEW q \in Seq(FileNames), Lookup(u, q) # 0, q # r
        PROVE  Lookup(u, q) = Lookup(t, q) /\ z[Lookup(t, q)] = v[Lookup(t, q)]
    BY <1>3, <1>5, <2>3, <2>4, Zenon DEF Lost
  <2> QED
    BY <1>1, <1>2, <2>1, <2>3, <2>4, Zenon DEF NewOnly
<1> QED
  BY <1>4, <1>5, Zenon


\* The directory is found: the file is found, and is the new one; nothing else changes.
LEMMA AddFound ==
  ASSUME NEW path \in Seq(FileNames), path # <<>>, NEW node, tarfs_add_node(path, node),
         Good(tree, inext), DOMAIN vnodes = 1..inext - 1, Lookup(tree, dirname(path)) # 0
  PROVE  /\ NewOnly(tree, vnodes, inext, tree', vnodes', inext', Names(path))
         /\ Lookup(tree', Names(path)) # 0 /\ vnodes'[Lookup(tree', Names(path))] = node
<1>1. PICK D \in Seq(FileNames) : D = dirname(path)
  BY NamesFacts, Zenon
<1>2. PICK x \in FileNames : x = basename(path)
  BY NamesFacts, Zenon
<1>3. PICK q \in Seq(FileNames) : q = Names(path)
  BY NamesFacts, Zenon
<1>4. q = Append(D, x) /\ q # <<>> /\ Up(q) = D /\ q[Len(q)] = x
  BY <1>1, <1>2, <1>3, NamesFacts, Zenon
<1>5. PICK b : b = Lookup(tree, D)
  BY Zenon
<1>6. b # 0 /\ b \in 0..inext - 1 /\ inext \in Nat /\ inext >= 2
  BY <1>1, <1>5, LookupRange, Zenon DEF Good
<1>7. PICK fs : fs = Directories(path)
  BY Zenon
<1>8. fs = Fs(tree, vnodes, inext, b)
  <2>1. LoopAt(tree, vnodes, inext, D, Len(D), fs)
    BY <1>1, <1>7, DirectoriesLoop, Zenon
  <2>2. SubSeq(D, 1, Len(D)) = D
    BY PrefixFacts, Zenon
  <2> QED
    BY <1>5, <1>6, <2>1, <2>2, Zenon DEF LoopAt
<1>9. fs.tree = tree /\ fs.vnodes = vnodes /\ fs.inext = inext /\ fs.dnode = b
  BY <1>8 DEF Fs
<1>10. Lookup(tree, q) = Inode(tree, b, x)
  BY <1>1, <1>4, <1>5, <1>6, LookupAppend, Zenon DEF Step
<1>11. CASE Inode(tree, b, x) # 0
  <2>1. PICK i : i = Inode(tree, b, x)
    BY Zenon
  <2>2. FileInode(fs, path) = i
    BY <1>2, <1>9, <1>11, <2>1, Zenon DEF FileInode
  <2>3. i \in 2..inext - 1
    BY <1>11, <2>1, Zenon DEF Inode, Good
  <2>4. i # inext /\ i \in DOMAIN vnodes /\ i # 0
    BY <1>6, <2>3
  <2>5. vnodes' = Extended(vnodes, i, node) /\ tree' = tree /\ inext' = inext
    BY <1>7, <1>9, <2>2, <2>4, Zenon DEF tarfs_add_node, Stored
  <2>6. DOMAIN vnodes' = DOMAIN vnodes /\ vnodes'[i] = node /\ \A k \in DOMAIN vnodes : k # i => vnodes'[k] = vnodes[k]
    BY <2>4, <2>5 DEF Extended
  <2>7. ASSUME NEW p \in Seq(FileNames), Lookup(tree, p) # 0, p # q
        PROVE  vnodes'[Lookup(tree, p)] = vnodes[Lookup(tree, p)]
    <3>1. Lookup(tree, p) # i
      BY <1>10, <2>1, <2>7, OnePath, Zenon
    <3>2. Lookup(tree, p) \in 0..inext - 1
      BY LookupRange, Zenon
    <3>3. Lookup(tree, p) \in DOMAIN vnodes
      BY <1>6, <2>7, <3>2
    <3> QED
      BY <2>6, <3>1, <3>3, Zenon
  <2>8. Grows(tree, tree')
    BY <2>5, Zenon DEF Grows
  <2> QED
    BY <1>3, <1>10, <2>1, <2>4, <2>5, <2>6, <2>7, <2>8, Zenon DEF NewOnly
<1>12. CASE Inode(tree, b, x) = 0
  <2> DEFINE k == <<b, x>>
  <2>1. k = <<b, x>> /\ k[1] = b
    OBVIOUS
  <2> HIDE DEF k
  <2>2. FileInode(fs, path) = inext
    BY <1>2, <1>9, <1>12, Zenon DEF FileInode
  <2>3. vnodes' = Extended(vnodes, inext, node) /\ tree' = Extended(tree, k, inext) /\ inext' = inext + 1
    BY <1>2, <1>7, <1>9, <2>1, <2>2, Zenon DEF tarfs_add_node, Stored
  <2>4. k \notin DOMAIN tree
    <3>1. \A key \in DOMAIN tree : tree[key] # 0
      BY StepIs, Zenon
    <3> QED
      BY <1>12, <2>1, <3>1, Zenon DEF Inode
  <2>5. /\ Good(tree', inext + 1) /\ Grows(tree, tree') /\ k \in DOMAIN tree' /\ tree'[k] = inext
        /\ \A key \in DOMAIN tree' : key \in DOMAIN tree \/ key = k
    <3>1. k[1] \in 0..inext - 1
      BY <1>6, <2>1, Zenon
    <3> QED
      BY <2>3, <2>4, <3>1, GoodExtended
  <2>6. /\ DOMAIN vnodes' = 1..(inext + 1) - 1 /\ vnodes'[inext] = node
        /\ \A i \in 1..inext - 1 : vnodes'[i] = vnodes[i]
    BY <1>6, <2>3 DEF Extended
  <2>7. OnlyNew(tree, inext, tree', q)
    BY <1>1, <1>4, <1>5, <1>6, <2>1, <2>5, Zenon DEF OnlyNew
  <2>8. Lookup(tree', D) = b
    BY <1>5, <1>6, <2>5, StillFound, Zenon
  <2>9. Lookup(tree', q) = inext
    BY <1>4, <1>6, <2>1, <2>5, <2>8, LookupAppend, Zenon DEF Step, Inode
  <2>10. ASSUME NEW p \in Seq(FileNames), Lookup(tree', p) # 0, p # q
        PROVE  Lookup(tree', p) = Lookup(tree, p) /\ vnodes'[Lookup(tree, p)] = vnodes[Lookup(tree, p)]
    <3>1. \A r \in Seq(FileNames) : Lookup(tree', r) # 0 => Lookup(tree, r) = Lookup(tree', r) \/ r = q
      BY <2>5, <2>7, OnlyNewFound
    <3>2. Lookup(tree', p) = Lookup(tree, p)
      BY <2>10, <3>1, Zenon
    <3>3. Lookup(tree, p) \in 0..inext - 1
      BY LookupRange, Zenon
    <3>4. Lookup(tree, p) \in 1..inext - 1
      BY <1>6, <2>10, <3>2, <3>3
    <3> QED
      BY <2>6, <3>2, <3>4, Zenon
  <2>11. inext # 0
    BY <1>6
  <2> QED
    BY <1>3, <2>3, <2>5, <2>6, <2>9, <2>10, <2>11, Zenon DEF NewOnly
<1> QED
  BY <1>11, <1>12, Zenon

\* The directory is not found: the file is not found afterwards, and what is found that
\* was not is a directory on its path.
LEMMA AddLost ==
  ASSUME NEW path \in Seq(FileNames), path # <<>>, NEW node, tarfs_add_node(path, node),
         Good(tree, inext), DOMAIN vnodes = 1..inext - 1, Lookup(tree, dirname(path)) = 0
  PROVE  \E j \in 1..Len(dirname(path)) :
           NewOnly(tree, vnodes, inext, tree', vnodes', inext', SubSeq(dirname(path), 1, j))
<1>1. PICK D \in Seq(FileNames) : D = dirname(path)
  BY NamesFacts, Zenon
<1>2. PICK x \in FileNames : x = basename(path)
  BY NamesFacts, Zenon
<1>3. PICK fs : fs = Directories(path)
  BY Zenon
<1>4. PICK j \in 1..Len(D) : \E u, w, m, d : /\ fs = Fs(u, w, m, d)
                                             /\ Strayed(tree, vnodes, inext, SubSeq(D, 1, j), u, w, m, d)
  <2>1. LoopAt(tree, vnodes, inext, D, Len(D), fs)
    BY <1>1, <1>3, DirectoriesLoop, Zenon
  <2>2. SubSeq(D, 1, Len(D)) = D
    BY PrefixFacts, Zenon
  <2> QED
    BY <1>1, <2>1, <2>2, Zenon DEF LoopAt
<1>5. PICK r : r = SubSeq(D, 1, j)
  BY Zenon
<1>6. PICK u, w, m, d : fs = Fs(u, w, m, d) /\ Strayed(tree, vnodes, inext, r, u, w, m, d)
  BY <1>4, <1>5, Zenon
<1>7. fs.tree = u /\ fs.vnodes = w /\ fs.inext = m /\ fs.dnode = d
  BY <1>6 DEF Fs
<1>8. m \in Nat
  BY <1>6, Zenon DEF Strayed, Good
<1>9. NewOnly(tree, vnodes, inext, tree', vnodes', inext', r)
  <2>1. CASE Inode(u, d, x) # 0
    <3>1. PICK i : i = Inode(u, d, x)
      BY Zenon
    <3>2. i \in 2..m - 1 /\ Lost(tree, inext, i)
      BY <1>6, <2>1, <3>1, StrayedAdd
    <3>3. i # m
      BY <1>8, <3>2
    <3>4. FileInode(fs, path) = i
      BY <1>2, <1>7, <2>1, <3>1, Zenon DEF FileInode
    <3>5. vnodes' = Extended(w, i, node) /\ tree' = u /\ inext' = m
      BY <1>3, <1>7, <3>3, <3>4, Zenon DEF tarfs_add_node, Stored
    <3> QED
      BY <1>6, <3>2, <3>5, StrayedOnly, Zenon
  <2>2. CASE Inode(u, d, x) = 0
    <3>1. FileInode(fs, path) = m
      BY <1>2, <1>7, <2>2, Zenon DEF FileInode
    <3>2. vnodes' = Extended(w, m, node) /\ tree' = Extended(u, <<d, x>>, m) /\ inext' = m + 1
      BY <1>2, <1>3, <1>7, <3>1, Zenon DEF tarfs_add_node, Stored
    <3>3. Strayed(tree, vnodes, inext, r, tree', vnodes', inext', 0)
      BY <1>6, <2>2, <3>2, StrayedAdd
    <3> QED
      BY <3>3, StrayedOnly, Zenon
  <2> QED
    BY <2>1, <2>2, Zenon
<1> QED
  BY <1>1, <1>5, <1>9, Zenon


-----------------------------------------------------------------------------
\* Where the headers are

Offsets(N, at) ==
  /\ at = [k \in 1..N |-> at[k]]
  /\ (1 \in 1..N => at[1] = 0) /\ \A k \in 2..N : at[k] = at[k - 1] + 1 + Len(archive[k - 1].data)
Reads(N, at) == at = [k \in 1..N |-> IF k = 1 THEN 0 ELSE at[k - 1] + 1 + Len(archive[k - 1].data)]

LEMMA OffsetsAre == ASSUME NEW N \in Nat, NEW at PROVE Offsets(N, at) <=> Reads(N, at)
<1> DEFINE g == [k \in 1..N |-> IF k = 1 THEN 0 ELSE at[k - 1] + 1 + Len(archive[k - 1].data)]
<1>1. (\A n \in 2..N : n \in 1..N /\ n # 1) /\ \A n \in 1..N : n # 1 => n \in 2..N
  OBVIOUS
<1>2. ASSUME at = g PROVE Offsets(N, at)
  <2>1. at = [n \in 1..N |-> at[n]]
    BY <1>2
  <2>2. (1 \in 1..N => g[1] = 0) /\ \A n \in 2..N : g[n] = at[n - 1] + 1 + Len(archive[n - 1].data)
    BY <1>1, Zenon
  <2> HIDE DEF g
  <2> QED
    BY <1>2, <2>1, <2>2, Zenon DEF Offsets
<1>3. ASSUME Offsets(N, at) PROVE at = g
  <2>1. /\ at = [n \in 1..N |-> at[n]] /\ (1 \in 1..N => at[1] = 0)
        /\ \A n \in 2..N : at[n] = at[n - 1] + 1 + Len(archive[n - 1].data)
    BY <1>3, Zenon DEF Offsets
  <2>2. \A n \in 1..N : at[n] = IF n = 1 THEN 0 ELSE at[n - 1] + 1 + Len(archive[n - 1].data)
    BY <1>1, <2>1, Zenon
  <2>3. [n \in 1..N |-> at[n]] = g
    BY <2>2, Zenon
  <2> QED
    BY <2>1, <2>3, Zenon
<1> QED
  BY <1>2, <1>3, Zenon DEF Reads

LEMMA OffsetsExist == \A N \in Nat : \E at : Offsets(N, at)
<1> DEFINE T == {N \in Nat : \E at : Offsets(N, at)}
<1>1. 0 \in T
  <2> DEFINE a0 == [n \in 1..0 |-> 0]
  <2>1. /\ a0 = [n \in 1..0 |-> a0[n]] /\ (1 \in 1..0 => a0[1] = 0)
        /\ \A n \in 2..0 : a0[n] = a0[n - 1] + 1 + Len(archive[n - 1].data)
    OBVIOUS
  <2> HIDE DEF a0
  <2>2. Offsets(0, a0)
    BY <2>1, Zenon DEF Offsets
  <2> QED
    BY <2>2
<1>2. ASSUME NEW n \in Nat, n \in T PROVE n + 1 \in T
  <2>1. PICK at : Offsets(n, at)
    BY <1>2
  <2> DEFINE e == IF n = 0 THEN 0 ELSE at[n] + 1 + Len(archive[n].data)
             g == [k \in 1..n + 1 |-> IF k = n + 1 THEN e ELSE at[k]]
  <2>2. (1 \in 1..n => at[1] = 0) /\ \A k \in 2..n : at[k] = at[k - 1] + 1 + Len(archive[k - 1].data)
    BY <2>1, Zenon DEF Offsets
  <2>3. (\A k \in 1..n : g[k] = at[k]) /\ g[n + 1] = e /\ g = [k \in 1..n + 1 |-> g[k]]
    OBVIOUS
  <2> HIDE DEF g
  <2>4. /\ \A k \in 2..n + 1 : k # n + 1 => k \in 2..n /\ k \in 1..n /\ k - 1 \in 1..n
        /\ (n + 1) - 1 = n /\ (n # 0 => n \in 1..n /\ 1 \in 1..n) /\ (n = 0 => n + 1 = 1) /\ n + 1 \in Nat
        /\ (n + 1 \in 2..n + 1 => n # 0)
    OBVIOUS
  <2>5. g[1] = 0
    <3>1. CASE n = 0
      BY <2>3, <2>4, <3>1, Zenon
    <3>2. CASE n # 0
      BY <2>2, <2>3, <2>4, <3>2, Zenon
    <3> QED
      BY <3>1, <3>2, Zenon
  <2>6. ASSUME NEW k \in 2..n + 1 PROVE g[k] = g[k - 1] + 1 + Len(archive[k - 1].data)
    <3>1. CASE k = n + 1
      BY <2>3, <2>4, <2>6, <3>1, Zenon
    <3>2. CASE k # n + 1
      BY <2>2, <2>3, <2>4, <3>2, Zenon
    <3> QED
      BY <3>1, <3>2, Zenon
  <2>7. Offsets(n + 1, g)
    BY <2>3, <2>5, <2>6, Zenon DEF Offsets
  <2> QED
    BY <2>4, <2>7
<1>3. \A n \in Nat : n \in T
  <2> HIDE DEF T
  <2> QED
    BY <1>1, <1>2, AllNaturals, Zenon
<1> QED
  BY <1>3

LEMMA OffsetsAgree ==
  ASSUME NEW M \in Nat, NEW N \in Nat, M <= N, NEW f, NEW g, Offsets(M, f), Offsets(N, g)
  PROVE  \A k \in 1..M : f[k] = g[k]
<1> DEFINE T == {k \in Nat : k + 1 <= M => f[k + 1] = g[k + 1]}
<1>1. /\ (1 \in 1..M => f[1] = 0) /\ \A k \in 2..M : f[k] = f[k - 1] + 1 + Len(archive[k - 1].data)
      /\ (1 \in 1..N => g[1] = 0) /\ \A k \in 2..N : g[k] = g[k - 1] + 1 + Len(archive[k - 1].data)
  BY Zenon DEF Offsets
<1>2. 0 \in T
  BY <1>1
<1>3. ASSUME NEW n \in Nat, n \in T PROVE n + 1 \in T
  <2> SUFFICES ASSUME (n + 1) + 1 <= M PROVE f[(n + 1) + 1] = g[(n + 1) + 1]
    OBVIOUS
  <2>1. PICK k \in Nat : k = (n + 1) + 1
    OBVIOUS
  <2>2. k - 1 = n + 1 /\ n + 1 <= M /\ k \in 2..M /\ k \in 2..N
    BY <2>1
  <2>3. f[k - 1] = g[k - 1]
    BY <1>3, <2>2
  <2>4. f[k] = g[k]
    BY <1>1, <2>2, <2>3, Zenon
  <2> QED
    BY <2>1, <2>4
<1>4. \A n \in Nat : n \in T
  <2> HIDE DEF T
  <2> QED
    BY <1>2, <1>3, AllNaturals, Zenon
<1> SUFFICES ASSUME NEW k \in 1..M PROVE f[k] = g[k]
  BY Zenon
<1>5. k - 1 \in Nat /\ (k - 1) + 1 = k /\ k <= M
  OBVIOUS
<1> QED
  BY <1>4, <1>5

LEMMA HeaderIs ==
  ASSUME NEW n \in Nat
  PROVE  \E at : Offsets(n, at) /\ HeaderAt(n) = at[n]
<1>1. PICK f : f = CHOOSE at : Reads(n, at)
  BY Zenon
<1>2. \E at : Offsets(n, at)
  BY OffsetsExist, Zenon
<1>3. Reads(n, f)
  BY <1>1, <1>2, OffsetsAre, Zenon
<1>4. HeaderAt(n) = f[n]
  BY <1>1, Zenon DEF HeaderAt, Reads
<1> QED
  BY <1>3, <1>4, OffsetsAre, Zenon

LEMMA HeaderSteps ==
  HeaderAt(1) = 0 /\ \A n \in Nat \ {0} : HeaderAt(n + 1) = HeaderAt(n) + 1 + Len(archive[n].data)
<1>1. HeaderAt(1) = 0
  <2>1. 1 \in Nat /\ 1 \in 1..1
    OBVIOUS
  <2>2. PICK f : Offsets(1, f) /\ HeaderAt(1) = f[1]
    BY <2>1, HeaderIs, Zenon
  <2> QED
    BY <2>1, <2>2, Zenon DEF Offsets
<1>2. ASSUME NEW n \in Nat \ {0} PROVE HeaderAt(n + 1) = HeaderAt(n) + 1 + Len(archive[n].data)
  <2>1. PICK N \in Nat : N = n + 1
    OBVIOUS
  <2>2. n <= N /\ n \in Nat /\ n \in 1..n /\ N \in 2..N /\ N - 1 = n
    BY <2>1
  <2>3. PICK f : Offsets(n, f) /\ HeaderAt(n) = f[n]
    BY <2>2, HeaderIs, Zenon
  <2>4. PICK g : Offsets(N, g) /\ HeaderAt(N) = g[N]
    BY HeaderIs, Zenon
  <2>5. \A k \in 1..n : f[k] = g[k]
    BY <2>2, <2>3, <2>4, OffsetsAgree
  <2>6. g[N] = g[N - 1] + 1 + Len(archive[N - 1].data)
    BY <2>2, <2>4, Zenon DEF Offsets
  <2> QED
    BY <2>1, <2>2, <2>3, <2>4, <2>5, <2>6, Zenon
<1> QED
  BY <1>1, <1>2, Zenon


LEMMA EntryFacts ==
  ASSUME archive \in Seq(Entry)
  PROVE  /\ Len(archive) \in Nat /\ DOMAIN archive = 1..Len(archive)
         /\ \A n \in 1..Len(archive) :
              /\ archive[n] \in Entry /\ archive[n].path \in Seq(FileNames) /\ archive[n].path # <<>>
              /\ archive[n].data \in Seq(STRING) /\ Len(archive[n].data) \in Nat
<1>1. /\ Len(archive) \in Nat /\ DOMAIN archive = 1..Len(archive)
      /\ \A n \in 1..Len(archive) : archive[n] \in Entry
  BY SeqFacts, Zenon
<1>2. ASSUME NEW n \in 1..Len(archive)
      PROVE  /\ archive[n].path \in Seq(FileNames) /\ archive[n].path # <<>>
             /\ archive[n].data \in Seq(STRING) /\ Len(archive[n].data) \in Nat
  <2>1. PICK e \in Entry : e = archive[n]
    BY <1>1, Zenon
  <2>2. e.path \in Seq(FileNames) \ {<<>>} /\ e.data \in Seq(STRING)
    BY DEF Entry
  <2>3. Len(e.data) \in Nat
    BY <2>2, SeqFacts, Zenon
  <2> QED
    BY <2>1, <2>2, <2>3, Zenon
<1> QED
  BY <1>1, <1>2, Zenon

LEMMA HeadersRise ==
  ASSUME archive \in Seq(Entry)
  PROVE  /\ \A n \in 1..Len(archive) + 1 : HeaderAt(n) \in Nat
         /\ \A m, n \in 1..Len(archive) + 1 : m < n => HeaderAt(m) < HeaderAt(n)
<1> DEFINE L == Len(archive)
           Below(n) == HeaderAt(n) \in Nat /\ \A m \in 1..n - 1 : HeaderAt(m) < HeaderAt(n)
           T == {n \in Nat : n <= L => \A k \in 1..n + 1 : Below(k)}
<1>1. L \in Nat /\ \A n \in 1..L : Len(archive[n].data) \in Nat
  BY EntryFacts, Zenon
<1>2. HeaderAt(1) = 0 /\ \A n \in Nat \ {0} : HeaderAt(n + 1) = HeaderAt(n) + 1 + Len(archive[n].data)
  BY HeaderSteps, Zenon
<1> HIDE DEF L
<1>3. 0 \in T
  <2>1. \A k \in 1..0 + 1 : k = 1
    OBVIOUS
  <2>2. Below(1)
    BY <1>2
  <2> QED
    BY <2>1, <2>2
<1>4. ASSUME NEW n \in Nat, n \in T PROVE n + 1 \in T
  <2> SUFFICES ASSUME n + 1 <= L, NEW k \in 1..(n + 1) + 1 PROVE Below(k)
    OBVIOUS
  <2>1. \A j \in 1..n + 1 : Below(j)
    BY <1>1, <1>4
  <2>2. CASE k \in 1..n + 1
    BY <2>1, <2>2, Zenon
  <2>3. CASE k = (n + 1) + 1
    <3>1. n + 1 \in 1..L /\ n + 1 \in Nat \ {0} /\ n + 1 \in 1..n + 1
      BY <1>1
    <3>2. HeaderAt(k) = HeaderAt(n + 1) + 1 + Len(archive[n + 1].data)
      BY <1>2, <2>3, <3>1, Zenon
    <3>3. Len(archive[n + 1].data) \in Nat /\ HeaderAt(n + 1) \in Nat
      BY <1>1, <2>1, <3>1, Zenon
    <3>4. HeaderAt(k) \in Nat /\ HeaderAt(n + 1) < HeaderAt(k)
      BY <3>2, <3>3
    <3>5. ASSUME NEW m \in 1..k - 1 PROVE HeaderAt(m) < HeaderAt(k)
      <4>1. m = n + 1 \/ m \in 1..(n + 1) - 1
        BY <2>3
      <4>2. ASSUME m \in 1..(n + 1) - 1 PROVE HeaderAt(m) < HeaderAt(n + 1) /\ HeaderAt(m) \in Nat
        <5>1. m \in 1..n + 1
          BY <4>2
        <5> QED
          BY <2>1, <3>1, <4>2, <5>1, Zenon
      <4>3. CASE m = n + 1
        BY <3>4, <4>3, Zenon
      <4>4. CASE m \in 1..(n + 1) - 1
        <5>1. HeaderAt(m) < HeaderAt(n + 1) /\ HeaderAt(m) \in Nat
          BY <4>2, <4>4, Zenon
        <5> QED
          BY <3>3, <3>4, <5>1
      <4> QED
        BY <4>1, <4>3, <4>4, Zenon
    <3> QED
      BY <3>4, <3>5, Zenon
  <2>4. k \in 1..n + 1 \/ k = (n + 1) + 1
    OBVIOUS
  <2> QED
    BY <2>2, <2>3, <2>4, Zenon
<1>5. \A n \in Nat : n \in T
  <2> HIDE DEF T
  <2> QED
    BY <1>3, <1>4, AllNaturals, Zenon
<1>6. \A k \in 1..L + 1 : Below(k)
  <2> HIDE DEF Below
  <2>1. L <= L
    BY <1>1
  <2> QED
    BY <1>1, <1>5, <2>1, Zenon
<1>7. \A m, n \in 1..L + 1 : m < n => m \in 1..n - 1
  BY <1>1
<1> QED
  BY <1>6, <1>7, Zenon DEF L

\* The blocks of the first entries, as Blocks puts them together
Writes(a, N, upto) == upto = [n \in 0..N |-> IF n = 0 THEN <<>> ELSE upto[n - 1] \o EntryBlocks(a[n])]
Written(a, N, upto) ==
  /\ upto = [n \in 0..N |-> upto[n]]
  /\ upto[0] = <<>> /\ \A n \in 1..N : upto[n] = upto[n - 1] \o EntryBlocks(a[n])

LEMMA WrittenIs == ASSUME NEW a, NEW N \in Nat, NEW f PROVE Written(a, N, f) <=> Writes(a, N, f)
<1> DEFINE g == [n \in 0..N |-> IF n = 0 THEN <<>> ELSE f[n - 1] \o EntryBlocks(a[n])]
<1>1. 0 \in 0..N /\ (\A n \in 1..N : n \in 0..N /\ n # 0) /\ \A n \in 0..N : n # 0 => n \in 1..N
  OBVIOUS
<1>2. ASSUME f = g PROVE Written(a, N, f)
  <2>1. f = [n \in 0..N |-> f[n]]
    BY <1>2
  <2>2. g[0] = <<>> /\ \A n \in 1..N : g[n] = f[n - 1] \o EntryBlocks(a[n])
    BY <1>1, Zenon
  <2> HIDE DEF g
  <2> QED
    BY <1>2, <2>1, <2>2, Zenon DEF Written
<1>3. ASSUME Written(a, N, f) PROVE f = g
  <2>1. f = [n \in 0..N |-> f[n]] /\ f[0] = <<>> /\ \A n \in 1..N : f[n] = f[n - 1] \o EntryBlocks(a[n])
    BY <1>3, Zenon DEF Written
  <2>2. \A n \in 0..N : f[n] = IF n = 0 THEN <<>> ELSE f[n - 1] \o EntryBlocks(a[n])
    BY <1>1, <2>1, Zenon
  <2>3. [n \in 0..N |-> f[n]] = g
    BY <2>2, Zenon
  <2> QED
    BY <2>1, <2>3, Zenon
<1> QED
  BY <1>2, <1>3, Zenon DEF Writes

LEMMA WrittenExists == ASSUME NEW a PROVE \A N \in Nat : \E f : Written(a, N, f)
<1> DEFINE T == {N \in Nat : \E f : Written(a, N, f)}
<1>1. 0 \in T
  <2> DEFINE a0 == [n \in 0..0 |-> <<>>]
  <2>1. a0 = [n \in 0..0 |-> a0[n]] /\ a0[0] = <<>> /\ \A n \in 1..0 : a0[n] = a0[n - 1] \o EntryBlocks(a[n])
    OBVIOUS
  <2> HIDE DEF a0
  <2>2. Written(a, 0, a0)
    BY <2>1, Zenon DEF Written
  <2> QED
    BY <2>2
<1>2. ASSUME NEW n \in Nat, n \in T PROVE n + 1 \in T
  <2>1. PICK f : Written(a, n, f)
    BY <1>2
  <2> DEFINE g == [k \in 0..n + 1 |-> IF k = n + 1 THEN f[n] \o EntryBlocks(a[n + 1]) ELSE f[k]]
  <2>2. f[0] = <<>> /\ \A k \in 1..n : f[k] = f[k - 1] \o EntryBlocks(a[k])
    BY <2>1, Zenon DEF Written
  <2>3. /\ \A k \in 0..n : g[k] = f[k]
        /\ g[n + 1] = f[n] \o EntryBlocks(a[n + 1]) /\ g = [k \in 0..n + 1 |-> g[k]]
    OBVIOUS
  <2> HIDE DEF g
  <2>4. /\ \A k \in 1..n + 1 : k # n + 1 => k \in 1..n /\ k \in 0..n /\ k - 1 \in 0..n
        /\ (n + 1) - 1 = n /\ n \in 0..n /\ 0 \in 0..n /\ n + 1 \in Nat
    OBVIOUS
  <2>5. g[0] = <<>>
    BY <2>2, <2>3, <2>4, Zenon
  <2>6. ASSUME NEW k \in 1..n + 1 PROVE g[k] = g[k - 1] \o EntryBlocks(a[k])
    <3>1. CASE k = n + 1
      BY <2>3, <2>4, <3>1, Zenon
    <3>2. CASE k # n + 1
      BY <2>2, <2>3, <2>4, <3>2, Zenon
    <3> QED
      BY <3>1, <3>2, Zenon
  <2>7. Written(a, n + 1, g)
    BY <2>3, <2>5, <2>6, Zenon DEF Written
  <2> QED
    BY <2>4, <2>7
<1>3. \A n \in Nat : n \in T
  <2> HIDE DEF T
  <2> QED
    BY <1>1, <1>2, AllNaturals, Zenon
<1> QED
  BY <1>3


LEMMA FunctionSeq ==
  ASSUME NEW S, NEW n \in Nat, NEW f, f = [i \in 1..n |-> f[i]], \A i \in 1..n : f[i] \in S
  PROVE  f \in Seq(S) /\ Len(f) = n
  OBVIOUS

LEMMA OneSeq == ASSUME NEW S, NEW e \in S PROVE <<e>> \in Seq(S) /\ Len(<<e>>) = 1 /\ <<e>>[1] = e
  OBVIOUS

Zero == <<"zero", "zero">>
AllBlocks == {Header(e) : e \in Entry} \cup {<<"data", x>> : x \in STRING} \cup {Zero}

LEMMA EntryBlocksFacts ==
  ASSUME NEW e \in Entry
  PROVE  EntryBlocks(e) \in Seq(AllBlocks) /\ Len(EntryBlocks(e)) = 1 + Len(e.data) /\ EntryBlocks(e)[1] = Header(e)
<1> DEFINE f == [i \in DOMAIN e.data |-> <<"data", e.data[i]>>]
           h == Header(e)
<1>1. e.data \in Seq(STRING)
  BY DEF Entry
<1>2. PICK n \in Nat : n = Len(e.data)
  BY <1>1, SeqFacts, Zenon
<1>3. DOMAIN e.data = 1..n /\ \A i \in 1..n : e.data[i] \in STRING
  BY <1>1, <1>2, SeqFacts, Zenon
<1>4. f = [i \in 1..n |-> f[i]] /\ \A i \in 1..n : f[i] = <<"data", e.data[i]>>
  BY <1>3, Zenon
<1>5. h \in AllBlocks
  BY Zenon DEF AllBlocks
<1> HIDE DEF f
<1>6. \A i \in 1..n : f[i] \in AllBlocks
  BY <1>3, <1>4, Zenon DEF AllBlocks
<1>7. f \in Seq(AllBlocks) /\ Len(f) = n
  BY <1>4, <1>6, FunctionSeq, Zenon
<1> HIDE DEF h
<1>8. <<h>> \in Seq(AllBlocks) /\ Len(<<h>>) = 1 /\ <<h>>[1] = h
  BY <1>5, OneSeq, Zenon
<1>9. PICK o \in Seq(AllBlocks) : o = <<h>>
  BY <1>8, Zenon
<1>10. o \o f \in Seq(AllBlocks) /\ Len(o \o f) = 1 + n /\ (o \o f)[1] = h
  BY <1>7, <1>8, <1>9, ConcatFacts
<1>11. EntryBlocks(e) = o \o f
  BY <1>9, Zenon DEF EntryBlocks, f, h
<1> QED
  BY <1>2, <1>10, <1>11, Zenon DEF h

\* The first n entries end where the next header is, and their headers are in place.
LEMMA WrittenBlocks ==
  ASSUME archive \in Seq(Entry), NEW L \in Nat, L = Len(archive), NEW f, Written(archive, L, f)
  PROVE  \A n \in 0..L : /\ f[n] \in Seq(AllBlocks) /\ Len(f[n]) = HeaderAt(n + 1)
                         /\ \A i \in 1..n : f[n][HeaderAt(i) + 1] = Header(archive[i])
<1> DEFINE P(n) == /\ f[n] \in Seq(AllBlocks) /\ Len(f[n]) = HeaderAt(n + 1)
                   /\ \A i \in 1..n : f[n][HeaderAt(i) + 1] = Header(archive[i])
           T == {n \in Nat : n <= L => P(n)}
<1>1. f[0] = <<>> /\ \A n \in 1..L : f[n] = f[n - 1] \o EntryBlocks(archive[n])
  BY Zenon DEF Written
<1>2. HeaderAt(1) = 0 /\ \A n \in Nat \ {0} : HeaderAt(n + 1) = HeaderAt(n) + 1 + Len(archive[n].data)
  BY HeaderSteps, Zenon
<1>3. \A n \in 1..L : archive[n] \in Entry /\ Len(archive[n].data) \in Nat
  BY EntryFacts, Zenon
<1>4. /\ \A n \in 1..L + 1 : HeaderAt(n) \in Nat
      /\ \A m, n \in 1..L + 1 : m < n => HeaderAt(m) < HeaderAt(n)
  BY HeadersRise, Zenon
<1>5. 0 \in T
  <2>1. <<>> \in Seq(AllBlocks) /\ Len(<<>>) = 0 /\ 0 + 1 = 1 /\ 1..0 = {}
    OBVIOUS
  <2>2. P(0)
    BY <1>1, <1>2, <2>1, Zenon
  <2> QED
    BY <2>2
<1>6. ASSUME NEW n \in Nat, n \in T PROVE n + 1 \in T
  <2> SUFFICES ASSUME n + 1 <= L PROVE P(n + 1)
    OBVIOUS
  <2>1. PICK k \in Nat : k = n + 1
    OBVIOUS
  <2>2. k \in 1..L /\ k - 1 = n /\ k \in Nat \ {0} /\ n <= L /\ k \in 1..L + 1 /\ k + 1 \in 1..L + 1
    BY <2>1
  <2>3. PICK s : s = f[n]
    BY Zenon
  <2>4. s \in Seq(AllBlocks) /\ Len(s) = HeaderAt(k) /\ \A i \in 1..n : s[HeaderAt(i) + 1] = Header(archive[i])
    BY <1>6, <2>1, <2>2, <2>3, Zenon
  <2>5. PICK e \in Entry : e = archive[k]
    BY <1>3, <2>2, Zenon
  <2>6. PICK b \in Seq(AllBlocks) : b = EntryBlocks(e) /\ Len(b) = 1 + Len(e.data) /\ b[1] = Header(e)
    BY EntryBlocksFacts, Zenon
  <2>7. f[k] = s \o b
    BY <1>1, <2>2, <2>3, <2>5, <2>6, Zenon
  <2>8. PICK c \in Nat : c = Len(e.data)
    BY <1>3, <2>2, <2>5, Zenon
  <2>9. PICK m \in Nat : m = HeaderAt(k)
    BY <1>4, <2>2, Zenon
  <2>10. Len(s) = m /\ Len(b) = 1 + c
    BY <2>4, <2>6, <2>8, <2>9, Zenon
  <2>11. /\ s \o b \in Seq(AllBlocks) /\ Len(s \o b) = m + (1 + c)
         /\ (\A i \in 1..m : (s \o b)[i] = s[i]) /\ (s \o b)[m + 1] = b[1]
    <3>1. 1 \in 1..1 + c
      OBVIOUS
    <3>2. /\ s \o b \in Seq(AllBlocks) /\ Len(s \o b) = Len(s) + Len(b)
          /\ \A i \in 1..Len(s) : (s \o b)[i] = s[i]
          /\ \A i \in 1..Len(b) : (s \o b)[Len(s) + i] = b[i]
      <4>1. s \in Seq(AllBlocks)
        BY <2>4, Zenon
      <4> QED
        BY <4>1, ConcatFacts
    <3> QED
      BY <2>10, <3>1, <3>2, Zenon
  <2>12. HeaderAt(k + 1) = m + 1 + c
    BY <1>2, <2>2, <2>5, <2>8, <2>9, Zenon
  <2>13. Len(f[k]) = HeaderAt(k + 1)
    BY <2>7, <2>11, <2>12
  <2>14. ASSUME NEW i \in 1..k PROVE f[k][HeaderAt(i) + 1] = Header(archive[i])
    <3>1. CASE i = k
      BY <2>5, <2>6, <2>7, <2>9, <2>11, <3>1, Zenon
    <3>2. CASE i # k
      <4>1. i \in 1..n /\ i < k /\ i \in 1..L + 1
        BY <2>1, <2>2, <3>2
      <4>2. HeaderAt(i) \in Nat /\ HeaderAt(i) < m
        BY <1>4, <2>2, <2>9, <4>1, Zenon
      <4>3. HeaderAt(i) + 1 \in 1..m
        BY <4>2
      <4> QED
        BY <2>4, <2>7, <2>11, <4>1, <4>3, Zenon
    <3> QED
      BY <3>1, <3>2, Zenon
  <2> QED
    BY <2>1, <2>7, <2>11, <2>13, <2>14, Zenon
<1>7. \A n \in Nat : n \in T
  <2> HIDE DEF T
  <2> QED
    BY <1>5, <1>6, AllNaturals, Zenon
<1>8. \A n \in 0..L : n \in Nat /\ n <= L
  OBVIOUS
<1> QED
  BY <1>7, <1>8, Zenon

LEMMA DeviceIs ==
  ASSUME archive \in Seq(Entry)
  PROVE  /\ \A n \in 1..Len(archive) : Device[HeaderAt(n) + 1] = Header(archive[n])
         /\ Device[HeaderAt(Len(archive) + 1) + 1] = Zero
<1>1. PICK L \in Nat : L = Len(archive)
  BY EntryFacts, Zenon
<1>2. PICK f : f = CHOOSE upto : Writes(archive, L, upto)
  BY Zenon
<1>3. \E upto : Written(archive, L, upto)
  BY WrittenExists, Zenon
<1>4. Writes(archive, L, f)
  BY <1>2, <1>3, WrittenIs, Zenon
<1>5. Written(archive, L, f)
  BY <1>4, WrittenIs, Zenon
<1>6. Device = f[L] \o <<Zero>>
  BY <1>1, <1>2, Zenon DEF Device, Blocks, Writes, Zero
<1>7. L \in 0..L
  OBVIOUS
<1>8. PICK s \in Seq(AllBlocks) : /\ s = f[L] /\ Len(s) = HeaderAt(L + 1)
                                  /\ \A i \in 1..L : s[HeaderAt(i) + 1] = Header(archive[i])
  <2>1. \A n \in 0..L : /\ f[n] \in Seq(AllBlocks) /\ Len(f[n]) = HeaderAt(n + 1)
                         /\ \A i \in 1..n : f[n][HeaderAt(i) + 1] = Header(archive[i])
    BY <1>1, <1>5, WrittenBlocks, Zenon
  <2> QED
    BY <1>7, <2>1, Zenon
<1>9. PICK z \in AllBlocks : z = Zero
  BY Zenon DEF AllBlocks
<1>10. Device = s \o <<z>>
  BY <1>6, <1>8, <1>9, Zenon
<1>11. s \o <<z>> = Append(s, z) /\ Append(s, z)[Len(s) + 1] = z /\ \A i \in 1..Len(s) : Append(s, z)[i] = s[i]
  BY AppendFacts, Zenon
<1>12. ASSUME NEW n \in 1..L PROVE HeaderAt(n) + 1 \in 1..Len(s)
  <2>1. n \in 1..L + 1 /\ L + 1 \in 1..L + 1 /\ n < L + 1
    OBVIOUS
  <2>2. HeaderAt(n) \in Nat /\ HeaderAt(L + 1) \in Nat /\ HeaderAt(n) < HeaderAt(L + 1)
    BY <1>1, <2>1, HeadersRise, Zenon
  <2> QED
    BY <1>8, <2>2
<1> QED
  BY <1>1, <1>8, <1>9, <1>10, <1>11, <1>12, Zenon


-----------------------------------------------------------------------------
\* One turn of the scan

Node(n) == [type |-> "regular", inode |-> 0, offset |-> HeaderAt(n), size |-> Len(archive[n].data)]

LEMMA InArchives == ASSUME archive \in Archives PROVE archive \in Seq(Entry)
  BY TarAssumption, Zenon

LEMMA ScanHeader ==
  ASSUME archive \in Archives, NEW k \in 1..Len(archive), offset = HeaderAt(k), tarfs_scan
  PROVE  /\ offset' = HeaderAt(k + 1) /\ scanning' = scanning /\ archive' = archive
         /\ archive[k].type = "file" => tarfs_add_node(archive[k].path, Node(k))
         /\ archive[k].type # "file" => UNCHANGED <<tree, vnodes, inext>>
<1>1. archive \in Seq(Entry)
  BY InArchives, Zenon
<1>2. PICK L \in Nat : L = Len(archive) /\ DOMAIN archive = 1..L
  BY <1>1, EntryFacts, Zenon
<1>3. PICK e \in Entry : e = archive[k] /\ Len(e.data) \in Nat
  BY <1>1, EntryFacts, Zenon
<1>4. Device[offset + 1] = Header(e)
  BY <1>1, <1>3, DeviceIs, Zenon
<1>5. PICK h : h = [path |-> e.path, type |-> e.type, size |-> Len(e.data)]
  BY Zenon
<1>6. Header(e)[1] = "header" /\ Header(e)[3] = h
  BY <1>5 DEF Header
<1>7. h.path = e.path /\ h.type = e.type /\ h.size = Len(e.data)
  BY <1>5
<1>8. /\ offset' = tarfs_nextheader(h) /\ scanning' = scanning /\ archive' = archive
      /\ IF h.type = "file" THEN tarfs_regularfile(h) ELSE tarfs_directory
  BY <1>4, <1>6, Zenon DEF tarfs_scan
<1>9. HeaderAt(k + 1) = HeaderAt(k) + 1 + Len(e.data)
  <2>1. k \in Nat \ {0}
    OBVIOUS
  <2> QED
    BY <1>3, <2>1, HeaderSteps, Zenon
<1>10. offset' = HeaderAt(k + 1)
  <2>1. CASE e.type = "file"
    BY <1>7, <1>8, <1>9, <2>1, Zenon DEF tarfs_nextheader
  <2>2. CASE e.type # "file"
    <3>1. e.data = <<>>
      BY <1>2, <1>3, <2>2, TarAssumption, Zenon
    <3>2. Len(e.data) = 0
      BY <3>1
    <3> QED
      BY <1>7, <1>8, <1>9, <2>2, <3>2, Zenon DEF tarfs_nextheader
  <2> QED
    BY <2>1, <2>2, Zenon
<1>11. e.type = "file" => tarfs_add_node(e.path, Node(k))
  BY <1>3, <1>7, <1>8, Zenon DEF tarfs_regularfile, Node
<1>12. e.type # "file" => UNCHANGED <<tree, vnodes, inext>>
  BY <1>7, <1>8, Zenon DEF tarfs_directory
<1> QED
  BY <1>3, <1>8, <1>10, <1>11, <1>12, Zenon

LEMMA ScanEnd ==
  ASSUME archive \in Archives, offset = HeaderAt(Len(archive) + 1), tarfs_scan
  PROVE  scanning' = FALSE /\ UNCHANGED <<archive, offset, tree, vnodes, inext>>
<1>1. Device[offset + 1] = Zero
  BY InArchives, DeviceIs, Zenon
<1>2. Zero[1] # "header"
  BY DEF Zero
<1> QED
  BY <1>1, <1>2, Zenon DEF tarfs_scan

\* The inductive invariant: the scan is at a header or behind the last entry, the inodes
\* in the tree differ and have been given out, and each has a vnode.
AtHeader(k) == k \in 1..Len(archive) + 1 /\ offset = HeaderAt(k) /\ (~scanning => k = Len(archive) + 1)
TarInv ==
  /\ archive \in Archives
  /\ \E k : AtHeader(k)
  /\ Good(tree, inext) /\ DOMAIN vnodes = 1..inext - 1

LEMMA TarInit == ASSUME InitTar PROVE TarInv
<1>1. archive \in Archives /\ offset = 0 /\ scanning = TRUE /\ tree = <<>> /\ inext = 2 /\ vnodes = [i \in {1} |-> Directory(1)]
  BY Zenon DEF InitTar
<1>2. Good(tree, inext)
  BY <1>1 DEF Good
<1>3. DOMAIN vnodes = 1..inext - 1
  BY <1>1
<1>4. Len(archive) \in Nat
  BY <1>1, InArchives, EntryFacts, Zenon
<1>5. 1 \in 1..Len(archive) + 1
  BY <1>4
<1>6. AtHeader(1)
  BY <1>1, <1>5, HeaderSteps, Zenon DEF AtHeader
<1> QED
  BY <1>1, <1>2, <1>3, <1>6, Zenon DEF TarInv

\* What a turn of the scan does to the tree
LEMMA ScanTree ==
  ASSUME TarInv, tarfs_scan, NEW k, AtHeader(k)
  PROVE  \/ UNCHANGED <<tree, vnodes, inext>> /\ (k \in 1..Len(archive) => archive[k].type # "file")
         \/ /\ k \in 1..Len(archive) /\ archive[k].type = "file"
            /\ Lookup(tree, dirname(archive[k].path)) # 0
            /\ NewOnly(tree, vnodes, inext, tree', vnodes', inext', Names(archive[k].path))
            /\ FileAt(tree', archive[k].path) # 0
            /\ vnodes'[FileAt(tree', archive[k].path)] = Node(k)
         \/ /\ k \in 1..Len(archive) /\ archive[k].type = "file"
            /\ Lookup(tree, dirname(archive[k].path)) = 0
            /\ \E j \in 1..Len(dirname(archive[k].path)) :
                 NewOnly(tree, vnodes, inext, tree', vnodes', inext', SubSeq(dirname(archive[k].path), 1, j))
<1>1. archive \in Archives /\ Good(tree, inext) /\ DOMAIN vnodes = 1..inext - 1
  BY Zenon DEF TarInv
<1>2. PICK L \in Nat : L = Len(archive)
  BY <1>1, InArchives, EntryFacts, Zenon
<1>3. k \in 1..L + 1 /\ offset = HeaderAt(k)
  BY <1>2, Zenon DEF AtHeader
<1>4. CASE k = L + 1
  <2>1. UNCHANGED <<tree, vnodes, inext>>
    BY <1>1, <1>2, <1>3, <1>4, ScanEnd, Zenon
  <2>2. k \notin 1..L
    BY <1>4
  <2> QED
    BY <1>2, <2>1, <2>2, Zenon
<1>5. CASE k \in 1..L
  <2>1. PICK p : p = archive[k].path
    BY Zenon
  <2>2. p \in Seq(FileNames) /\ p # <<>>
    BY <1>1, <1>2, <1>5, <2>1, InArchives, EntryFacts, Zenon
  <2>3. CASE archive[k].type # "file"
    BY <1>1, <1>2, <1>3, <1>5, <2>3, ScanHeader, Zenon
  <2>4. CASE archive[k].type = "file"
    <3>1. tarfs_add_node(p, Node(k))
      BY <1>1, <1>2, <1>3, <1>5, <2>1, <2>4, ScanHeader, Zenon
    <3>2. CASE Lookup(tree, dirname(p)) # 0
      <4>1. /\ NewOnly(tree, vnodes, inext, tree', vnodes', inext', Names(p))
            /\ Lookup(tree', Names(p)) # 0 /\ vnodes'[Lookup(tree', Names(p))] = Node(k)
        BY <1>1, <2>2, <3>1, <3>2, AddFound, Zenon
      <4> QED
        BY <1>2, <1>5, <2>1, <2>4, <3>2, <4>1, Zenon DEF FileAt
    <3>3. CASE Lookup(tree, dirname(p)) = 0
      <4>1. \E j \in 1..Len(dirname(p)) : NewOnly(tree, vnodes, inext, tree', vnodes', inext', SubSeq(dirname(p), 1, j))
        BY <1>1, <2>2, <3>1, <3>3, AddLost, Zenon
      <4> QED
        BY <1>2, <1>5, <2>1, <2>4, <3>3, <4>1, Zenon
    <3> QED
      BY <3>2, <3>3, Zenon
  <2> QED
    BY <2>3, <2>4, Zenon
<1>6. k \in 1..L \/ k = L + 1
  BY <1>3
<1> QED
  BY <1>4, <1>5, <1>6, Zenon


LEMMA HeadersDiffer ==
  ASSUME archive \in Archives
  PROVE  \A m, n \in 1..Len(archive) + 1 : /\ HeaderAt(m) = HeaderAt(n) => m = n
                                           /\ HeaderAt(m) < HeaderAt(n) <=> m < n
<1>1. archive \in Seq(Entry)
  BY InArchives, Zenon
<1>2. PICK L \in Nat : L = Len(archive)
  BY <1>1, EntryFacts, Zenon
<1>3. /\ \A n \in 1..L + 1 : HeaderAt(n) \in Nat
      /\ \A m, n \in 1..L + 1 : m < n => HeaderAt(m) < HeaderAt(n)
  BY <1>1, <1>2, HeadersRise, Zenon
<1>4. ASSUME NEW m \in 1..L + 1, NEW n \in 1..L + 1
      PROVE  (HeaderAt(m) = HeaderAt(n) => m = n) /\ (HeaderAt(m) < HeaderAt(n) <=> m < n)
  <2>1. PICK a \in Nat, b \in Nat : a = HeaderAt(m) /\ b = HeaderAt(n)
    BY <1>3, Zenon
  <2>2. (m < n => a < b) /\ (n < m => b < a)
    BY <1>3, <2>1, Zenon
  <2>3. m = n => a = b
    BY <2>1, Zenon
  <2>4. (a = b => m = n) /\ (a < b <=> m < n)
    BY <2>2, <2>3
  <2> QED
    BY <2>1, <2>4, Zenon
<1> QED
  BY <1>2, <1>4, Zenon

LEMMA SameHeaders == ASSUME archive' = archive PROVE \A n : HeaderAt(n)' = HeaderAt(n)
  BY Zenon DEF HeaderAt

\* The scan goes on to the next header, or ends.
LEMMA ScanNext ==
  ASSUME TarInv, tarfs_scan, NEW k, AtHeader(k)
  PROVE  /\ archive' = archive
         /\ \/ k \in 1..Len(archive) /\ AtHeader(k + 1)' /\ scanning' = scanning
            \/ k = Len(archive) + 1 /\ AtHeader(k)' /\ offset' = offset
<1>1. archive \in Archives
  BY Zenon DEF TarInv
<1>2. PICK L \in Nat : L = Len(archive)
  BY <1>1, InArchives, EntryFacts, Zenon
<1>3. k \in 1..L + 1 /\ offset = HeaderAt(k) /\ scanning
  BY <1>2, Zenon DEF AtHeader, tarfs_scan
<1>4. k \in 1..L \/ k = L + 1
  BY <1>3
<1>5. CASE k = L + 1
  <2>1. archive' = archive /\ offset' = offset
    BY <1>1, <1>2, <1>3, <1>5, ScanEnd, Zenon
  <2>2. AtHeader(k)'
    BY <1>2, <1>3, <1>5, <2>1, SameHeaders, Zenon DEF AtHeader
  <2> QED
    BY <1>2, <1>5, <2>1, <2>2, Zenon
<1>6. CASE k \in 1..L
  <2>1. archive' = archive /\ offset' = HeaderAt(k + 1) /\ scanning' = scanning
    BY <1>1, <1>2, <1>3, <1>6, ScanHeader, Zenon
  <2>2. k + 1 \in 1..L + 1
    BY <1>6
  <2>3. AtHeader(k + 1)'
    BY <1>2, <1>3, <2>1, <2>2, SameHeaders, Zenon DEF AtHeader
  <2> QED
    BY <1>2, <1>6, <2>1, <2>3, Zenon
<1> QED
  BY <1>4, <1>5, <1>6, Zenon

LEMMA TarNext == ASSUME TarInv, [tarfs_scan]_tarVars PROVE TarInv'
<1>1. CASE UNCHANGED tarVars
  BY <1>1, SameHeaders, Zenon DEF TarInv, AtHeader, tarVars
<1>2. CASE tarfs_scan
  <2>1. PICK k : AtHeader(k)
    BY Zenon DEF TarInv
  <2>2. archive' \in Archives /\ \E j : AtHeader(j)'
    BY <1>2, <2>1, ScanNext, Zenon DEF TarInv
  <2>3. Good(tree', inext') /\ DOMAIN vnodes' = 1..inext' - 1
    <3>1. CASE UNCHANGED <<tree, vnodes, inext>>
      BY <3>1, Zenon DEF TarInv
    <3>2. ASSUME NEW r, NewOnly(tree, vnodes, inext, tree', vnodes', inext', r)
          PROVE  Good(tree', inext') /\ DOMAIN vnodes' = 1..inext' - 1
      BY <3>2, Zenon DEF NewOnly
    <3> QED
      BY <1>2, <2>1, <3>1, <3>2, ScanTree, Zenon
  <2> QED
    BY <2>2, <2>3, Zenon DEF TarInv
<1> QED
  BY <1>1, <1>2, Zenon

\* A lookup that found something finds the same after a turn of the scan.
LEMMA ScanStillFound ==
  ASSUME TarInv, tarfs_scan, NEW p \in Seq(FileNames), Lookup(tree, p) # 0
  PROVE  Lookup(tree', p) = Lookup(tree, p)
<1>1. PICK k : AtHeader(k)
  BY Zenon DEF TarInv
<1>2. CASE UNCHANGED <<tree, vnodes, inext>>
  BY <1>2, Zenon
<1>3. ASSUME NEW r, NewOnly(tree, vnodes, inext, tree', vnodes', inext', r)
      PROVE  Lookup(tree', p) = Lookup(tree, p)
  <2>1. Good(tree, inext) /\ Good(tree', inext') /\ Grows(tree, tree')
    BY <1>3, Zenon DEF NewOnly, TarInv
  <2> QED
    BY <2>1, StillFound, Zenon
<1> QED
  BY <1>1, <1>2, <1>3, ScanTree, Zenon

LEMMA MembersStep ==
  ASSUME TarInv, tarfs_scan, NEW n \in DOMAIN archive, archive[n].type = "file", NEW p, p = archive[n].path
  PROVE  \/ FileAt(tree, p) = 0 /\ (HeaderAt(n) # offset \/ Lookup(tree, dirname(p)) = 0)
         \/ FileAt(tree', p) # 0 /\ FileAt(tree, p) \in {0, FileAt(tree', p)}
<1>1. archive \in Archives
  BY Zenon DEF TarInv
<1>2. n \in 1..Len(archive) /\ p \in Seq(FileNames) /\ p # <<>> /\ Len(archive) \in Nat
  BY <1>1, InArchives, EntryFacts, Zenon
<1>3. Names(p) \in Seq(FileNames)
  BY <1>2, NamesFacts, Zenon
<1>4. CASE FileAt(tree, p) # 0
  <2>1. FileAt(tree', p) = FileAt(tree, p)
    BY <1>3, <1>4, ScanStillFound, Zenon DEF FileAt
  <2> QED
    BY <1>4, <2>1, Zenon
<1>5. CASE FileAt(tree, p) = 0 /\ HeaderAt(n) = offset /\ Lookup(tree, dirname(p)) # 0
  <2>1. PICK k : AtHeader(k)
    BY Zenon DEF TarInv
  <2>2. k \in 1..Len(archive) + 1 /\ n \in 1..Len(archive) + 1
    BY <1>2, <2>1 DEF AtHeader
  <2>3. k = n
    BY <1>1, <1>5, <2>1, <2>2, HeadersDiffer, Zenon DEF AtHeader
  <2>4. FileAt(tree', p) # 0
    BY <1>2, <1>5, <2>1, <2>3, ScanTree, Zenon
  <2> QED
    BY <1>5, <2>4, Zenon
<1> QED
  BY <1>4, <1>5, Zenon

\* TarInv is an invariant of the scan, for any archives.
THEOREM TarInvariance == TarSpec => []TarInv
<1>1. InitTar => TarInv
  BY TarInit
<1>2. TarInv /\ [tarfs_scan]_tarVars => TarInv'
  BY TarNext
<1> QED
  BY <1>1, <1>2, PTL DEF TarSpec

\* MembersStay, for any archives: what a lookup finds it finds for good, and tarfs_scan
\* leaves a file where a lookup finds it whenever the directory of the file is found.
THEOREM MembersStayCorrect == TarSpec => MembersStay
<1> DEFINE A(n) == LET path == archive[n].path
                   IN  archive[n].type = "file" =>
                         \/ FileAt(tree, path) = 0 /\ (HeaderAt(n) # offset \/ Lookup(tree, dirname(path)) = 0)
                         \/ FileAt(tree', path) # 0 /\ FileAt(tree, path) \in {0, FileAt(tree', path)}
<1>1. TarInv /\ [tarfs_scan]_tarVars => [scanning => \A n \in DOMAIN archive : A(n)]_tarVars
  <2> SUFFICES ASSUME TarInv, tarfs_scan, NEW n \in DOMAIN archive PROVE A(n)
    OBVIOUS
  <2> QED
    BY MembersStep, Zenon
<1> QED
  BY <1>1, TarInvariance, PTL DEF TarSpec, MembersStay


-----------------------------------------------------------------------------
\* What a lookup finds

FilesRight ==
  \A n \in Scanned :
    \E m : /\ IsLast(m, archive[n].path)
           /\ FileAt(tree, archive[n].path) # 0 => vnodes[FileAt(tree, archive[n].path)] = Node(m)

LEMMA LastIs ==
  ASSUME Scanned \subseteq Nat, NEW path, NEW m, IsLast(m, path)
  PROVE  LastOf(path) = m
<1>1. PICK n : n = LastOf(path)
  BY Zenon
<1>2. IsLast(n, path)
  <2>1. \E i \in Scanned : IsLast(i, path)
    BY Zenon DEF IsLast
  <2> QED
    BY <1>1, <2>1, Zenon DEF LastOf
<1>3. m \in Nat /\ n \in Nat /\ m <= n /\ n <= m
  BY <1>2, Zenon DEF IsLast
<1>4. m = n
  BY <1>3
<1> QED
  BY <1>1, <1>4, Zenon

LEMMA ScannedIs ==
  ASSUME archive \in Archives, NEW k \in 1..Len(archive) + 1, offset = HeaderAt(k)
  PROVE  \A n : n \in Scanned <=> n \in 1..Len(archive) /\ archive[n].type = "file" /\ n < k
<1>1. PICK L \in Nat : L = Len(archive) /\ DOMAIN archive = 1..L
  BY InArchives, EntryFacts, Zenon
<1>2. \A n \in 1..L : n \in 1..L + 1
  OBVIOUS
<1>3. \A n \in 1..L : HeaderAt(n) < offset <=> n < k
  BY <1>1, <1>2, HeadersDiffer, Zenon
<1> QED
  BY <1>1, <1>3, Zenon DEF Scanned

LEMMA SameScanned == ASSUME archive' = archive, offset' = offset PROVE Scanned' = Scanned
<1>1. \A n : n \in Scanned' <=> n \in DOMAIN archive /\ archive[n].type = "file" /\ HeaderAt(n) < offset
  BY SameHeaders, Zenon DEF Scanned
<1>2. \A n : n \in Scanned <=> n \in DOMAIN archive /\ archive[n].type = "file" /\ HeaderAt(n) < offset
  BY Zenon DEF Scanned
<1> QED
  BY <1>1, <1>2, Zenon

\* The files read after a turn of the scan
LEMMA ScannedNext ==
  ASSUME TarInv, tarfs_scan, NEW k, AtHeader(k)
  PROVE  /\ \A n \in Scanned : n \in Nat /\ k \in Nat /\ n < k /\ n \in 1..Len(archive) /\ archive[n].type = "file"
         /\ k \in 1..Len(archive) /\ archive[k].type = "file" => \A n : n \in Scanned' <=> n \in Scanned \/ n = k
         /\ ~(k \in 1..Len(archive) /\ archive[k].type = "file") => Scanned' = Scanned
<1>1. archive \in Archives /\ archive' = archive
  BY ScanNext, Zenon DEF TarInv
<1>2. PICK L \in Nat : L = Len(archive) /\ DOMAIN archive = 1..L
  BY <1>1, InArchives, EntryFacts, Zenon
<1>3. k \in 1..L + 1 /\ offset = HeaderAt(k)
  BY <1>2, Zenon DEF AtHeader
<1>4. \A n : n \in Scanned <=> n \in 1..L /\ archive[n].type = "file" /\ n < k
  BY <1>1, <1>2, <1>3, ScannedIs, Zenon
<1>5. k \in Nat /\ \A n \in 1..L : n \in Nat
  BY <1>3
<1>6. CASE k \in 1..L
  <2>1. k + 1 \in 1..L + 1
    BY <1>6
  <2>2. offset' = HeaderAt(k + 1)
    BY <1>1, <1>2, <1>3, <1>6, ScanHeader, Zenon
  <2>3. \A n \in 1..L : n \in 1..L + 1
    OBVIOUS
  <2>4. \A n \in 1..L : HeaderAt(n) < offset' <=> n < k + 1
    BY <1>1, <1>2, <2>1, <2>2, <2>3, HeadersDiffer, Zenon
  <2>5. \A n \in 1..L : n < k + 1 <=> n < k \/ n = k
    BY <1>6
  <2>6. \A n : n \in Scanned' <=> n \in 1..L /\ archive[n].type = "file" /\ HeaderAt(n) < offset'
    BY <1>1, <1>2, SameHeaders, Zenon DEF Scanned
  <2>7. \A n : n \in Scanned' <=> n \in Scanned \/ (n = k /\ archive[k].type = "file")
    BY <1>4, <1>6, <2>4, <2>5, <2>6, Zenon
  <2>8. archive[k].type # "file" => Scanned' = Scanned
    BY <2>7, Zenon
  <2> QED
    BY <1>2, <1>4, <1>5, <1>6, <2>7, <2>8, Zenon
<1>7. CASE k \notin 1..L
  <2>1. offset' = offset
    BY <1>2, <1>7, ScanNext, Zenon
  <2>2. Scanned' = Scanned
    BY <1>1, <2>1, SameScanned, Zenon
  <2> QED
    BY <1>2, <1>4, <1>5, <1>7, <2>2, Zenon
<1> QED
  BY <1>6, <1>7, Zenon

\* The file k is read; nothing that was found changes but under its names P.
LEMMA FilesAdd ==
  ASSUME TarInv, FilesRight, tarfs_scan, NEW k, AtHeader(k), k \in 1..Len(archive), archive[k].type = "file",
         NEW P, P = Names(archive[k].path), NEW r, NewOnly(tree, vnodes, inext, tree', vnodes', inext', r),
         \A n \in Scanned : Names(archive[n].path) = r => Names(archive[n].path) = P,
         Lookup(tree', P) # 0 => vnodes'[Lookup(tree', P)] = Node(k)
  PROVE  FilesRight'
<1>1. archive' = archive /\ archive \in Archives
  BY ScanNext, Zenon DEF TarInv
<1>2. /\ \A n \in Scanned : n \in Nat /\ k \in Nat /\ n < k /\ n \in 1..Len(archive)
      /\ \A n : n \in Scanned' <=> n \in Scanned \/ n = k
  BY ScannedNext, Zenon
<1>3. \A n : Node(n)' = Node(n)
  BY <1>1, SameHeaders, Zenon DEF Node
<1>4. \A n, path : IsLast(n, path)' <=> /\ n \in Scanned' /\ Names(archive[n].path) = Names(path)
                                        /\ \A m \in Scanned' : Names(archive[m].path) = Names(path) => m <= n
  BY <1>1, Zenon DEF IsLast
<1>5. ASSUME NEW n \in Scanned', NEW p, p = archive[n].path
      PROVE  \E m : IsLast(m, p)' /\ (FileAt(tree', p) # 0 => vnodes'[FileAt(tree', p)] = Node(m))
  <2>1. CASE Names(p) = P
    <3>1. \A m \in Scanned' : m <= k
      <4>1. \A m \in Scanned : m <= k
        BY <1>2
      <4>2. k <= k
        OBVIOUS
      <4> QED
        BY <1>2, <4>1, <4>2, Zenon
    <3>2. IsLast(k, p)'
      BY <1>2, <1>4, <2>1, <3>1, Zenon
    <3> QED
      BY <2>1, <3>2, Zenon DEF FileAt
  <2>2. CASE Names(p) # P
    <3>1. n \in Scanned
      BY <1>2, <1>5, <2>2, Zenon
    <3>2. PICK m : IsLast(m, p) /\ (FileAt(tree, p) # 0 => vnodes[FileAt(tree, p)] = Node(m))
      BY <1>5, <3>1, Zenon DEF FilesRight
    <3>3. IsLast(m, p)'
      <4>1. /\ m \in Scanned /\ Names(archive[m].path) = Names(p)
            /\ \A i \in Scanned : Names(archive[i].path) = Names(p) => i <= m
        BY <3>2, Zenon DEF IsLast
      <4>2. m \in Scanned'
        BY <1>2, <4>1, Zenon
      <4>3. ASSUME NEW i \in Scanned', Names(archive[i].path) = Names(p) PROVE i <= m
        <5>1. i # k
          BY <2>2, <4>3, Zenon
        <5>2. i \in Scanned
          BY <1>2, <4>3, <5>1, Zenon
        <5> QED
          BY <4>1, <4>3, <5>2, Zenon
      <4> QED
        BY <1>4, <4>1, <4>2, <4>3, Zenon
    <3>4. Names(p) \in Seq(FileNames)
      BY <1>1, <1>2, <1>5, <3>1, InArchives, EntryFacts, NamesFacts, Zenon
    <3>5. ASSUME FileAt(tree', p) # 0
          PROVE  FileAt(tree', p) = FileAt(tree, p) /\ vnodes'[FileAt(tree, p)] = vnodes[FileAt(tree, p)]
      BY <1>5, <2>2, <3>1, <3>4, <3>5, Zenon DEF NewOnly, FileAt
    <3> QED
      BY <3>2, <3>3, <3>5, Zenon
  <2> QED
    BY <2>1, <2>2, Zenon
<1> QED
  BY <1>1, <1>3, <1>5, Zenon DEF FilesRight

LEMMA FilesNext ==
  ASSUME TarInv, FilesRight, [tarfs_scan]_tarVars, \A a \in Archives : FilesApart(a)
  PROVE  FilesRight'
<1>1. ASSUME archive' = archive, Scanned' = Scanned, tree' = tree, vnodes' = vnodes PROVE FilesRight'
  <2>1. \A n : Node(n)' = Node(n)
    BY <1>1, SameHeaders, Zenon DEF Node
  <2>2. \A n, path : IsLast(n, path)' <=> IsLast(n, path)
    BY <1>1, Zenon DEF IsLast
  <2> QED
    BY <1>1, <2>1, <2>2, Zenon DEF FilesRight
<1>2. CASE UNCHANGED tarVars
  <2>1. archive' = archive /\ tree' = tree /\ vnodes' = vnodes /\ offset' = offset
    BY <1>2, Zenon DEF tarVars
  <2>2. Scanned' = Scanned
    BY <2>1, SameScanned, Zenon
  <2> QED
    BY <1>1, <2>1, <2>2, Zenon
<1>3. CASE tarfs_scan
  <2>1. PICK k : AtHeader(k)
    BY Zenon DEF TarInv
  <2>2. archive' = archive /\ archive \in Archives
    BY <1>3, <2>1, ScanNext, Zenon DEF TarInv
  <2>3. CASE ~(k \in 1..Len(archive) /\ archive[k].type = "file")
    <3>1. UNCHANGED <<tree, vnodes, inext>>
      BY <1>3, <2>1, <2>3, ScanTree, Zenon
    <3>2. Scanned' = Scanned
      BY <1>3, <2>1, <2>3, ScannedNext, Zenon
    <3> QED
      BY <1>1, <2>2, <3>1, <3>2, Zenon
  <2>4. CASE k \in 1..Len(archive) /\ archive[k].type = "file"
    <3>1. PICK p : p = archive[k].path
      BY Zenon
    <3>2. p \in Seq(FileNames) /\ p # <<>>
      BY <2>2, <2>4, <3>1, InArchives, EntryFacts, Zenon
    <3>3. PICK P : P = Names(p)
      BY Zenon
    <3>4. CASE Lookup(tree, dirname(p)) # 0
      <4>1. /\ NewOnly(tree, vnodes, inext, tree', vnodes', inext', P)
            /\ vnodes'[Lookup(tree', P)] = Node(k)
        BY <1>3, <2>1, <2>4, <3>1, <3>3, <3>4, ScanTree, Zenon DEF FileAt
      <4> QED
        BY <1>3, <2>1, <2>4, <3>1, <3>3, <4>1, FilesAdd, Zenon
    <3>5. CASE Lookup(tree, dirname(p)) = 0
      <4>1. PICK j \in 1..Len(dirname(p)) : NewOnly(tree, vnodes, inext, tree', vnodes', inext', SubSeq(dirname(p), 1, j))
        BY <1>3, <2>1, <2>4, <3>1, <3>5, ScanTree, Zenon
      <4>2. PICK r : r = SubSeq(dirname(p), 1, j)
        BY Zenon
      <4>3. j \in DOMAIN dirname(p)
        BY <3>2, NamesFacts, SeqFacts, Zenon
      <4>4. DOMAIN archive = 1..Len(archive)
        BY <2>2, InArchives, EntryFacts, Zenon
      <4>5. \A n \in Scanned : n \in 1..Len(archive) /\ archive[n].type = "file"
        BY <1>3, <2>1, ScannedNext, Zenon
      <4>6. \A n \in DOMAIN archive : archive[n].type = "file" => Names(archive[n].path) # r
        BY <2>2, <2>4, <3>1, <4>2, <4>3, <4>4, Zenon DEF FilesApart
      <4>7. P = Append(dirname(p), basename(p)) /\ dirname(p) \in Seq(FileNames) /\ basename(p) \in FileNames /\ P \in Seq(FileNames)
        BY <3>2, <3>3, NamesFacts, Zenon
      <4>8. Lookup(tree, P) = 0
        BY <3>5, <4>7, LookupAppend, Zenon DEF Step
      <4>9. Lookup(tree', P) = 0
        BY <2>4, <3>1, <3>3, <4>1, <4>2, <4>4, <4>6, <4>7, <4>8, Zenon DEF NewOnly
      <4> QED
        BY <1>3, <2>1, <2>4, <3>1, <3>3, <4>1, <4>2, <4>4, <4>5, <4>6, <4>9, FilesAdd, Zenon
    <3> QED
      BY <3>4, <3>5, Zenon
  <2> QED
    BY <2>3, <2>4, Zenon
<1> QED
  BY <1>2, <1>3, Zenon


LEMMA FilesSound == ASSUME TarInv, FilesRight PROVE LookupSound
<1>1. PICK k : AtHeader(k)
  BY Zenon DEF TarInv
<1>2. archive \in Archives
  BY Zenon DEF TarInv
<1>3. ScansAll
  BY <1>1, Zenon DEF AtHeader, ScansAll
<1>4. Scanned \subseteq Nat
  <2>1. \A n : n \in Scanned => n \in 1..Len(archive)
    BY <1>1, <1>2, ScannedIs, Zenon DEF AtHeader
  <2>2. \A n \in 1..Len(archive) : n \in Nat
    OBVIOUS
  <2> QED
    BY <2>1, <2>2, Zenon
<1>5. ASSUME NEW n \in Scanned, NEW p, p = archive[n].path, FileAt(tree, p) # 0
      PROVE  vnodes[FileAt(tree, p)] = Node(LastOf(p))
  <2>1. PICK m : IsLast(m, p) /\ vnodes[FileAt(tree, p)] = Node(m)
    BY <1>5, Zenon DEF FilesRight
  <2>2. LastOf(p) = m
    BY <1>4, <2>1, LastIs, Zenon
  <2> QED
    BY <2>1, <2>2, Zenon
<1> QED
  BY <1>3, <1>5, Zenon DEF LookupSound, Node

\* LookupSound, for any archives in which no file is a directory on the path of another:
\* tarfs_scan reads every header and nothing else, and the vnode that a lookup of a file
\* finds is that of the last member with its names.
THEOREM LookupSoundCorrect == ASSUME \A a \in Archives : FilesApart(a) PROVE TarSpec => []LookupSound
<1>1. InitTar => FilesRight
  <2> SUFFICES ASSUME InitTar PROVE FilesRight
    OBVIOUS
  <2>1. archive \in Archives /\ offset = 0
    BY Zenon DEF InitTar
  <2>2. Len(archive) \in Nat
    BY <2>1, InArchives, EntryFacts, Zenon
  <2>3. 1 \in 1..Len(archive) + 1 /\ \A n \in 1..Len(archive) : ~(n < 1)
    BY <2>2
  <2>4. \A n : n \notin Scanned
    BY <2>1, <2>3, ScannedIs, HeaderSteps, Zenon
  <2> QED
    BY <2>4, Zenon DEF FilesRight
<1>2. TarInv /\ FilesRight /\ [tarfs_scan]_tarVars => FilesRight'
  BY FilesNext
<1>3. TarInv /\ FilesRight => LookupSound
  BY FilesSound
<1> QED
  BY <1>1, <1>2, <1>3, TarInvariance, PTL DEF TarSpec

=============================================================================
